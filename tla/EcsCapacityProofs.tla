-------------------------- MODULE EcsCapacityProofs -------------------------
(***************************************************************************)
(* The safety of EcsCapacity for every topology and every size.  First     *)
(* facts about the byte totals Sum(f, d): they are finite, monotone,       *)
(* change by the difference when one partition changes, and grow by the    *)
(* same share once per Instance; what the invariant Inv says about one     *)
(* rank, and which of its parts a step leaves alone.  Then the steps that  *)
(* publish commands, and the steps of the ranks and of the agents.  Last   *)
(* the theorems: Inv is inductive, and it implies what the runs check.     *)
(***************************************************************************)
EXTENDS EcsCapacity, FiniteSetTheorems, TLAPS

USE ZenonT(40)

Ledger == [Partitions -> Nat]

\* A group on a device has a partition there.
LEMMA PartitionOf ==
    ASSUME NEW d \in Devices, NEW g \in GroupsOn(d)
    PROVE  <<g, d>> \in Partitions /\ g \in Groups
BY DEF Partitions, GroupsOn

\* A partition is a group and one of its devices.
LEMMA PartitionParts ==
    ASSUME NEW p \in Partitions
    PROVE  /\ p[1] \in Groups /\ p[2] \in Devices /\ p = <<p[1], p[2]>>
           /\ p[2] \in DevicesOf[p[1]] /\ p[1] \in GroupsOn(p[2])
BY SMTT(40) DEF Partitions, GroupsOn

\* The pair of a group and one of its devices is a partition.
LEMMA GroupParts ==
    ASSUME NEW g \in Groups, NEW d \in DevicesOf[g]
    PROVE  /\ <<g, d>> \in Partitions /\ d \in Devices /\ g \in GroupsOn(d)
           /\ <<g, d>> \in Ranks(g)
BY TopologyAssumption DEF Partitions, GroupsOn, Ranks

\* A byte of a device belongs to one of its groups.
LEMMA BytesMember ==
    ASSUME NEW d, NEW f, NEW x
    PROVE  x \in Bytes(f, d) <=>
              \E g \in GroupsOn(d) : x \in {g} \X (1 .. f[<<g, d>>])
BY DEF Bytes

\* The bytes of one group are as many as its ledger entry.
LEMMA GroupBytes ==
    ASSUME NEW g, NEW n \in Nat
    PROVE  IsFiniteSet({g} \X (1 .. n)) /\ Cardinality({g} \X (1 .. n)) = n
<1> DEFINE A == {g}
           B == 1 .. n
<1>1. IsFiniteSet(A) /\ Cardinality(A) = 1
  BY FS_Singleton
<1>2. IsFiniteSet(B) /\ Cardinality(B) = n
  BY SMTT(40), FS_Interval
<1> HIDE DEF A, B
<1>3. IsFiniteSet(A \X B) /\ Cardinality(A \X B) = Cardinality(A) * Cardinality(B)
  BY <1>1, <1>2, FS_Product
<1>4. IsFiniteSet(A \X B) /\ Cardinality(A \X B) = n
  BY SMTT(40), <1>1, <1>2, <1>3
<1> QED
  BY <1>4 DEF A, B

\* The groups on a device are as many as the Instances.
LEMMA GroupsPerDevice ==
    ASSUME NEW d \in Devices
    PROVE  /\ IsFiniteSet(GroupsOn(d))
           /\ Cardinality(GroupsOn(d)) = Cardinality(Instances)
<1>1. IsFiniteSet(GroupsOn(d))
  BY TopologyAssumption, FS_Subset DEF GroupsOn
<1> DEFINE f == [g \in GroupsOn(d) |-> InstanceOf[g]]
<1>2. f \in Bijection(GroupsOn(d), Instances)
  BY ZenonT(40), TopologyAssumption DEF Bijection, Injection, Surjection, IsInjective, GroupsOn
<1> QED
  BY <1>1, <1>2, FS_Bijection DEF ExistsBijection

\* The bytes of a device are finitely many.
LEMMA BytesFinite ==
    ASSUME NEW d \in Devices, NEW f \in Ledger
    PROVE  IsFiniteSet(Bytes(f, d)) /\ Sum(f, d) \in Nat
<1> DEFINE T(g) == {g} \X (1 .. f[<<g, d>>])
           C == {T(g) : g \in GroupsOn(d)}
           h == [g \in GroupsOn(d) |-> T(g)]
<1>1. h \in Surjection(GroupsOn(d), C)
  BY DEF Surjection
<1>2. IsFiniteSet(C)
  BY <1>1, GroupsPerDevice, FS_Surjection
<1>3. ASSUME NEW g \in GroupsOn(d) PROVE IsFiniteSet(T(g))
  <2>1. f[<<g, d>>] \in Nat
    BY PartitionOf DEF Ledger
  <2> QED
    BY <2>1, GroupBytes
<1>4. \A t \in C : IsFiniteSet(t)
  BY <1>3
<1>5. IsFiniteSet(UNION C)
  BY <1>2, <1>4, FS_UNION
<1> QED
  BY <1>5, FS_CardinalityType DEF Bytes, Sum

\* A ledger that is smaller everywhere on a device has a smaller total there.
LEMMA SumMonotone ==
    ASSUME NEW d \in Devices, NEW f \in Ledger, NEW h \in Ledger,
           \A g \in GroupsOn(d) : f[<<g, d>>] <= h[<<g, d>>]
    PROVE  Sum(f, d) <= Sum(h, d)
<1>1. \A g \in GroupsOn(d) : f[<<g, d>>] \in Nat /\ h[<<g, d>>] \in Nat
  BY PartitionOf DEF Ledger
<1>2. \A g \in GroupsOn(d) : 1 .. f[<<g, d>>] \subseteq 1 .. h[<<g, d>>]
  BY SMTT(40), <1>1
<1>3. ASSUME NEW y \in Bytes(f, d) PROVE y \in Bytes(h, d)
  <2>1. PICK g \in GroupsOn(d) : y \in {g} \X (1 .. f[<<g, d>>])
    BY <1>3, BytesMember
  <2>2. y \in {g} \X (1 .. h[<<g, d>>])
    BY <1>2, <2>1
  <2> QED
    BY <2>2, BytesMember
<1> QED
  BY <1>3, BytesFinite, FS_Subset DEF Sum

\* Ledgers that agree on a device have the same total there.
LEMMA SumSame ==
    ASSUME NEW d \in Devices, NEW f, NEW h,
           \A g \in GroupsOn(d) : f[<<g, d>>] = h[<<g, d>>]
    PROVE  Sum(f, d) = Sum(h, d)
BY DEF Sum, Bytes

\* Changing the entry of one group changes the total by the difference.
LEMMA SumUpdate ==
    ASSUME NEW d \in Devices, NEW f \in Ledger, NEW h \in Ledger,
           NEW g \in GroupsOn(d),
           \A x \in GroupsOn(d) \ {g} : f[<<x, d>>] = h[<<x, d>>]
    PROVE  Sum(h, d) = Sum(f, d) - f[<<g, d>>] + h[<<g, d>>]
<1> DEFINE others == {x \in Bytes(f, d) : x[1] # g}
           own(n) == {g} \X (1 .. n)
<1>1. f[<<g, d>>] \in Nat /\ h[<<g, d>>] \in Nat
  BY PartitionOf DEF Ledger
<1>2. IsFiniteSet(others) /\ Cardinality(others) \in Nat
  BY BytesFinite, FS_Subset, FS_CardinalityType
<1>3. \A n : \A y : y \in own(n) <=> y \in {g} \X (1 .. n)
  OBVIOUS
<1>4. Bytes(f, d) = others \cup own(f[<<g, d>>])
  <2>1. ASSUME NEW y \in Bytes(f, d) PROVE y \in others \cup own(f[<<g, d>>])
    <3>1. PICK x \in GroupsOn(d) : y \in {x} \X (1 .. f[<<x, d>>])
      BY <2>1, BytesMember
    <3>2. CASE x = g
      BY <3>1, <3>2, <1>3
    <3>3. CASE x # g
      BY <2>1, <3>1, <3>3
    <3> QED
      BY <3>2, <3>3
  <2>2. ASSUME NEW y \in own(f[<<g, d>>]) PROVE y \in Bytes(f, d)
    BY <2>2, <1>3, BytesMember
  <2> QED
    BY <2>1, <2>2
<1>5. Bytes(h, d) = others \cup own(h[<<g, d>>])
  <2>1. ASSUME NEW y \in Bytes(h, d) PROVE y \in others \cup own(h[<<g, d>>])
    <3>1. PICK x \in GroupsOn(d) : y \in {x} \X (1 .. h[<<x, d>>])
      BY <2>1, BytesMember
    <3>2. CASE x = g
      BY <3>1, <3>2, <1>3
    <3>3. CASE x # g
      <4>1. y \in {x} \X (1 .. f[<<x, d>>])
        BY <3>1, <3>3
      <4>2. y \in Bytes(f, d)
        BY <4>1, BytesMember
      <4> QED
        BY <4>1, <4>2, <3>3
    <3> QED
      BY <3>2, <3>3
  <2>2. ASSUME NEW y \in own(h[<<g, d>>]) PROVE y \in Bytes(h, d)
    BY <2>2, <1>3, BytesMember
  <2>3. ASSUME NEW y \in others PROVE y \in Bytes(h, d)
    <3>1. PICK x \in GroupsOn(d) : y \in {x} \X (1 .. f[<<x, d>>])
      BY <2>3, BytesMember
    <3>2. x # g
      BY <2>3, <3>1
    <3>3. y \in {x} \X (1 .. h[<<x, d>>])
      BY <3>1, <3>2
    <3> QED
      BY <3>3, BytesMember
  <2> QED
    BY <2>1, <2>2, <2>3
<1>6. ASSUME NEW n \in Nat
      PROVE  /\ Cardinality(others \cup own(n)) = Cardinality(others) + n
  <2>1. IsFiniteSet(own(n)) /\ Cardinality(own(n)) = n
    BY GroupBytes
  <2>2. others \cap own(n) = {}
    BY <1>3
  <2> HIDE DEF others, own
  <2>3. Cardinality(others \cup own(n))
           = Cardinality(others) + Cardinality(own(n)) - Cardinality(others \cap own(n))
    BY <1>2, <2>1, FS_Union
  <2>4. Cardinality(others \cap own(n)) = 0
    BY <2>2, FS_EmptySet
  <2> QED
    BY SMTT(40), <2>1, <2>3, <2>4, <1>2
<1> HIDE DEF others, own
<1>7. Sum(f, d) = Cardinality(others) + f[<<g, d>>]
  BY <1>1, <1>4, <1>6 DEF Sum
<1>8. Sum(h, d) = Cardinality(others) + h[<<g, d>>]
  BY <1>1, <1>5, <1>6 DEF Sum
<1> QED
  BY SMTT(40), <1>1, <1>2, <1>7, <1>8

\* Giving every group x more bytes on a device adds x once per Instance.
LEMMA SumShare ==
    ASSUME NEW d \in Devices, NEW f \in Ledger, NEW h \in Ledger, NEW x \in Nat,
           \A g \in GroupsOn(d) : h[<<g, d>>] = f[<<g, d>>] + x
    PROVE  Sum(h, d) = Sum(f, d) + Cardinality(Instances) * x
<1> DEFINE G == GroupsOn(d)
           I == 1 .. x
           shift == [y \in G \X I |-> <<y[1], f[<<y[1], d>>] + y[2]>>]
           more == {shift[y] : y \in G \X I}
<1>1. \A g \in G : f[<<g, d>>] \in Nat /\ h[<<g, d>>] = f[<<g, d>>] + x
  BY PartitionOf DEF Ledger
<1>2. /\ IsFiniteSet(G) /\ Cardinality(G) = Cardinality(Instances)
      /\ IsFiniteSet(I) /\ Cardinality(I) = x
  BY SMTT(40), GroupsPerDevice, FS_Interval
<1>3. shift \in Bijection(G \X I, more)
  <2>1. ASSUME NEW y \in G \X I, NEW z \in G \X I, shift[y] = shift[z]
        PROVE  y = z
    BY SMTT(40), <2>1, <1>1
  <2>2. shift \in Surjection(G \X I, more)
    BY DEF Surjection
  <2> QED
    BY <2>1, <2>2 DEF Bijection, Injection, IsInjective, Surjection
<1>4. Bytes(h, d) = Bytes(f, d) \cup more
  <2>1. ASSUME NEW y \in Bytes(h, d) PROVE y \in Bytes(f, d) \cup more
    <3>1. PICK g \in G : y \in {g} \X (1 .. h[<<g, d>>])
      BY <2>1, BytesMember
    <3>2. CASE y[2] <= f[<<g, d>>]
      <4>1. y \in {g} \X (1 .. f[<<g, d>>])
        BY SMTT(40), <1>1, <3>1, <3>2
      <4> QED
        BY <4>1, BytesMember
    <3>3. CASE y[2] > f[<<g, d>>]
      <4>1. <<g, y[2] - f[<<g, d>>]>> \in G \X I
        BY SMTT(40), <1>1, <3>1, <3>3
      <4>2. shift[<<g, y[2] - f[<<g, d>>]>>] = y
        BY SMTT(40), <1>1, <3>1, <4>1
      <4> QED
        BY <4>1, <4>2
    <3> QED
      BY SMTT(40), <1>1, <3>1, <3>2, <3>3
  <2>2. ASSUME NEW y \in Bytes(f, d) PROVE y \in Bytes(h, d)
    <3>1. PICK g \in G : y \in {g} \X (1 .. f[<<g, d>>])
      BY <2>2, BytesMember
    <3>2. y \in {g} \X (1 .. h[<<g, d>>])
      BY SMTT(40), <1>1, <3>1
    <3> QED
      BY <3>2, BytesMember
  <2>3. ASSUME NEW y \in G \X I PROVE shift[y] \in Bytes(h, d)
    <3>1. y[1] \in G /\ shift[y] \in {y[1]} \X (1 .. h[<<y[1], d>>])
      BY SMTT(40), <1>1, <2>3
    <3> HIDE DEF shift
    <3> QED
      BY <3>1, BytesMember
  <2> QED
    BY <2>1, <2>2, <2>3
<1>5. Bytes(f, d) \cap more = {}
  <2> SUFFICES ASSUME NEW z \in G \X I, shift[z] \in Bytes(f, d) PROVE FALSE
    BY ZenonT(40)
  <2>1. PICK g \in G : shift[z] \in {g} \X (1 .. f[<<g, d>>])
    BY BytesMember
  <2> QED
    BY SMTT(40), <2>1, <1>1
<1>6. IsFiniteSet(Bytes(f, d)) /\ Sum(f, d) \in Nat
  BY BytesFinite
<1> HIDE DEF G, I, shift, more
<1>7. IsFiniteSet(G \X I) /\ Cardinality(G \X I) = Cardinality(Instances) * x
  BY SMTT(40), <1>2, FS_Product
<1>8. IsFiniteSet(more) /\ Cardinality(more) = Cardinality(Instances) * x
  BY <1>3, <1>7, FS_Bijection DEF ExistsBijection
<1>9. Cardinality(Bytes(f, d) \cup more)
         = Cardinality(Bytes(f, d)) + Cardinality(more)
           - Cardinality(Bytes(f, d) \cap more)
  BY <1>6, <1>8, FS_Union
<1>10. Cardinality(Bytes(f, d) \cap more) = 0
  BY <1>5, FS_EmptySet
<1>11. Cardinality(more) \in Nat
  BY <1>8, FS_CardinalityType
<1> QED
  BY SMTT(40), <1>4, <1>6, <1>8, <1>9, <1>10, <1>11 DEF Sum

-----------------------------------------------------------------------------
(* Arithmetic and types. *)

\* An equal share, taken once per Instance, does not exceed what is shared.
LEMMA ShareBound ==
    ASSUME NEW x \in Nat, NEW n \in Nat, n > 0
    PROVE  x \div n \in Nat /\ n * (x \div n) <= x /\ x \div n <= x
<1>1. x \div n \in Int /\ n * (x \div n) <= x /\ x < n * (x \div n) + n
  BY SMT
<1>2. x \div n >= 0
  BY SMTT(40), <1>1
<1>3. x \div n <= n * (x \div n)
  BY SMTT(40), <1>1, <1>2
<1> QED
  BY SMTT(40), <1>1, <1>2, <1>3

\* The number of Instances divides the startup share.
LEMMA InstanceCount == Cardinality(Instances) \in Nat /\ Cardinality(Instances) > 0
BY SMTT(40), TopologyAssumption, FS_CardinalityType, FS_EmptySet

\* Totals of the constant ledgers and the reserve are numbers.
LEMMA ConstantTotals ==
    ASSUME NEW d \in Devices
    PROVE  /\ Floor \in Ledger /\ Headroom \in Ledger
           /\ Sum(Floor, d) \in Nat /\ Sum(Headroom, d) \in Nat
           /\ DeviceTotal[d] \in Nat /\ DeviceOther[d] \in Nat /\ Reserve(d) \in Int
<1>1. Floor \in Ledger /\ Headroom \in Ledger
  BY SizeAssumption DEF Ledger
<1>2. Sum(Floor, d) \in Nat /\ Sum(Headroom, d) \in Nat
  BY <1>1, BytesFinite
<1>3. DeviceTotal[d] \in Nat /\ DeviceOther[d] \in Nat /\ Utilization \in Nat
  BY SMTT(40), SizeAssumption
<1>4. (DeviceTotal[d] * Utilization) \div 100 \in Int
  BY SMTT(40), <1>3
<1> QED
  BY SMTT(40), <1>1, <1>2, <1>3, <1>4 DEF Reserve, Larger

\* The larger of two numbers is a number.
LEMMA LargerType ==
    ASSUME NEW a \in Nat, NEW b \in Nat
    PROVE  Larger(a, b) \in Nat /\ Larger(a, b) >= a /\ Larger(a, b) >= b
BY SMTT(40) DEF Larger

-----------------------------------------------------------------------------
(* What Inv says about one rank. *)

\* A group's ranks are partitions of the group.
LEMMA RankParts ==
    ASSUME NEW g \in Groups, NEW p \in Ranks(g)
    PROVE  p \in Partitions /\ p[1] = g /\ p[2] \in DevicesOf[g] /\ p = <<g, p[2]>>
BY SMTT(40), GroupParts DEF Ranks

\* Every group has a rank.
LEMMA SomeRank ==
    ASSUME NEW g \in Groups
    PROVE  \E p \in Ranks(g) : p \in Partitions /\ p[1] = g
<1>1. PICK d \in DevicesOf[g] : TRUE
  BY SMTT(40), TopologyAssumption
<1> QED
  BY <1>1, GroupParts

\* The larger of two ordered numbers is the second.
LEMMA LargerIs ==
    ASSUME NEW a \in Nat, NEW b \in Nat, a <= b
    PROVE  Larger(a, b) = b
BY SMTT(40) DEF Larger

\* The sequence numbers of a rank lie between those of the daemon.
LEMMA RankTypes ==
    ASSUME TypeOK, NEW p \in Partitions
    PROVE  /\ charged[p] \in Nat /\ limit[p] \in Nat /\ retiring[p] \in Nat
           /\ accepted[p].sequence \in Nat /\ accepted[p].quota_bytes[p[2]] \in Nat
           /\ completed[p] \in Nat /\ completion[p].sequence \in Nat
           /\ completion[p].backed_bytes \in Nat
           /\ command[p[1]].sequence \in Nat
           /\ command[p[1]].quota_bytes[p[2]] \in Nat
           /\ active_quotas[p[1]][p[2]] \in Nat /\ Floor[p] \in Nat
           /\ applied_sequences[p[1]] \in Nat
           /\ demand[p[1]].sequence \in Nat /\ demand[p[1]].required[p[2]] \in Nat
<1>1. p[1] \in Groups /\ p[2] \in DevicesOf[p[1]]
  BY PartitionParts
<1>2. /\ accepted[p] \in Command(p[1]) /\ command[p[1]] \in Command(p[1])
      /\ completion[p] \in [sequence : Nat, backed_bytes : Nat]
      /\ demand[p[1]] \in Demand(p[1]) /\ active_quotas[p[1]] \in Vector(p[1])
  BY <1>1 DEF TypeOK, RankType, ChannelType, PolicyType, FundType
<1>3. /\ charged[p] \in Nat /\ limit[p] \in Nat /\ retiring[p] \in Nat
      /\ completed[p] \in Nat /\ Floor[p] \in Nat
      /\ applied_sequences[p[1]] \in Nat
  BY <1>1, SizeAssumption DEF TypeOK, RankType, ChannelType, PolicyType, FundType
<1> QED
  BY <1>1, <1>2, <1>3 DEF Command, Demand, Vector

\* The permission of the daemon is a ledger.
LEMMA PermissionLedger ==
    ASSUME TypeOK
    PROVE  permission \in Ledger
<1>1. ASSUME NEW p \in Partitions
      PROVE  /\ active_quotas[p[1]][p[2]] \in Nat
             /\ command[p[1]].quota_bytes[p[2]] \in Nat
  BY RankTypes
<1>2. \A p \in Partitions : permission[p] \in Nat
  BY <1>1, LargerType DEF permission
<1>3. permission = [p \in Partitions |-> permission[p]]
  BY DEF permission
<1> QED
  BY <1>2, <1>3 DEF Ledger

\* The same after a step.
LEMMA PermissionLedgerNext ==
    ASSUME TypeOK'
    PROVE  permission' \in Ledger
<1>1. ASSUME NEW p \in Partitions
      PROVE  /\ active_quotas'[p[1]][p[2]] \in Nat
             /\ command'[p[1]].quota_bytes[p[2]] \in Nat
  <2>1. p[1] \in Groups /\ p[2] \in DevicesOf[p[1]]
    BY PartitionParts
  <2>2. active_quotas'[p[1]] \in Vector(p[1]) /\ command'[p[1]] \in Command(p[1])
    BY <2>1 DEF TypeOK, RankType, ChannelType, PolicyType, FundType
  <2> QED
    BY <2>1, <2>2 DEF Command, Vector
<1>2. \A p \in Partitions : permission'[p] \in Nat
  BY <1>1, LargerType DEF permission
<1>3. permission' = [p \in Partitions |-> permission'[p]]
  BY DEF permission
<1> QED
  BY <1>2, <1>3 DEF Ledger

\* Before the pools are frozen no command exists.
LEMMA Unfrozen ==
    ASSUME TypeOK, SequenceInv, ~frozen, NEW p \in Partitions
    PROVE  /\ command[p[1]].sequence = 0 /\ applied_sequences[p[1]] = 0
           /\ p[1] \notin operations /\ completed[p] = 0 /\ accepted[p].sequence = 0
           /\ demand[p[1]].sequence = 0 \/ ~DemandInv
<1>1. p[1] \in Groups /\ p \in Ranks(p[1])
  BY PartitionParts DEF Ranks
<1> QED
  BY SMTT(40), <1>1, RankTypes DEF SequenceInv, DemandInv

\* A pending rank holds the one unfinished command of its group.
LEMMA PendingRank ==
    ASSUME TypeOK, SequenceInv, NEW p \in Partitions, pending(p)
    PROVE  /\ accepted[p].sequence = command[p[1]].sequence
           /\ accepted[p].quota_bytes = command[p[1]].quota_bytes
           /\ completed[p] = applied_sequences[p[1]] /\ p[1] \in operations
           /\ command[p[1]].sequence = applied_sequences[p[1]] + 1 /\ frozen
<1>1. p[1] \in Groups
  BY PartitionParts
<1> QED
  BY SMTT(40), <1>1, RankTypes DEF SequenceInv, pending

-----------------------------------------------------------------------------
(* Each part of Inv survives a step that leaves its variables alone. *)

\* A part of the type invariant survives a step that leaves its variables alone.
LEMMA FrameTypes ==
    /\ RankType /\ UNCHANGED rankVars => RankType'
    /\ ChannelType /\ UNCHANGED channelVars => ChannelType'
    /\ PolicyType /\ UNCHANGED <<step, poolVars, grantVars>> => PolicyType'
    /\ FundType /\ UNCHANGED fundVars => FundType'
<1>1. RankType /\ UNCHANGED rankVars => RankType'
  BY DEF RankType, rankVars
<1>2. ChannelType /\ UNCHANGED channelVars => ChannelType'
  BY DEF ChannelType, channelVars, startVars
<1>3. PolicyType /\ UNCHANGED <<step, poolVars, grantVars>> => PolicyType'
  BY DEF PolicyType, poolVars, grantVars
<1>4. FundType /\ UNCHANGED fundVars => FundType'
  BY DEF FundType, fundVars
<1> QED
  BY <1>1, <1>2, <1>3, <1>4

\* A step that leaves the sequence numbers alone keeps SequenceInv.
LEMMA FrameSequence ==
    ASSUME SequenceInv, frozen' <=> frozen,
           UNCHANGED <<command, applied_sequences, operations, completed,
                       accepted, completion>>
    PROVE  SequenceInv'
BY DEF SequenceInv

\* A step that leaves charges and limits alone keeps LedgerInv.
LEMMA FrameLedger ==
    ASSUME LedgerInv, frozen' <=> frozen,
           UNCHANGED <<charged, limit, retiring, completed, applied_sequences,
                       active_quotas, command, initial_backing, operations,
                       completion>>
    PROVE  LedgerInv'
BY DEF LedgerInv, RankLedger, CurrentQuota

\* A step that leaves ballots alone keeps BallotInv.
LEMMA FrameBallot ==
    ASSUME BallotInv,
           UNCHANGED <<ballot, charged, completed, accepted, command>>
    PROVE  BallotInv'
BY DEF BallotInv, pending

\* A step that leaves budget and permission alone keeps BudgetInv.
LEMMA FrameBudget ==
    ASSUME BudgetInv, frozen' <=> frozen,
           UNCHANGED <<device_free, initial_backing, pool_capacity_bytes,
                       applied_sequences, permission>>
    PROVE  BudgetInv'
BY DEF BudgetInv, Observed, Extra

\* A step that leaves the quota vectors alone keeps QuotaInv.
LEMMA FrameQuota ==
    ASSUME QuotaInv, frozen' <=> frozen,
           UNCHANGED <<applied_sequences, active_quotas, service_ceilings,
                       pool_capacity_bytes, operations, command>>
    PROVE  QuotaInv'
BY DEF QuotaInv

\* A step that leaves published demands alone keeps DemandInv.
LEMMA FrameDemand ==
    ASSUME DemandInv,
           UNCHANGED <<demand, completed, applied_sequences, active_quotas,
                       command, limit>>
    PROVE  DemandInv'
BY DEF DemandInv

\* A step that leaves operations and the funding attempt alone keeps OnlyDonorShrinks.
LEMMA FrameDonor ==
    ASSUME OnlyDonorShrinks,
           UNCHANGED <<operations, command, active_quotas, funding_attempt>>
    PROVE  OnlyDonorShrinks'
BY DEF OnlyDonorShrinks

\* Permission depends on the active quotas and the operations only.
LEMMA FramePermission ==
    ASSUME UNCHANGED <<operations, command, active_quotas>>
    PROVE  permission' = permission
BY DEF permission

\* A rank's step leaves the daemon's view alone.
LEMMA RankFrame ==
    ASSUME Inv, UNCHANGED <<step, command, demand, completed, accepted,
                            completion, initial_backing, device_free, limit,
                            poolVars, grantVars, fundVars, failed>>
    PROVE  /\ frozen' <=> frozen
           /\ NoCheckFails' /\ SequenceInv' /\ BudgetInv' /\ QuotaInv'
           /\ DemandInv' /\ OnlyDonorShrinks'
<1>1. /\ UNCHANGED <<applied_sequences, operations, active_quotas, command,
                     pool_capacity_bytes, service_ceilings, funding_attempt>>
      /\ frozen' <=> frozen
  BY DEF poolVars, grantVars, fundVars, frozen
<1>2. UNCHANGED permission
  BY <1>1, FramePermission
<1> QED
  BY <1>1, <1>2, FrameSequence, FrameBudget, FrameQuota, FrameDemand, FrameDonor
  DEF Inv, NoCheckFails

\* The service ceiling leaves every group at least its floor.
LEMMA CeilingBounds ==
    ASSUME NEW g \in Groups, NEW d \in DevicesOf[g], NEW capacity,
           capacity[d] \in Int, Sum(Floor, d) <= capacity[d]
    PROVE  /\ service_ceiling(g, capacity)[d] \in Int
           /\ Floor[<<g, d>>] <= service_ceiling(g, capacity)[d]
           /\ \A x \in Nat : x <= capacity[d] - Sum(Floor, d) =>
                 Smaller(Reservation[<<g, d>>], Floor[<<g, d>>] + x)
                    <= service_ceiling(g, capacity)[d]
<1>1. <<g, d>> \in Partitions /\ d \in Devices
  BY GroupParts
<1>2. /\ Floor[<<g, d>>] \in Nat /\ Reservation[<<g, d>>] \in Nat
      /\ Floor[<<g, d>>] <= Reservation[<<g, d>>] /\ Sum(Floor, d) \in Nat
  BY <1>1, SizeAssumption, ConstantTotals
<1>3. service_ceiling(g, capacity)[d] =
         Smaller(Reservation[<<g, d>>],
                 capacity[d] - (Sum(Floor, d) - Floor[<<g, d>>]))
  BY DEF service_ceiling
<1> QED
  BY SMTT(40), <1>2, <1>3 DEF Smaller

-----------------------------------------------------------------------------
(***************************************************************************)
(* Publishing commands keeps the invariant: startup grants, donations and  *)
(* the operations of a funding attempt.                                    *)
(***************************************************************************)

USE DEF rankVars, poolVars, grantVars, fundVars, startVars, channelVars, daemonVars

\* What a publication leaves alone.
PublicationFrame ==
    UNCHANGED <<rankVars, startVars, completion, demand, poolVars,
                applied_sequences, completed_grant_orders, next_grant_order, now>>

\* A quota between a group's floors and its service ceilings.
Lawful(g, quota) ==
    /\ quota \in Vector(g)
    /\ \A d \in DevicesOf[g] : /\ Floor[<<g, d>>] <= quota[d]
                               /\ quota[d] <= service_ceilings[g][d]

\* Two facts of the byte counts that the quota comparisons need.
LEMMA NotBelow ==
    /\ \A i, j \in Nat : i <= j => ~(j < i)
    /\ \A i, j \in Nat : i - i <= j
  BY SMT

\* Publishing a lawful quota for an idle group raises nothing.
LEMMA Publish ==
    ASSUME Inv, frozen, frozen', NEW g \in Groups, NEW quota, Lawful(g, quota),
           g \notin operations, publish_operation(g, quota), PublicationFrame
    PROVE  /\ command' = [command EXCEPT ![g] =
                 [sequence |-> applied_sequences[g] + 1, quota_bytes |-> quota]]
           /\ operations' = operations \cup {g} /\ failed' = failed
           /\ DOMAIN command' = Groups
           /\ \A x \in Groups : command'[x] \in Command(x)
           /\ SequenceInv' /\ LedgerInv' /\ BallotInv' /\ QuotaInv' /\ DemandInv'
<1>ty. TypeOK
  BY DEF Inv
<1>rt. RankType
  BY DEF Inv, TypeOK
<1>ct. ChannelType
  BY DEF Inv, TypeOK
<1>pt. PolicyType
  BY DEF Inv, TypeOK
<1>sq. SequenceInv
  BY DEF Inv
<1>le. LedgerInv
  BY DEF Inv
<1>ba. BallotInv
  BY DEF Inv
<1>qu. QuotaInv
  BY DEF Inv
<1>de. DemandInv
  BY DEF Inv
<1>1. /\ command[g].sequence = applied_sequences[g]
      /\ applied_sequences[g] \in Nat /\ applied_sequences[g] + 1 \in Nat
  BY SMTT(40), <1>ct, <1>pt, <1>sq DEF SequenceInv, ChannelType, PolicyType
<1>2. ASSUME NEW p \in Ranks(g)
      PROVE  /\ p \in Partitions /\ p[1] = g /\ p[2] \in DevicesOf[g]
             /\ completed[p] = applied_sequences[g]
             /\ completion[p].sequence = applied_sequences[g]
             /\ accepted[p].sequence = applied_sequences[g]
             /\ ~pending(p) /\ ballot[p] = "none"
  <2>1. p \in Partitions /\ p[1] = g /\ p[2] \in DevicesOf[g]
    BY RankParts
  <2>2. /\ completed[p] = applied_sequences[g] /\ completion[p].sequence = applied_sequences[g]
        /\ accepted[p].sequence = applied_sequences[g]
    <3>1. /\ completed[p] \in Nat /\ accepted[p].sequence \in Nat
          /\ applied_sequences[g] \in Nat /\ completion[p].sequence \in Nat
      BY <1>ty, <2>1, RankTypes
    <3>2. /\ applied_sequences[g] <= completed[p]
          /\ completed[p] <= accepted[p].sequence
          /\ accepted[p].sequence <= command[g].sequence
          /\ completion[p].sequence = completed[p]
      BY <1>sq, <2>1 DEF SequenceInv
    <3> QED
      BY SMTT(40), <1>1, <3>1, <3>2
  <2>3. ~pending(p)
    BY SMTT(40), <1>1, <2>2 DEF pending
  <2> QED
    BY <1>ba, <2>1, <2>2, <2>3 DEF BallotInv
<1>3. /\ command' = [command EXCEPT ![g] =
            [sequence |-> applied_sequences[g] + 1, quota_bytes |-> quota]]
      /\ operations' = operations \cup {g} /\ failed' = failed
  BY <1>1, <1>2 DEF publish_operation
<1>4. /\ command'[g].sequence = applied_sequences[g] + 1
      /\ command'[g].quota_bytes = quota
      /\ \A x \in Groups \ {g} : command'[x] = command[x]
      /\ DOMAIN command' = Groups
  BY <1>ct, <1>pt, <1>3 DEF ChannelType, PolicyType
<1>5. \A x \in Groups : command'[x] \in Command(x)
  BY <1>ct, <1>pt, <1>1, <1>3 DEF ChannelType, PolicyType, Command, Lawful
<1>6. UNCHANGED <<completed, accepted, completion, applied_sequences, ballot,
                  charged, limit, retiring, initial_backing, active_quotas,
                  service_ceilings, pool_capacity_bytes, demand>>
  BY DEF PublicationFrame
<1>7. \A p \in Partitions : p[1] \in Groups /\ (p[1] = g => p \in Ranks(g))
  BY PartitionParts DEF Ranks
<1>8. SequenceInv'
  BY SMTT(40), <1>sq, <1>1, <1>2, <1>3, <1>4, <1>6, <1>7 DEF SequenceInv
<1>9. LedgerInv'
  <2> SUFFICES ASSUME NEW p \in Partitions PROVE RankLedger(p)'
    BY <1>le DEF LedgerInv
  <2>1. RankLedger(p)
    BY <1>le DEF LedgerInv
  <2>2. CASE p[1] = g
    BY SMTT(40), <2>1, <2>2, <1>1, <1>2, <1>4, <1>6, <1>7 DEF RankLedger, CurrentQuota
  <2>3. CASE p[1] # g
    BY <2>1, <2>3, <1>3, <1>4, <1>6, <1>7 DEF RankLedger, CurrentQuota
  <2> QED
    BY <2>2, <2>3
<1>10. BallotInv'
  <2> SUFFICES ASSUME NEW p \in Partitions
               PROVE  /\ ballot[p] # "none" => pending(p)'
                      /\ ballot[p] = "adopt" => \A q \in Ranks(p[1]) :
                            ballot[q] = "adopt" \/ completed[q] = command'[p[1]].sequence
    BY <1>ba, <1>6 DEF BallotInv
  <2>1. CASE p[1] = g
    BY <1>2, <1>7, <2>1
  <2>2. CASE p[1] # g
    <3>1. command'[p[1]] = command[p[1]]
      BY <1>4, <1>7, <2>2
    <3> QED
      BY <1>ba, <1>6, <3>1 DEF BallotInv, pending
  <2> QED
    BY <2>1, <2>2
<1>11. QuotaInv'
  BY SMTT(40), <1>qu, <1>3, <1>4, <1>6 DEF QuotaInv, Lawful
<1>12. DemandInv'
  <2>1. demand[g].sequence <= applied_sequences[g] /\ demand[g].sequence \in Nat
    BY <1>rt, <1>ct, <1>pt, <1>de, <1>2, SomeRank DEF DemandInv, RankType,
       ChannelType, PolicyType, Demand
  <2>2. demand[g].sequence # applied_sequences[g] + 1
    BY SMTT(40), <1>1, <2>1
  <2> QED
    BY SMTT(40), <1>de, <2>2, <1>4, <1>6 DEF DemandInv
<1> QED
  BY <1>3, <1>4, <1>5, <1>8, <1>9, <1>10, <1>11, <1>12

\* The permission of a group that a publication concerns is the larger vector.
LEMMA PublishPermission ==
    ASSUME Inv, NEW g \in Groups, NEW quota, g \notin operations,
           command' = [command EXCEPT ![g] =
                 [sequence |-> applied_sequences[g] + 1, quota_bytes |-> quota]],
           operations' = operations \cup {g}, active_quotas' = active_quotas
    PROVE  /\ \A d \in DevicesOf[g] :
                 /\ permission[<<g, d>>] = active_quotas[g][d]
                 /\ permission'[<<g, d>>] = Larger(active_quotas[g][d], quota[d])
           /\ \A p \in Partitions : p[1] # g => permission'[p] = permission[p]
<1>ct. ChannelType
  BY DEF Inv, TypeOK
<1>pt. PolicyType
  BY DEF Inv, TypeOK
<1>1. \A d \in DevicesOf[g] : <<g, d>> \in Partitions
  BY GroupParts
<1>2. \A p \in Partitions : p[1] \in Groups
  BY PartitionParts
<1> QED
  BY <1>ct, <1>pt, <1>1, <1>2 DEF permission, ChannelType, PolicyType

\* A publication whose growth fits the free bytes keeps the budget.
LEMMA PublishBudget ==
    ASSUME Inv, frozen, frozen', NEW g \in Groups, NEW quota, quota \in Vector(g),
           g \notin operations, TypeOK',
           command' = [command EXCEPT ![g] =
                 [sequence |-> applied_sequences[g] + 1, quota_bytes |-> quota]],
           operations' = operations \cup {g}, PublicationFrame,
           \A x \in Groups : applied_sequences[x] # 0,
           \A d \in DevicesOf[g] :
              Larger(active_quotas[g][d], quota[d]) - active_quotas[g][d]
                 <= pool_free_bytes(d)
    PROVE  BudgetInv'
<1>ty. TypeOK
  BY DEF Inv
<1>pt. PolicyType
  BY DEF Inv, TypeOK
<1>bu. BudgetInv
  BY DEF Inv
<1>1. UNCHANGED <<device_free, initial_backing, pool_capacity_bytes,
                  applied_sequences, active_quotas>>
  BY DEF PublicationFrame
<1>2. permission \in Ledger /\ permission' \in Ledger
  BY <1>ty, PermissionLedger, PermissionLedgerNext
<1>3. /\ \A d \in DevicesOf[g] :
            /\ permission[<<g, d>>] = active_quotas[g][d]
            /\ permission'[<<g, d>>] = Larger(active_quotas[g][d], quota[d])
      /\ \A p \in Partitions : p[1] # g => permission'[p] = permission[p]
  BY <1>1, PublishPermission
<1>4. ASSUME NEW d \in Devices
      PROVE  Sum(permission', d) <= pool_capacity_bytes[d]
  <2>1. /\ Sum(permission, d) \in Nat /\ Sum(permission', d) \in Nat
        /\ pool_capacity_bytes[d] \in Int
        /\ Sum(permission, d) <= pool_capacity_bytes[d]
    BY ZenonT(40), <1>pt, <1>bu, <1>2, BytesFinite DEF BudgetInv, PolicyType
  <2>2. CASE g \in GroupsOn(d)
    <3>1. d \in DevicesOf[g] /\ <<g, d>> \in Partitions
      BY <2>2, PartitionOf DEF GroupsOn
    <3>2. \A x \in GroupsOn(d) \ {g} : permission[<<x, d>>] = permission'[<<x, d>>]
      BY <1>3, PartitionOf
    <3>3. Sum(permission', d) =
             Sum(permission, d) - permission[<<g, d>>] + permission'[<<g, d>>]
      BY <1>2, <2>2, <3>2, SumUpdate
    <3>4. permission[<<g, d>>] \in Nat /\ permission'[<<g, d>>] \in Nat
      BY <1>2, <3>1 DEF Ledger
    <3>5. permission'[<<g, d>>] - permission[<<g, d>>]
             <= pool_capacity_bytes[d] - Sum(permission, d)
      BY <1>3, <3>1 DEF pool_free_bytes
    <3> QED
      BY SMTT(40), <2>1, <3>3, <3>4, <3>5
  <2>3. CASE g \notin GroupsOn(d)
    <3>1. \A x \in GroupsOn(d) : permission[<<x, d>>] = permission'[<<x, d>>]
      BY <1>3, <2>3, PartitionOf
    <3>2. Sum(permission', d) = Sum(permission, d)
      BY <3>1, SumSame
    <3> QED
      BY <2>1, <3>2
  <2> QED
    BY <2>2, <2>3
<1> QED
  BY <1>bu, <1>1, <1>4 DEF BudgetInv, Observed

\* While some group awaits its startup grant, equal shares fit the budget.
LEMMA StartupBudget ==
    ASSUME Inv, frozen, frozen', NEW g \in Groups, g \notin operations, TypeOK',
           command' = [command EXCEPT ![g] =
                 [sequence |-> applied_sequences[g] + 1,
                  quota_bytes |-> initial_target(g)]],
           operations' = operations \cup {g}, PublicationFrame,
           \E x \in Groups : applied_sequences[x] = 0
    PROVE  BudgetInv'
<1>ty. TypeOK
  BY DEF Inv
<1>pt. PolicyType
  BY DEF Inv, TypeOK
<1>bu. BudgetInv
  BY DEF Inv
<1>1. UNCHANGED <<device_free, initial_backing, pool_capacity_bytes,
                  applied_sequences, active_quotas>>
  BY DEF PublicationFrame
<1>2. permission \in Ledger /\ permission' \in Ledger
  BY <1>ty, PermissionLedger, PermissionLedgerNext
<1>3. /\ \A d \in DevicesOf[g] :
            /\ permission[<<g, d>>] = active_quotas[g][d]
            /\ permission'[<<g, d>>] = Larger(active_quotas[g][d], initial_target(g)[d])
      /\ \A p \in Partitions : p[1] # g => permission'[p] = permission[p]
  BY ZenonT(40), <1>1, PublishPermission
<1>4. ASSUME NEW d \in Devices
      PROVE  /\ pool_capacity_bytes[d] \in Int /\ Sum(Floor, d) \in Nat
             /\ Sum(Floor, d) <= pool_capacity_bytes[d] /\ Extra(d) \in Nat
             /\ Cardinality(Instances) * Extra(d) <= pool_capacity_bytes[d] - Sum(Floor, d)
             /\ Cardinality(Instances) * Extra(d) \in Nat
  <2>1. /\ pool_capacity_bytes[d] \in Int /\ Sum(Floor, d) \in Nat
        /\ Sum(Floor, d) <= pool_capacity_bytes[d]
    BY <1>pt, <1>bu, ConstantTotals DEF PolicyType, BudgetInv
  <2>2. pool_capacity_bytes[d] - Sum(Floor, d) \in Nat
    BY SMTT(40), <2>1
  <2>3. /\ Extra(d) \in Nat
        /\ Cardinality(Instances) * Extra(d) <= pool_capacity_bytes[d] - Sum(Floor, d)
    BY <2>2, InstanceCount, ShareBound DEF Extra
  <2> QED
    BY SMTT(40), <2>1, <2>3, InstanceCount
<1>5. ASSUME NEW p \in Partitions
      PROVE  permission'[p] <= Floor[p] + Extra(p[2])
  <2>1. /\ p[2] \in Devices /\ p[1] \in Groups /\ p[2] \in DevicesOf[p[1]]
        /\ p = <<p[1], p[2]>>
    BY PartitionParts
  <2>2. permission[p] <= Floor[p] + Extra(p[2])
    BY <1>bu DEF BudgetInv
  <2>3. CASE p[1] # g
    BY <1>3, <2>2, <2>3
  <2>4. CASE p[1] = g
    <3>1. initial_target(g)[p[2]] = Smaller(Reservation[p], Floor[p] + Extra(p[2]))
      BY <2>1, <2>4 DEF initial_target, Extra
    <3>2. Floor[p] \in Nat /\ Reservation[p] \in Nat /\ Extra(p[2]) \in Nat
      BY <1>4, <2>1, SizeAssumption
    <3>3. initial_target(g)[p[2]] <= Floor[p] + Extra(p[2])
      BY SMTT(40), <3>1, <3>2 DEF Smaller
    <3>4. /\ permission'[p] = Larger(active_quotas[g][p[2]], initial_target(g)[p[2]])
          /\ permission[p] = active_quotas[g][p[2]]
      BY <1>3, <2>1, <2>4
    <3> QED
      BY <2>2, <3>3, <3>4 DEF Larger
  <2> QED
    BY <2>3, <2>4
<1>6. ASSUME NEW d \in Devices
      PROVE  Sum(permission', d) <= pool_capacity_bytes[d]
  <2> DEFINE share == [p \in Partitions |-> Floor[p] + Extra(d)]
  <2>1. share \in Ledger
    BY SMTT(40), <1>4, SizeAssumption DEF Ledger
  <2>2. \A x \in GroupsOn(d) : /\ share[<<x, d>>] = Floor[<<x, d>>] + Extra(d)
                               /\ permission'[<<x, d>>] <= share[<<x, d>>]
    BY <1>5, PartitionOf
  <2> HIDE DEF share
  <2>3. Sum(share, d) = Sum(Floor, d) + Cardinality(Instances) * Extra(d)
    BY SMTT(40), <1>4, <2>1, <2>2, ConstantTotals, SumShare
  <2>4. Sum(permission', d) <= Sum(share, d)
    BY <1>2, <2>1, <2>2, SumMonotone
  <2>5. Sum(permission', d) \in Nat
    BY <1>2, BytesFinite
  <2> QED
    BY SMTT(40), <1>4, <2>3, <2>4, <2>5
<1>7. \A d : Extra(d)' = Extra(d)
  BY <1>1 DEF Extra
<1> QED
  BY <1>bu, <1>1, <1>5, <1>6, <1>7 DEF BudgetInv, Observed

\* Groups whose operation takes permission away, and those a donor slot names.
Shrinking == {g \in operations : \E d \in DevicesOf[g] :
                                    command[g].quota_bytes[d] < active_quotas[g][d]}
Donors == UNION {a.donor : a \in funding_attempt}

\* A second half of step that publishes nothing.
LEMMA QuietStep ==
    ASSUME Inv, frozen, step' = "collect", PublicationFrame, FundType',
           UNCHANGED <<command, operations, failed>>, Shrinking \subseteq Donors'
    PROVE  Inv'
<1>ty. TypeOK
  BY DEF Inv
<1>nc. NoCheckFails
  BY DEF Inv
<1>sq. SequenceInv
  BY DEF Inv
<1>le. LedgerInv
  BY DEF Inv
<1>ba. BallotInv
  BY DEF Inv
<1>bu. BudgetInv
  BY DEF Inv
<1>qu. QuotaInv
  BY DEF Inv
<1>de. DemandInv
  BY DEF Inv
<1>do. OnlyDonorShrinks
  BY DEF Inv
<1>1. frozen' <=> frozen
  BY DEF frozen
<1>2. TypeOK'
  BY <1>ty DEF TypeOK, RankType, ChannelType, PolicyType, Steps, FundType,
     PublicationFrame
<1>3. UNCHANGED <<completed, accepted, completion, applied_sequences, ballot,
                  charged, limit, retiring, initial_backing, device_free,
                  active_quotas, service_ceilings, pool_capacity_bytes, demand>>
  BY DEF PublicationFrame
<1>4. /\ NoCheckFails' /\ SequenceInv' /\ LedgerInv' /\ BallotInv' /\ BudgetInv'
      /\ QuotaInv' /\ DemandInv'
  BY <1>nc, <1>sq, <1>le, <1>ba, <1>bu, <1>qu, <1>de, <1>1, <1>3,
     FramePermission, FrameSequence, FrameLedger, FrameBallot, FrameBudget,
     FrameQuota, FrameDemand DEF NoCheckFails
<1>5. OnlyDonorShrinks'
  BY ZenonT(40), <1>do, <1>3 DEF OnlyDonorShrinks, Shrinking, Donors
<1> QED
  BY <1>2, <1>4, <1>5 DEF Inv

\* A second half of step that publishes one operation.
LEMMA PublishStep ==
    ASSUME Inv, frozen, step' = "collect", PublicationFrame, FundType',
           NEW g \in Groups, NEW quota, Lawful(g, quota), g \notin operations,
           publish_operation(g, quota), Shrinking \subseteq Donors',
           (\E d \in DevicesOf[g] : quota[d] < active_quotas[g][d]) => g \in Donors',
           \/ /\ quota = initial_target(g)
              /\ \E x \in Groups : applied_sequences[x] = 0
           \/ /\ \A x \in Groups : applied_sequences[x] # 0
              /\ \A d \in DevicesOf[g] :
                    Larger(active_quotas[g][d], quota[d]) - active_quotas[g][d]
                       <= pool_free_bytes(d)
    PROVE  Inv'
<1>ty. TypeOK
  BY DEF Inv
<1>ct. ChannelType
  BY DEF Inv, TypeOK
<1>pt. PolicyType
  BY DEF Inv, TypeOK
<1>nc. NoCheckFails
  BY DEF Inv
<1>do. OnlyDonorShrinks
  BY DEF Inv
<1>1. frozen'
  BY DEF frozen
<1>2. /\ command' = [command EXCEPT ![g] =
            [sequence |-> applied_sequences[g] + 1, quota_bytes |-> quota]]
      /\ operations' = operations \cup {g} /\ failed' = failed
      /\ DOMAIN command' = Groups
      /\ \A x \in Groups : command'[x] \in Command(x)
      /\ SequenceInv' /\ LedgerInv' /\ BallotInv' /\ QuotaInv' /\ DemandInv'
  BY <1>1, Publish
<1>3. TypeOK'
  BY ZenonT(40), <1>ty, <1>2 DEF TypeOK, RankType, ChannelType, PolicyType,
     Steps, FundType, PublicationFrame
<1>4. BudgetInv'
  BY ZenonT(40), <1>1, <1>2, <1>3, PublishBudget, StartupBudget DEF Lawful
<1>5. OnlyDonorShrinks'
  <2> SUFFICES ASSUME NEW x \in Groups, x \in operations',
                      \E d \in DevicesOf[x] : command'[x].quota_bytes[d] < active_quotas'[x][d]
               PROVE  x \in Donors'
    BY <1>do DEF OnlyDonorShrinks, Donors
  <2>1. active_quotas' = active_quotas
    BY DEF PublicationFrame
  <2>2. CASE x = g
    BY ZenonT(40), <1>ct, <1>pt, <1>2, <2>1, <2>2 DEF ChannelType, PolicyType
  <2>3. CASE x # g
    <3>1. command'[x] = command[x] /\ x \in operations
      BY <1>ct, <1>pt, <1>2, <2>3 DEF ChannelType, PolicyType
    <3> QED
      BY ZenonT(40), <2>1, <3>1 DEF Shrinking
  <2> QED
    BY <2>2, <2>3
<1> QED
  BY <1>nc, <1>2, <1>3, <1>4, <1>5 DEF NoCheckFails, Inv

\* The free bytes of a device are a natural number.
LEMMA FreeBytes ==
    ASSUME Inv, frozen, NEW d \in Devices
    PROVE  pool_free_bytes(d) \in Nat
<1>ty. TypeOK
  BY DEF Inv
<1>pt. PolicyType
  BY DEF Inv, TypeOK
<1>bu. BudgetInv
  BY DEF Inv
<1>1. Sum(permission, d) \in Nat /\ pool_capacity_bytes[d] \in Int
  BY ZenonT(40), <1>ty, <1>pt, PermissionLedger, BytesFinite DEF PolicyType
<1> QED
  BY SMTT(40), <1>bu, <1>1 DEF BudgetInv, pool_free_bytes

\* An eligible witness is a lawful quota that takes nothing from its group.
LEMMA EligibleLawful ==
    ASSUME Inv, frozen, NEW k, NEW g \in Groups, k[g] \in Demand(g),
           eligible_demand(k, g)
    PROVE  /\ g \notin operations /\ Lawful(g, k[g].required)
           /\ k[g].deadline \in Nat /\ k[g].sequence \in Nat
           /\ \A d \in DevicesOf[g] :
                 /\ active_quotas[g][d] <= k[g].required[d]
                 /\ Larger(active_quotas[g][d], k[g].required[d]) = k[g].required[d]
<1>pt. PolicyType
  BY DEF Inv, TypeOK
<1>qu. QuotaInv
  BY DEF Inv
<1>1. /\ k[g].required \in Vector(g) /\ k[g].sequence \in Nat
      /\ k[g].deadline \in Nat /\ g \notin operations
  <2>1. /\ k[g].required \in Vector(g) /\ k[g].sequence \in Nat
        /\ k[g].deadline \in Nat \cup {Absent}
    BY DEF Demand
  <2>2. k[g].deadline # Absent /\ g \notin operations
    BY DEF eligible_demand, present
  <2> QED
    BY <2>1, <2>2
<1>2. ASSUME NEW d \in DevicesOf[g]
      PROVE  /\ active_quotas[g][d] \in Nat /\ k[g].required[d] \in Nat
             /\ Floor[<<g, d>>] \in Nat /\ Floor[<<g, d>>] <= active_quotas[g][d]
             /\ active_quotas[g][d] <= k[g].required[d]
             /\ k[g].required[d] <= service_ceilings[g][d]
  <2>1. <<g, d>> \in Partitions /\ active_quotas[g] \in Vector(g)
    BY ZenonT(40), <1>pt, GroupParts DEF PolicyType
  <2>2. active_quotas[g][d] \in Nat /\ k[g].required[d] \in Nat /\ Floor[<<g, d>>] \in Nat
    BY <1>1, <2>1, SizeAssumption DEF Vector
  <2> QED
    BY <1>qu, <2>2 DEF QuotaInv, eligible_demand
<1>3. \A d \in DevicesOf[g] :
         /\ active_quotas[g][d] <= k[g].required[d]
         /\ Larger(active_quotas[g][d], k[g].required[d]) = k[g].required[d]
  BY ZenonT(40), <1>2, LargerIs
<1>4. \A d \in DevicesOf[g] : Floor[<<g, d>>] <= k[g].required[d]
  BY SMTT(40), <1>2
<1> QED
  BY ZenonT(40), <1>1, <1>2, <1>3, <1>4 DEF Lawful

\* What a donor is asked for is lawful and only takes bytes away.
LEMMA DonorLawful ==
    ASSUME Inv, frozen, NEW a, a.borrower \in Groups, a \in Attempt(a.borrower),
           NEW h \in Groups
    PROVE  /\ Lawful(h, donor_target(a, h))
           /\ \A d \in DevicesOf[h] :
                 Larger(active_quotas[h][d], donor_target(a, h)[d]) = active_quotas[h][d]
<1>pt. PolicyType
  BY DEF Inv, TypeOK
<1>qu. QuotaInv
  BY DEF Inv
<1>1. ASSUME NEW d \in DevicesOf[h]
      PROVE  /\ donor_target(a, h)[d] \in Nat /\ active_quotas[h][d] \in Nat
             /\ Floor[<<h, d>>] <= donor_target(a, h)[d]
             /\ donor_target(a, h)[d] <= active_quotas[h][d]
             /\ active_quotas[h][d] <= service_ceilings[h][d]
             /\ service_ceilings[h][d] \in Int
  <2>1. <<h, d>> \in Partitions /\ d \in Devices /\ active_quotas[h] \in Vector(h)
    BY <1>pt, GroupParts DEF PolicyType
  <2>2. /\ active_quotas[h][d] \in Nat /\ Floor[<<h, d>>] \in Nat
        /\ Floor[<<h, d>>] <= active_quotas[h][d]
        /\ active_quotas[h][d] <= service_ceilings[h][d]
        /\ service_ceilings[h][d] \in Int
    BY ZenonT(40), <1>pt, <1>qu, <2>1, SizeAssumption DEF Vector, QuotaInv, PolicyType
  <2>3. shortage(a, d) \in Nat
    <3>1. CASE d \in DevicesOf[a.borrower]
      <4>1. a.target[d] \in Nat /\ active_quotas[a.borrower][d] \in Nat
        BY <1>pt, <3>1 DEF Attempt, Vector, PolicyType
      <4> QED
        BY SMTT(40), <2>1, <3>1, <4>1, FreeBytes DEF shortage, growth_bytes, Larger
    <3>2. CASE d \notin DevicesOf[a.borrower]
      BY <3>2 DEF shortage
    <3> QED
      BY <3>1, <3>2
  <2>4. donor_target(a, h)[d] = Larger(Floor[<<h, d>>], active_quotas[h][d] - shortage(a, d))
    BY DEF donor_target
  <2> QED
    BY SMTT(40), <2>2, <2>3, <2>4 DEF Larger
<1>2. donor_target(a, h) \in Vector(h)
  <2>1. donor_target(a, h) = [d \in DevicesOf[h] |-> donor_target(a, h)[d]]
    BY DEF donor_target
  <2> QED
    BY <1>1, <2>1 DEF Vector
<1>3. \A d \in DevicesOf[h] :
         /\ Floor[<<h, d>>] <= donor_target(a, h)[d]
         /\ donor_target(a, h)[d] <= service_ceilings[h][d]
         /\ Larger(active_quotas[h][d], donor_target(a, h)[d]) = active_quotas[h][d]
  BY SMTT(40), <1>1 DEF Larger
<1> QED
  BY ZenonT(40), <1>2, <1>3 DEF Lawful

\* Advancing an attempt without a donor keeps Inv.
LEMMA AdvanceAttempt ==
    ASSUME Inv, frozen, step' = "collect", PublicationFrame,
           \A x \in Groups : applied_sequences[x] # 0,
           NEW k, DOMAIN k = Groups, \A x \in Groups : k[x] \in Demand(x),
           demands' = k, Donors = {},
           NEW a, a.borrower \in Groups, a \in Attempt(a.borrower),
           eligible_demand(k, a.borrower), k[a.borrower].required = a.target,
           advance_attempt(k, a)
    PROVE  Inv'
<1>pt. PolicyType
  BY DEF Inv, TypeOK
<1>do. OnlyDonorShrinks
  BY DEF Inv
<1>1. Shrinking = {}
  <2>1. operations \subseteq Groups
    BY <1>pt DEF PolicyType
  <2> QED
    BY SMTT(40), <1>do, <2>1 DEF Shrinking, Donors, OnlyDonorShrinks
<1>2. CASE /\ fits(a.borrower, a.target)
           /\ publish_operation(a.borrower, a.target)
           /\ funding_attempt' = {}
  <2>1. FundType'
    BY ZenonT(40), <1>2 DEF FundType
  <2>2. /\ a.borrower \notin operations /\ Lawful(a.borrower, a.target)
        /\ \A d \in DevicesOf[a.borrower] :
              /\ active_quotas[a.borrower][d] <= a.target[d]
              /\ Larger(active_quotas[a.borrower][d], a.target[d]) = a.target[d]
    <3> DEFINE b == a.borrower
    <3>1. b \in Groups /\ k[b] \in Demand(b) /\ k[b].required = a.target
      OBVIOUS
    <3>2. /\ b \notin operations /\ Lawful(b, k[b].required)
          /\ \A d \in DevicesOf[b] :
                /\ active_quotas[b][d] <= k[b].required[d]
                /\ Larger(active_quotas[b][d], k[b].required[d]) = k[b].required[d]
      <4> HIDE DEF b
      <4>1. eligible_demand(k, b)
        BY DEF b
      <4> QED
        BY <3>1, <4>1, EligibleLawful
    <3> QED
      BY <3>1, <3>2
  <2>3. ~ \E d \in DevicesOf[a.borrower] : a.target[d] < active_quotas[a.borrower][d]
    <3>1. \A d \in DevicesOf[a.borrower] :
             active_quotas[a.borrower][d] \in Nat /\ a.target[d] \in Nat
      BY ZenonT(40), <1>pt, <2>2 DEF PolicyType, Vector, Lawful
    <3> QED
      BY <2>2, <3>1, NotBelow
  <2>4. \A d \in DevicesOf[a.borrower] :
           Larger(active_quotas[a.borrower][d], a.target[d]) - active_quotas[a.borrower][d]
              <= pool_free_bytes(d)
    BY <1>2, <2>2 DEF fits, growth_bytes
  <2> QED
    BY ZenonT(40), <1>1, <1>2, <2>1, <2>2, <2>3, <2>4, PublishStep
<1>3. CASE \E h \in donors(k, a) :
              /\ publish_operation(h, donor_target(a, h))
              /\ funding_attempt' = {[a EXCEPT !.donor = {h}]}
  <2>1. PICK h \in donors(k, a) :
              /\ publish_operation(h, donor_target(a, h))
              /\ funding_attempt' = {[a EXCEPT !.donor = {h}]}
    BY <1>3
  <2>2. h \in Groups /\ h \notin operations
    BY DEF donors
  <2>3. FundType' /\ h \in Donors'
    <3> DEFINE b == [a EXCEPT !.donor = {h}]
    <3>1. /\ b.borrower = a.borrower /\ b.donor = {h} /\ b \in Attempt(a.borrower)
      BY <2>2 DEF Attempt
    <3>2. funding_attempt' = {b}
      BY <2>1
    <3> HIDE DEF b
    <3> QED
      BY <3>1, <3>2 DEF FundType, Donors
  <2>4. /\ Lawful(h, donor_target(a, h))
        /\ \A d \in DevicesOf[h] :
              Larger(active_quotas[h][d], donor_target(a, h)[d]) = active_quotas[h][d]
    BY <2>2, DonorLawful
  <2>5. ASSUME NEW d \in DevicesOf[h]
        PROVE  Larger(active_quotas[h][d], donor_target(a, h)[d]) - active_quotas[h][d]
                  <= pool_free_bytes(d)
    <3>1. d \in Devices /\ active_quotas[h][d] \in Nat
      BY ZenonT(40), <1>pt, <2>2, GroupParts DEF PolicyType, Vector
    <3>2. Larger(active_quotas[h][d], donor_target(a, h)[d]) = active_quotas[h][d]
      BY <2>4
    <3>3. pool_free_bytes(d) \in Nat
      BY <3>1, FreeBytes
    <3> QED
      BY <3>1, <3>2, <3>3, NotBelow
  <2> QED
    BY <1>1, <2>1, <2>2, <2>3, <2>4, <2>5, PublishStep
<1> QED
  BY <1>2, <1>3 DEF advance_attempt, Inv

\* The policy's snapshot is a demand for every group.
LEMMA ConsumedType ==
    ASSUME TypeOK, NEW visible
    PROVE  /\ DOMAIN consume_demands(visible) = Groups
           /\ \A x \in Groups : consume_demands(visible)[x] \in Demand(x)
BY ZenonT(40) DEF consume_demands, TypeOK, RankType, ChannelType, PolicyType, FundType

\* The initial target is lawful.
LEMMA StartupLawful ==
    ASSUME Inv, frozen, NEW g \in Groups, applied_sequences[g] = 0
    PROVE  /\ Lawful(g, initial_target(g))
           /\ ~ \E d \in DevicesOf[g] : initial_target(g)[d] < active_quotas[g][d]
<1>pt. PolicyType
  BY DEF Inv, TypeOK
<1>bu. BudgetInv
  BY DEF Inv
<1>qu. QuotaInv
  BY DEF Inv
<1>1. ASSUME NEW d \in DevicesOf[g]
      PROVE  /\ initial_target(g)[d] \in Nat
             /\ Floor[<<g, d>>] <= initial_target(g)[d]
             /\ initial_target(g)[d] <= service_ceilings[g][d]
             /\ active_quotas[g][d] = Floor[<<g, d>>] /\ Floor[<<g, d>>] \in Nat
  <2>1. <<g, d>> \in Partitions /\ d \in Devices
    BY GroupParts
  <2>2. /\ Floor[<<g, d>>] \in Nat /\ Reservation[<<g, d>>] \in Nat
        /\ Floor[<<g, d>>] <= Reservation[<<g, d>>]
        /\ Sum(Floor, d) \in Nat /\ pool_capacity_bytes[d] \in Int
        /\ Sum(Floor, d) <= pool_capacity_bytes[d]
    BY ZenonT(40), <1>pt, <1>bu, <2>1, SizeAssumption, ConstantTotals DEF
       PolicyType, BudgetInv
  <2>3. pool_capacity_bytes[d] - Sum(Floor, d) \in Nat
    BY SMTT(40), <2>2
  <2>4. Extra(d) \in Nat /\ Extra(d) <= pool_capacity_bytes[d] - Sum(Floor, d)
    BY <2>3, InstanceCount, ShareBound DEF Extra
  <2>5. initial_target(g)[d] = Smaller(Reservation[<<g, d>>], Floor[<<g, d>>] + Extra(d))
    BY DEF initial_target, Extra
  <2>6. initial_target(g)[d] <= service_ceilings[g][d]
    BY ZenonT(40), <1>qu, <2>2, <2>4, <2>5, CeilingBounds DEF QuotaInv
  <2>7. active_quotas[g][d] = Floor[<<g, d>>]
    BY <1>qu DEF QuotaInv, FloorOf
  <2> QED
    BY SMTT(40), <2>2, <2>4, <2>5, <2>6, <2>7 DEF Smaller
<1>2. initial_target(g) \in Vector(g)
  <2>1. initial_target(g) = [d \in DevicesOf[g] |-> initial_target(g)[d]]
    BY DEF initial_target
  <2> QED
    BY <1>1, <2>1 DEF Vector
<1>3. ASSUME NEW d \in DevicesOf[g]
      PROVE  ~(initial_target(g)[d] < active_quotas[g][d])
  <2> DEFINE t == initial_target(g)[d]
             f == Floor[<<g, d>>]
             c == active_quotas[g][d]
  <2>1. t \in Nat /\ f \in Nat /\ f <= t /\ c = f
    BY <1>1
  <2> HIDE DEF t, f, c
  <2>2. ~(t < c)
    BY SMTT(40), <2>1
  <2> QED
    BY <2>2 DEF t, c
<1> QED
  BY ZenonT(40), <1>1, <1>2, <1>3 DEF Lawful

\* No check of the second half of step can fire.
LEMMA DispatchChecks ==
    ASSUME Inv, frozen, NEW g \in Groups
    PROVE  ~demand_invalid(g)
<1>ty. TypeOK
  BY DEF Inv
<1>ct. ChannelType
  BY DEF Inv, TypeOK
<1>pt. PolicyType
  BY DEF Inv, TypeOK
<1>sq. SequenceInv
  BY DEF Inv
<1>de. DemandInv
  BY DEF Inv
<1>1. PICK p \in Ranks(g) : p \in Partitions /\ p[1] = g
  BY SomeRank
<1>2. /\ demand[g].sequence \in Nat /\ completed[p] \in Nat /\ command[g].sequence \in Nat
      /\ demand[g].sequence <= completed[p] /\ completed[p] <= command[g].sequence
      /\ applied_sequences[g] \in Nat /\ accepted[p].sequence \in Nat
  <2>1. /\ demand[g].sequence \in Nat /\ completed[p] \in Nat
        /\ command[g].sequence \in Nat /\ applied_sequences[g] \in Nat
        /\ accepted[p].sequence \in Nat
    BY <1>ty, <1>1, RankTypes
  <2>2. /\ completed[p] <= accepted[p].sequence
        /\ accepted[p].sequence <= command[g].sequence
    BY <1>sq, <1>1 DEF SequenceInv
  <2>3. demand[g].sequence <= completed[p]
    BY <1>de, <1>1 DEF DemandInv
  <2> QED
    BY SMTT(40), <2>1, <2>2, <2>3
<1>3. last_issued_sequence(g) = command[g].sequence
  BY SMTT(40), <1>sq, <1>2 DEF last_issued_sequence, SequenceInv
<1>4. ASSUME present(demand[g]), demand[g].sequence = applied_sequences[g],
             NEW d \in DevicesOf[g]
      PROVE  ~(demand[g].required[d] < active_quotas[g][d])
  <2>1. demand[g].required[d] \in Nat /\ active_quotas[g][d] \in Nat
    BY <1>ct, <1>pt DEF ChannelType, PolicyType, Demand, Vector
  <2>2. active_quotas[g][d] <= demand[g].required[d]
    BY ZenonT(40), <1>de, <1>4 DEF DemandInv
  <2> QED
    BY SMTT(40), <2>1, <2>2
<1> QED
  BY SMTT(40), <1>2, <1>3, <1>4 DEF demand_invalid

\* The second half of step keeps Inv, whatever demands it could read.
LEMMA Dispatch ==
    ASSUME Inv, NEW visible \in SUBSET Groups, dispatch(visible)
    PROVE  Inv'
<1>pt. PolicyType
  BY DEF Inv, TypeOK
<1>ft. FundType
  BY DEF Inv, TypeOK
<1>do. OnlyDonorShrinks
  BY DEF Inv
<1>1. frozen /\ step' = "collect" /\ PublicationFrame
  BY DEF dispatch, frozen, PublicationFrame
<1>2. Shrinking \subseteq Donors
  <2>1. operations \subseteq Groups
    BY <1>pt DEF PolicyType
  <2> QED
    BY <1>do, <2>1 DEF OnlyDonorShrinks, Shrinking, Donors
<1>3. CASE \E g \in Groups : applied_sequences[g] = 0
  <2>1. publish_next_initial_operation /\ UNCHANGED <<demands, funding_attempt>>
    BY <1>3 DEF dispatch
  <2>2. FundType' /\ Donors' = Donors
    BY ZenonT(40), <1>ft, <2>1 DEF FundType, Donors
  <2>3. CASE UNCHANGED <<command, operations, failed>>
    BY <1>1, <1>2, <2>2, <2>3, QuietStep
  <2>4. CASE operations = {} /\ \E g \in Groups :
                 applied_sequences[g] = 0 /\ publish_operation(g, initial_target(g))
    <3>1. PICK g \in Groups :
             applied_sequences[g] = 0 /\ publish_operation(g, initial_target(g))
      BY <2>4
    <3>2. /\ Lawful(g, initial_target(g)) /\ g \notin operations
          /\ ~ \E d \in DevicesOf[g] : initial_target(g)[d] < active_quotas[g][d]
      BY <1>1, <2>4, <3>1, StartupLawful
    <3> QED
      BY <1>1, <1>2, <1>3, <2>2, <3>1, <3>2, PublishStep
  <2> QED
    BY <2>1, <2>3, <2>4 DEF publish_next_initial_operation
<1>4. CASE ~ \E g \in Groups : applied_sequences[g] = 0
  <2> DEFINE k == consume_demands(visible)
  <2>1. demands' = k /\ fund(k)
    <3>1. ~ \E g \in visible : demand[g].sequence # 0 /\ demand_invalid(g)
      BY <1>1, DispatchChecks
    <3>2. ~ \E d \in Devices : pool_free_bytes(d) < 0
      BY SMTT(40), <1>1, FreeBytes
    <3> QED
      BY ZenonT(40), <1>4, <3>1, <3>2 DEF dispatch
  <2>2. /\ DOMAIN k = Groups /\ \A x \in Groups : k[x] \in Demand(x)
        /\ \A x \in Groups : applied_sequences[x] # 0
    BY <1>4, ConsumedType DEF Inv
  <2> HIDE DEF k
  <2> DEFINE waiting == {a \in funding_attempt : a.donor # {}}
             resumable == {a \in funding_attempt :
                              attempt_is_current(k, a) /\ can_advance(k, a)}
             startable == {g \in borrowers(k) : can_advance(k, new_attempt(k, g))}
  <2>3. \A a \in funding_attempt : a.borrower \in Groups /\ a \in Attempt(a.borrower)
    BY ZenonT(40), <1>ft DEF FundType
  <2>4. \A g \in borrowers(k) : g \in Groups /\ eligible_demand(k, g)
    BY ZenonT(40) DEF borrowers, overdue
  <2>5. waiting = {} => Donors = {} /\ Shrinking = {}
    BY ZenonT(40), <1>2 DEF Donors
  <2>6. CASE \E a \in waiting : fund_beside(k, a)
    <3>1. PICK a \in waiting : fund_beside(k, a)
      BY ZenonT(40), <2>6
    <3>2. funding_attempt' = funding_attempt
      BY <3>1 DEF fund_beside
    <3>3. FundType' /\ Donors' = Donors
      BY <2>1, <2>2, <2>3, <3>2 DEF FundType, Donors
    <3>4. CASE UNCHANGED <<command, operations, failed>>
      BY <1>1, <1>2, <3>3, <3>4, QuietStep
    <3>5. CASE \E g \in borrowers(k) : /\ fits(g, k[g].required)
                                       /\ publish_operation(g, k[g].required)
      <4>1. PICK g \in borrowers(k) : /\ fits(g, k[g].required)
                                      /\ publish_operation(g, k[g].required)
        BY <3>5
      <4>2. g \in Groups /\ g \notin operations /\ Lawful(g, k[g].required)
            /\ \A d \in DevicesOf[g] :
                 /\ active_quotas[g][d] <= k[g].required[d]
                 /\ Larger(active_quotas[g][d], k[g].required[d]) = k[g].required[d]
        BY <1>1, <2>2, <2>4, EligibleLawful
      <4>3. ~ \E d \in DevicesOf[g] : k[g].required[d] < active_quotas[g][d]
        <5>1. \A d \in DevicesOf[g] :
                 active_quotas[g][d] \in Nat /\ k[g].required[d] \in Nat
          BY ZenonT(40), <1>pt, <4>2 DEF PolicyType, Vector, Lawful
        <5> QED
          BY <4>2, <5>1, NotBelow
      <4>4. \A d \in DevicesOf[g] :
               Larger(active_quotas[g][d], k[g].required[d]) - active_quotas[g][d]
                  <= pool_free_bytes(d)
        BY ZenonT(40), <4>1, <4>2 DEF fits, growth_bytes
      <4> QED
        BY ZenonT(40), <1>1, <1>2, <2>2, <3>3, <4>1, <4>2, <4>3, <4>4, PublishStep
    <3> QED
      BY ZenonT(40), <3>1, <3>4, <3>5 DEF fund_beside
  <2>7. CASE waiting = {} /\ \E a \in resumable : advance_attempt(k, a)
    <3>1. PICK a \in resumable : advance_attempt(k, a)
      BY ZenonT(40), <2>7
    <3>2. /\ eligible_demand(k, a.borrower) /\ k[a.borrower].required = a.target
          /\ a.borrower \in Groups /\ a \in Attempt(a.borrower)
      BY <2>3 DEF attempt_is_current
    <3> QED
      BY ZenonT(40), <1>1, <2>1, <2>2, <2>5, <2>7, <3>1, <3>2, AdvanceAttempt
  <2>8. CASE waiting = {} /\ \E g \in startable : advance_attempt(k, new_attempt(k, g))
    <3>1. PICK g \in startable : advance_attempt(k, new_attempt(k, g))
      BY <2>8
    <3> DEFINE a == new_attempt(k, g)
    <3>2. g \in Groups /\ eligible_demand(k, g)
      BY <2>4
    <3>3. k[g].deadline \in Nat /\ k[g].sequence \in Nat /\ k[g].required \in Vector(g)
      BY ZenonT(40), <1>1, <2>2, <3>2, EligibleLawful DEF Lawful
    <3>4. /\ a.borrower = g /\ a.target = k[g].required
          /\ a.borrower \in Groups /\ a \in Attempt(a.borrower)
      BY <3>2, <3>3 DEF new_attempt, Attempt
    <3>5. advance_attempt(k, a)
      BY <3>1
    <3> HIDE DEF a
    <3> QED
      BY ZenonT(40), <1>1, <2>1, <2>2, <2>5, <2>8, <3>2, <3>4, <3>5, AdvanceAttempt
  <2>9. CASE /\ waiting = {} /\ funding_attempt' = {}
             /\ UNCHANGED <<command, operations, failed>>
    <3>1. FundType'
      BY <2>1, <2>2, <2>9 DEF FundType
    <3> QED
      BY <1>1, <2>5, <2>9, <3>1, QuietStep
  <2> QED
    BY ZenonT(40), <2>1, <2>6, <2>7, <2>8, <2>9 DEF fund
<1> QED
  BY <1>3, <1>4 DEF Inv

-----------------------------------------------------------------------------
(***************************************************************************)
(* The steps of the Instances' ranks and of the agents: first what a rank  *)
(* does with its own memory, then the steps in which a group accepts and   *)
(* adopts a command and its leader publishes demand, and last the two      *)
(* steps of the daemon that hand out no command, freezing the pools and    *)
(* retiring operations.                                                    *)
(***************************************************************************)

\* A rank's own step leaves the other parts of the type invariant alone.
LEMMA RankStepTypes ==
    ASSUME TypeOK, RankType', UNCHANGED <<channelVars, daemonVars, failed, now>>
    PROVE  TypeOK'
<1>1. ChannelType' /\ PolicyType' /\ FundType'
  BY FrameTypes DEF TypeOK
<1> QED
  BY <1>1 DEF TypeOK

\* A step that only charges or retires on one rank keeps LedgerInv if the new
\* charge keeps the bounds of that rank.
LEMMA LedgerStep ==
    ASSUME RankType, LedgerInv, frozen' <=> frozen,
           NEW p \in Partitions, NEW c \in Nat, NEW r \in Nat,
           charged' = [charged EXCEPT ![p] = c],
           retiring' = [retiring EXCEPT ![p] = r],
           UNCHANGED <<limit, completed, applied_sequences, active_quotas,
                       command, initial_backing, operations, completion>>,
           c <= limit[p],
           c = 0 \/ Floor[p] + r <= c,
           r > 0 => Floor[p] + r <= c,
           initial_backing[p] # Absent => Floor[p] <= c,
           completed[p] = 0 => c \in {0, Floor[p]}
    PROVE  LedgerInv'
<1> SUFFICES ASSUME NEW q \in Partitions PROVE RankLedger(q)'
  BY DEF LedgerInv
<1>1. RankLedger(q) /\ CurrentQuota(q)' = CurrentQuota(q)
  BY DEF LedgerInv, CurrentQuota
<1>2. CASE q = p
  <2>1. charged'[q] = c /\ retiring'[q] = r
    BY <1>2 DEF RankType
  <2> QED
    BY <1>1, <1>2, <2>1 DEF RankLedger
<1>3. CASE q # p
  <2>1. charged'[q] = charged[q] /\ retiring'[q] = retiring[q]
    BY <1>3 DEF RankType
  <2> QED
    BY <1>1, <2>1 DEF RankLedger
<1> QED
  BY <1>2, <1>3

\* A step that moves one ballot other than an adopting one keeps BallotInv if
\* the new ballot is true of its rank.
LEMMA BallotStep ==
    ASSUME RankType, BallotInv, NEW p \in Partitions,
           NEW b \in {"none", "ready", "blocked"}, ballot[p] # "adopt",
           ballot' = [ballot EXCEPT ![p] = b],
           b # "none" => pending(p),
           b = "ready" => charged'[p] <= accepted[p].quota_bytes[p[2]],
           \A q \in Partitions : q # p => charged'[q] = charged[q],
           UNCHANGED <<completed, accepted, command>>
    PROVE  BallotInv'
<1>1. ballot'[p] = b /\ \A q \in Partitions : q # p => ballot'[q] = ballot[q]
  BY DEF RankType
<1> SUFFICES ASSUME NEW q \in Partitions
             PROVE  /\ ballot'[q] # "none" => pending(q)
                    /\ ballot'[q] \in {"ready", "adopt"} =>
                          charged'[q] <= accepted[q].quota_bytes[q[2]]
                    /\ ballot'[q] = "adopt" => \A x \in Ranks(q[1]) :
                          ballot'[x] = "adopt" \/ completed[x] = command[q[1]].sequence
                    /\ \A x \in Ranks(q[1]) :
                          completed[q] < completed[x] => ballot'[q] = "adopt"
  BY DEF BallotInv, pending
<1>2. \A x \in Ranks(q[1]) : x \in Partitions
  BY PartitionParts, RankParts
<1>3. CASE q = p
  BY <1>1, <1>3 DEF BallotInv
<1>4. CASE q # p
  BY <1>1, <1>2, <1>4 DEF BallotInv
<1> QED
  BY <1>3, <1>4

\* A step of one rank that only charges, retires or votes keeps Inv if it
\* keeps the bounds of LedgerStep and BallotStep.
LEMMA ChargeStep ==
    ASSUME Inv, NEW p \in Partitions, NEW c \in Nat, NEW r \in Nat,
           NEW b \in {"none", "ready", "blocked"}, ballot[p] # "adopt",
           charged' = [charged EXCEPT ![p] = c],
           retiring' = [retiring EXCEPT ![p] = r],
           ballot' = [ballot EXCEPT ![p] = b],
           UNCHANGED <<limit, accepted, adopted, completed, chunk, channelVars,
                       daemonVars, failed, now>>,
           c <= limit[p],
           c = 0 \/ Floor[p] + r <= c,
           r > 0 => Floor[p] + r <= c,
           initial_backing[p] # Absent => Floor[p] <= c,
           completed[p] = 0 => c \in {0, Floor[p]},
           b # "none" => pending(p),
           b = "ready" => c <= accepted[p].quota_bytes[p[2]]
    PROVE  Inv'
<1>1. RankType
  BY DEF Inv, TypeOK
<1>2. RankType'
  BY <1>1 DEF RankType
<1>3. TypeOK'
  BY <1>2, RankStepTypes DEF Inv
<1>4. /\ frozen' <=> frozen
      /\ NoCheckFails' /\ SequenceInv' /\ BudgetInv' /\ QuotaInv'
      /\ DemandInv' /\ OnlyDonorShrinks'
  BY RankFrame
<1>5. LedgerInv'
  BY <1>1, <1>4, LedgerStep DEF Inv
<1>6. charged'[p] = c /\ \A q \in Partitions : q # p => charged'[q] = charged[q]
  BY <1>1 DEF RankType
<1>7. BallotInv'
  BY <1>1, <1>6, BallotStep DEF Inv
<1> QED
  BY <1>3, <1>4, <1>5, <1>7 DEF Inv

\* What Inv says of the words of one rank.
LEMMA RankWords ==
    ASSUME Inv, NEW p \in Partitions
    PROVE  /\ charged[p] \in Nat /\ limit[p] \in Nat /\ retiring[p] \in Nat
           /\ completed[p] \in Nat /\ Floor[p] \in Nat
           /\ charged[p] <= limit[p]
           /\ charged[p] = 0 \/ Floor[p] + retiring[p] <= charged[p]
           /\ retiring[p] > 0 => Floor[p] + retiring[p] <= charged[p]
           /\ initial_backing[p] # Absent => Floor[p] <= charged[p]
           /\ completed[p] = 0 => charged[p] \in {0, Floor[p]}
<1>1. TypeOK /\ RankLedger(p)
  BY DEF Inv, LedgerInv
<1> QED
  BY <1>1, RankTypes DEF RankLedger

\* A rank that has adopted a command runs on frozen pools and keeps its floor.
LEMMA ServingRank ==
    ASSUME Inv, NEW p \in Partitions, completed[p] # 0
    PROVE  frozen /\ initial_backing[p] # Absent
<1>1. frozen
  BY Unfrozen DEF Inv
<1> QED
  BY <1>1 DEF Inv, BudgetInv, Observed

\* Functions of the ranks are unchanged by writing back their own value.
LEMMA SameCharge ==
    ASSUME RankType, NEW p \in Partitions
    PROVE  /\ charged = [charged EXCEPT ![p] = charged[p]]
           /\ retiring = [retiring EXCEPT ![p] = retiring[p]]
           /\ ballot = [ballot EXCEPT ![p] = ballot[p]]
BY DEF RankType

\* Mapping the floors keeps Inv: it happens before any command exists.
LEMMA InitPools ==
    ASSUME Inv, NEW p \in Partitions, init_pools(p)
    PROVE  Inv'
<1>1. ~frozen
  BY DEF init_pools, Inv, BudgetInv, Observed
<1>2. /\ completed[p] = 0 /\ applied_sequences[p[1]] = 0
      /\ accepted[p].sequence = 0
  BY <1>1, Unfrozen DEF Inv
<1>3. Floor[p] \in Nat /\ retiring[p] = 0 /\ charged[p] = 0 /\ limit[p] = Floor[p]
  <2>1. charged[p] = 0
    BY DEF init_pools
  <2>2. RankLedger(p)
    BY DEF Inv, LedgerInv
  <2>3. /\ limit[p] = Floor[p]
        /\ retiring[p] > 0 => Floor[p] + retiring[p] <= charged[p]
    BY <1>1, <1>2, <2>2 DEF RankLedger, CurrentQuota
  <2>4. Floor[p] \in Nat /\ retiring[p] \in Nat
    BY RankWords
  <2> QED
    BY SMTT(40), <2>1, <2>3, <2>4
<1>4. ballot[p] = "none"
  BY SMTT(40), <1>2 DEF Inv, BallotInv, pending
<1>5. /\ charged' = [charged EXCEPT ![p] = Floor[p]]
      /\ UNCHANGED <<retiring, ballot>>
      /\ UNCHANGED <<limit, accepted, adopted, completed, chunk, channelVars,
                     daemonVars, failed, now>>
  BY DEF init_pools
<1>6. RankType
  BY DEF Inv, TypeOK
<1>7. /\ retiring' = [retiring EXCEPT ![p] = 0]
      /\ ballot' = [ballot EXCEPT ![p] = "none"]
  BY <1>3, <1>4, <1>5, <1>6, SameCharge
<1>8. /\ 0 \in Nat /\ Floor[p] <= limit[p] /\ Floor[p] + 0 <= Floor[p]
      /\ Floor[p] <= Floor[p]
  BY SMTT(40), <1>3
<1> QED
  BY <1>2, <1>3, <1>4, <1>5, <1>7, <1>8, ChargeStep

\* A vote keeps Inv: a ready rank fits the command it votes on.
LEMMA VoteReady ==
    ASSUME Inv, NEW p \in Partitions, NEW n \in {0, retiring[p]}, vote_ready(p, n)
    PROVE  Inv'
<1>0. RankType
  BY DEF Inv, TypeOK
<1> DEFINE c == charged[p] - n
           r == retiring[p] - n
           b == ballot'[p]
<1>1. /\ charged' = [charged EXCEPT ![p] = c]
      /\ retiring' = [retiring EXCEPT ![p] = r]
      /\ ballot[p] = "none" /\ pending(p)
      /\ UNCHANGED <<limit, accepted, adopted, completed, chunk, channelVars,
                     daemonVars, failed, now>>
  BY DEF vote_ready, refund, idle
<1>2. /\ c \in Nat /\ r \in Nat /\ c <= limit[p]
      /\ c = 0 \/ Floor[p] + r <= c
      /\ r > 0 => Floor[p] + r <= c
      /\ initial_backing[p] # Absent => Floor[p] <= c
      /\ completed[p] = 0 => c \in {0, Floor[p]}
  BY SMTT(40), RankWords
<1>3. charged'[p] = c
  BY <1>0, <1>1 DEF RankType
<1>4. /\ ballot' = [ballot EXCEPT ![p] = b] /\ b \in {"ready", "blocked"}
      /\ b = "ready" => c <= accepted[p].quota_bytes[p[2]]
  BY <1>0, <1>3 DEF vote_ready, RankType
<1> HIDE DEF c, r, b
<1> QED
  BY <1>1, <1>2, <1>4, ChargeStep

\* The outcome of a vote is common to the group and still true on every rank.
LEMMA AllReduce ==
    ASSUME Inv, NEW g \in Groups, all_reduce(g)
    PROVE  Inv'
<1>0. RankType
  BY DEF Inv, TypeOK
<1>1. /\ \A p \in Ranks(g) : ballot[p] \in {"ready", "blocked"}
      /\ ballot' = [p \in Partitions |->
            IF p \notin Ranks(g) THEN ballot[p]
            ELSE IF \A q \in Ranks(g) : ballot[q] = "ready" THEN "adopt"
            ELSE "retry"]
      /\ UNCHANGED <<charged, limit, retiring, accepted, adopted, completed,
                     chunk, channelVars, daemonVars, failed, now>>
  BY DEF all_reduce
<1>2. RankType'
  BY <1>0, <1>1 DEF RankType
<1>3. TypeOK'
  BY <1>1, <1>2, RankStepTypes DEF Inv
<1>4. /\ frozen' <=> frozen
      /\ NoCheckFails' /\ SequenceInv' /\ BudgetInv' /\ QuotaInv'
      /\ DemandInv' /\ OnlyDonorShrinks'
  BY <1>1, RankFrame
<1>5. LedgerInv'
  BY <1>1, <1>4, FrameLedger DEF Inv
<1>6. BallotInv'
  <2> SUFFICES ASSUME NEW p \in Partitions
               PROVE  /\ ballot'[p] # "none" => pending(p)'
                      /\ ballot'[p] \in {"ready", "adopt"} =>
                            charged'[p] <= accepted'[p].quota_bytes[p[2]]
                      /\ ballot'[p] = "adopt" => \A q \in Ranks(p[1]) :
                            ballot'[q] = "adopt" \/ completed'[q] = command'[p[1]].sequence
                      /\ \A q \in Ranks(p[1]) :
                            completed'[p] < completed'[q] => ballot'[p] = "adopt"
    BY DEF BallotInv
  <2>1. /\ ballot[p] # "none" => pending(p)
        /\ ballot[p] \in {"ready", "adopt"} => charged[p] <= accepted[p].quota_bytes[p[2]]
        /\ ballot[p] = "adopt" => \A q \in Ranks(p[1]) :
              ballot[q] = "adopt" \/ completed[q] = command[p[1]].sequence
        /\ \A q \in Ranks(p[1]) : completed[p] < completed[q] => ballot[p] = "adopt"
    BY DEF Inv, BallotInv
  <2>2. \A q \in Ranks(p[1]) : q \in Partitions /\ (p \in Ranks(g) <=> q \in Ranks(g))
    BY RankParts, PartitionParts DEF Ranks
  <2>3. p \in Ranks(g) => ballot[p] \in {"ready", "blocked"}
    BY <1>1
  <2>4. CASE p \in Ranks(g)
    BY <1>1, <2>1, <2>2, <2>3, <2>4 DEF pending
  <2>5. CASE p \notin Ranks(g)
    BY <1>1, <2>1, <2>2, <2>5 DEF pending
  <2> QED
    BY <2>4, <2>5
<1> QED
  BY <1>3, <1>4, <1>5, <1>6 DEF Inv

\* A failed vote may start one retirement, which stays above the floor.
LEMMA Reclaim ==
    ASSUME Inv, NEW p \in Partitions, NEW n \in Nat, reclaim(p, n)
    PROVE  Inv'
<1>0. RankType
  BY DEF Inv, TypeOK
<1>1. /\ retiring' = [retiring EXCEPT ![p] = retiring[p] + n]
      /\ ballot' = [ballot EXCEPT ![p] = "none"] /\ ballot[p] = "retry"
      /\ UNCHANGED <<charged, limit, accepted, adopted, completed, chunk,
                     channelVars, daemonVars, failed, now>>
  BY DEF reclaim
<1>2. charged' = [charged EXCEPT ![p] = charged[p]]
  BY <1>0, <1>1, SameCharge
<1>3. n = 0 \/ (retiring[p] = 0 /\ n <= charged[p] - Floor[p] /\ completed[p] # 0)
  <2>1. CASE /\ completed[p] # 0 /\ charged[p] > accepted[p].quota_bytes[p[2]]
             /\ retiring[p] = 0 /\ p[1] \notin chunk
    BY <2>1 DEF reclaim, retirable
  <2>2. CASE ~(/\ completed[p] # 0 /\ charged[p] > accepted[p].quota_bytes[p[2]]
               /\ retiring[p] = 0 /\ p[1] \notin chunk)
    <3>1. n <= 0
      BY <2>2 DEF reclaim, retirable
    <3> QED
      BY SMTT(40), <3>1
  <2> QED
    BY <2>1, <2>2
<1>4. /\ charged[p] \in Nat /\ retiring[p] + n \in Nat /\ charged[p] <= limit[p]
      /\ charged[p] = 0 \/ Floor[p] + (retiring[p] + n) <= charged[p]
      /\ retiring[p] + n > 0 => Floor[p] + (retiring[p] + n) <= charged[p]
      /\ initial_backing[p] # Absent => Floor[p] <= charged[p]
      /\ completed[p] = 0 => charged[p] \in {0, Floor[p]}
  BY SMTT(40), <1>3, RankWords
<1> QED
  BY <1>1, <1>2, <1>4, ChargeStep

\* A forecast may start one retirement, which stays above the floor.
LEMMA ReclaimRequirement ==
    ASSUME Inv, NEW p \in Partitions, NEW n \in Nat, reclaim_requirement(p, n)
    PROVE  Inv'
<1>0. RankType
  BY DEF Inv, TypeOK
<1>1. /\ retiring' = [retiring EXCEPT ![p] = n] /\ ballot[p] = "none"
      /\ UNCHANGED <<charged, ballot>>
      /\ UNCHANGED <<limit, accepted, adopted, completed, chunk,
                     channelVars, daemonVars, failed, now>>
  BY DEF reclaim_requirement, idle
<1>2. /\ charged' = [charged EXCEPT ![p] = charged[p]]
      /\ ballot' = [ballot EXCEPT ![p] = "none"]
  BY <1>0, <1>1, SameCharge
<1>n. /\ 0 < n /\ (n <= 0 \/ n <= charged[p] - Floor[p])
      /\ charged[p] \in Nat /\ Floor[p] \in Nat /\ charged[p] <= limit[p]
  BY RankWords DEF reclaim_requirement, retirable
<1>3. 0 < n /\ Floor[p] + n <= charged[p]
  BY SMTT(40), <1>n
<1>4. /\ charged[p] \in Nat /\ charged[p] <= limit[p] /\ Floor[p] + n <= charged[p]
      /\ initial_backing[p] # Absent => Floor[p] <= charged[p]
      /\ completed[p] = 0 => charged[p] \in {0, Floor[p]}
  BY <1>3, RankWords
<1> QED
  BY <1>1, <1>2, <1>4, ChargeStep

\* Refunding a retirement leaves the floor charged.
LEMMA FinishRetirement ==
    ASSUME Inv, NEW p \in Partitions, finish_retirement(p)
    PROVE  Inv'
<1>0. RankType
  BY DEF Inv, TypeOK
<1> DEFINE c == charged[p] - retiring[p]
<1>1. /\ charged' = [charged EXCEPT ![p] = c]
      /\ retiring' = [retiring EXCEPT ![p] = retiring[p] - retiring[p]]
      /\ ballot[p] = "none" /\ UNCHANGED ballot /\ retiring[p] > 0
      /\ UNCHANGED <<limit, accepted, adopted, completed, chunk, channelVars,
                     daemonVars, failed, now>>
  BY DEF finish_retirement, refund, idle
<1>w. /\ charged[p] \in Nat /\ limit[p] \in Nat /\ retiring[p] \in Nat /\ Floor[p] \in Nat
      /\ charged[p] <= limit[p] /\ retiring[p] > 0 /\ Floor[p] + retiring[p] <= charged[p]
      /\ completed[p] = 0 => charged[p] \in {0, Floor[p]}
  BY <1>1, RankWords
<1>2. /\ c \in Nat /\ 0 \in Nat /\ retiring[p] - retiring[p] = 0 /\ c <= limit[p]
      /\ Floor[p] + 0 <= c /\ Floor[p] <= c
      /\ completed[p] = 0 => c \in {0, Floor[p]}
  BY SMTT(40), <1>w
<1>3. /\ retiring' = [retiring EXCEPT ![p] = 0]
      /\ ballot' = [ballot EXCEPT ![p] = "none"]
  BY <1>0, <1>1, <1>2, SameCharge
<1> HIDE DEF c
<1> QED
  BY <1>1, <1>2, <1>3, ChargeStep

\* A reservation stays within the adopted limit.
LEMMA TryReserve ==
    ASSUME Inv, NEW p \in Partitions, NEW n \in Nat, try_reserve(p, n)
    PROVE  Inv'
<1>0. RankType
  BY DEF Inv, TypeOK
<1> DEFINE c == charged[p] + n
<1>1. /\ charged' = [charged EXCEPT ![p] = c]
      /\ ballot[p] = "none" /\ UNCHANGED <<ballot, retiring>>
      /\ n <= limit[p] - charged[p] /\ completed[p] # 0
      /\ UNCHANGED <<limit, accepted, adopted, completed, chunk, channelVars,
                     daemonVars, failed, now>>
  BY DEF try_reserve, idle
<1>2. /\ retiring' = [retiring EXCEPT ![p] = retiring[p]]
      /\ ballot' = [ballot EXCEPT ![p] = "none"]
  BY <1>0, <1>1, SameCharge
<1>3. initial_backing[p] # Absent
  BY <1>1, ServingRank
<1>w. /\ charged[p] \in Nat /\ limit[p] \in Nat /\ retiring[p] \in Nat /\ Floor[p] \in Nat
      /\ n <= limit[p] - charged[p] /\ Floor[p] <= charged[p]
      /\ charged[p] = 0 \/ Floor[p] + retiring[p] <= charged[p]
      /\ retiring[p] > 0 => Floor[p] + retiring[p] <= charged[p]
  BY <1>1, <1>3, RankWords
<1>4. /\ c \in Nat /\ retiring[p] \in Nat /\ c <= limit[p]
      /\ Floor[p] + retiring[p] <= c /\ Floor[p] <= c
  BY SMTT(40), <1>w
<1> HIDE DEF c
<1> QED
  BY <1>1, <1>2, <1>4, ChargeStep

\* A chunk owner changes no ledger.
LEMMA SetChunkOwner ==
    ASSUME Inv, NEW g \in Groups, set_chunk_owner(g)
    PROVE  Inv'
<1>ty. TypeOK
  BY DEF Inv
<1>rt. RankType
  BY DEF Inv, TypeOK
<1>le. LedgerInv
  BY DEF Inv
<1>ba. BallotInv
  BY DEF Inv
<1>0. RankType'
  BY <1>rt DEF set_chunk_owner, RankType
<1>1. TypeOK'
  BY <1>ty, <1>0, RankStepTypes DEF set_chunk_owner
<1>2. /\ frozen' <=> frozen
      /\ NoCheckFails' /\ SequenceInv' /\ BudgetInv' /\ QuotaInv'
      /\ DemandInv' /\ OnlyDonorShrinks'
  BY RankFrame DEF set_chunk_owner
<1>3. LedgerInv'
  BY <1>le, <1>2, FrameLedger DEF set_chunk_owner
<1>4. BallotInv'
  BY <1>ba, FrameBallot DEF set_chunk_owner
<1> QED
  BY <1>1, <1>2, <1>3, <1>4 DEF Inv

\* Time changes no ledger.
LEMMA Tick ==
    ASSUME Inv, tick
    PROVE  Inv'
<1>ty. TypeOK
  BY DEF Inv
<1>rt. RankType
  BY DEF Inv, TypeOK
<1>ct. ChannelType
  BY DEF Inv, TypeOK
<1>pt. PolicyType
  BY DEF Inv, TypeOK
<1>ft. FundType
  BY DEF Inv, TypeOK
<1>le. LedgerInv
  BY DEF Inv
<1>ba. BallotInv
  BY DEF Inv
<1>0. RankType' /\ ChannelType' /\ PolicyType' /\ FundType'
  BY <1>rt, <1>ct, <1>pt, <1>ft, FrameTypes DEF tick
<1>1. TypeOK'
  BY SMTT(40), <1>ty, <1>0 DEF tick, TypeOK
<1>2. /\ frozen' <=> frozen
      /\ NoCheckFails' /\ SequenceInv' /\ BudgetInv' /\ QuotaInv'
      /\ DemandInv' /\ OnlyDonorShrinks'
  BY RankFrame DEF tick
<1>3. LedgerInv'
  BY <1>le, <1>2, FrameLedger DEF tick
<1>4. BallotInv'
  BY <1>ba, FrameBallot DEF tick
<1> QED
  BY <1>1, <1>2, <1>3, <1>4 DEF Inv

\* A rank publishes its floor, once, before the pools are frozen.
LEMMA PublishInitialBacking ==
    ASSUME Inv, NEW p \in Partitions, publish_initial_backing(p)
    PROVE  Inv'
<1>ty. TypeOK
  BY DEF Inv
<1>rt. RankType
  BY DEF Inv, TypeOK
<1>ct. ChannelType
  BY DEF Inv, TypeOK
<1>pt. PolicyType
  BY DEF Inv, TypeOK
<1>ft. FundType
  BY DEF Inv, TypeOK
<1>nc. NoCheckFails
  BY DEF Inv
<1>sq. SequenceInv
  BY DEF Inv
<1>le. LedgerInv
  BY DEF Inv
<1>ba. BallotInv
  BY DEF Inv
<1>bu. BudgetInv
  BY DEF Inv
<1>qu. QuotaInv
  BY DEF Inv
<1>de. DemandInv
  BY DEF Inv
<1>do. OnlyDonorShrinks
  BY DEF Inv
<1>1. ~frozen /\ ~frozen'
  BY <1>bu DEF publish_initial_backing, BudgetInv, Observed, frozen
<1>2. charged[p] \in Nat /\ charged[p] = Floor[p]
  BY ZenonT(40), <1>ty, RankTypes DEF publish_initial_backing
<1>3. TypeOK'
  <2>1. RankType' /\ PolicyType' /\ FundType'
    BY <1>rt, <1>ct, <1>pt, <1>ft, FrameTypes DEF publish_initial_backing
  <2>2. ChannelType'
    BY <1>ct, <1>2 DEF publish_initial_backing, ChannelType
  <2> QED
    BY <1>ty, <2>1, <2>2 DEF publish_initial_backing, TypeOK
<1>4. /\ UNCHANGED <<command, applied_sequences, operations, completed,
                     accepted, completion, active_quotas, limit, demand,
                     funding_attempt, failed, ballot, charged>>
      /\ UNCHANGED <<service_ceilings, pool_capacity_bytes>>
  BY DEF publish_initial_backing
<1>5. /\ NoCheckFails' /\ SequenceInv' /\ BallotInv' /\ QuotaInv' /\ DemandInv'
      /\ OnlyDonorShrinks'
  BY <1>nc, <1>sq, <1>ba, <1>qu, <1>de, <1>do, <1>1, <1>4, FrameSequence,
     FrameBallot, FrameQuota, FrameDemand, FrameDonor DEF NoCheckFails
<1>6. LedgerInv'
  <2> SUFFICES ASSUME NEW q \in Partitions PROVE RankLedger(q)'
    BY <1>le DEF LedgerInv
  <2>1. RankLedger(q) /\ CurrentQuota(q)' = CurrentQuota(q)
    BY <1>le, <1>1 DEF LedgerInv, CurrentQuota
  <2>2. initial_backing'[q] = IF q = p THEN Floor[p] ELSE initial_backing[q]
    BY <1>ct, <1>2 DEF publish_initial_backing, ChannelType
  <2>3. UNCHANGED <<limit, charged, retiring, completed, completion, command,
                    applied_sequences, operations>>
    BY <1>4 DEF publish_initial_backing
  <2>4. Floor[p] <= charged[p]
    BY SMTT(40), <1>2
  <2> QED
    BY <2>1, <2>2, <2>3, <2>4 DEF RankLedger
<1>7. BudgetInv'
  <2>1. Absent # Floor[p]
    BY SMTT(40), <1>2 DEF Absent
  <2> QED
    BY <1>bu, <1>ct, <1>1, <1>2, <2>1, GroupParts, PartitionOf
    DEF publish_initial_backing, BudgetInv, ChannelType
<1> QED
  BY <1>3, <1>5, <1>6, <1>7 DEF Inv

\* The AtnAgent measures the floors and nothing else: no grant exists yet.
LEMMA PublishDeviceMemory ==
    ASSUME Inv, NEW d \in Devices, publish_device_memory(d)
    PROVE  Inv'
<1>ty. TypeOK
  BY DEF Inv
<1>rt. RankType
  BY DEF Inv, TypeOK
<1>ct. ChannelType
  BY DEF Inv, TypeOK
<1>pt. PolicyType
  BY DEF Inv, TypeOK
<1>ft. FundType
  BY DEF Inv, TypeOK
<1>nc. NoCheckFails
  BY DEF Inv
<1>sq. SequenceInv
  BY DEF Inv
<1>le. LedgerInv
  BY DEF Inv
<1>ba. BallotInv
  BY DEF Inv
<1>bu. BudgetInv
  BY DEF Inv
<1>qu. QuotaInv
  BY DEF Inv
<1>de. DemandInv
  BY DEF Inv
<1>do. OnlyDonorShrinks
  BY DEF Inv
<1>1. ~frozen /\ ~frozen'
  BY <1>bu DEF publish_device_memory, BudgetInv, Observed, frozen
<1>2. \A g \in GroupsOn(d) : charged[<<g, d>>] = Floor[<<g, d>>]
  <2> SUFFICES ASSUME NEW g \in GroupsOn(d)
               PROVE  charged[<<g, d>>] = Floor[<<g, d>>]
    OBVIOUS
  <2>1. <<g, d>> \in Partitions
    BY PartitionOf
  <2>2. completed[<<g, d>>] = 0
    BY <1>ty, <1>sq, <1>1, <2>1, Unfrozen
  <2>3. charged[<<g, d>>] \in Nat /\ Floor[<<g, d>>] \in Nat
    BY <1>ty, <2>1, RankTypes
  <2>4. initial_backing[<<g, d>>] # Absent
    BY DEF publish_device_memory
  <2>5. /\ Floor[<<g, d>>] <= charged[<<g, d>>]
        /\ charged[<<g, d>>] = 0 \/ charged[<<g, d>>] = Floor[<<g, d>>]
    BY <1>le, <2>1, <2>2, <2>4 DEF LedgerInv, RankLedger
  <2> QED
    BY SMTT(40), <2>3, <2>5
<1>3. Sum(charged, d) = Sum(Floor, d)
  BY <1>2, SumSame
<1>4. DeviceTotal[d] \in Nat /\ DeviceOther[d] \in Nat /\ Sum(Floor, d) \in Nat
  BY ConstantTotals
<1>5. device_free' = [device_free EXCEPT ![d] =
                         DeviceTotal[d] - DeviceOther[d] - Sum(Floor, d)]
  BY <1>3 DEF publish_device_memory
<1>6. TypeOK'
  <2>1. RankType' /\ PolicyType' /\ FundType'
    BY <1>rt, <1>ct, <1>pt, <1>ft, FrameTypes DEF publish_device_memory
  <2>2. DeviceTotal[d] - DeviceOther[d] - Sum(Floor, d) \in Int
    BY SMTT(40), <1>4
  <2>3. device_free' \in [Devices -> Int]
    BY <1>ct, <1>5, <2>2 DEF ChannelType
  <2>4. ChannelType'
    BY <1>ct, <2>3 DEF publish_device_memory, ChannelType
  <2> QED
    BY <1>ty, <2>1, <2>4 DEF publish_device_memory, TypeOK
<1>7. UNCHANGED <<command, applied_sequences, operations, completed,
                  accepted, completion, active_quotas, limit, demand,
                  funding_attempt, failed, ballot, charged, retiring,
                  initial_backing, service_ceilings, pool_capacity_bytes>>
  BY DEF publish_device_memory
<1>8. /\ NoCheckFails' /\ SequenceInv' /\ LedgerInv' /\ BallotInv' /\ QuotaInv'
      /\ DemandInv' /\ OnlyDonorShrinks'
  BY <1>nc, <1>sq, <1>le, <1>ba, <1>qu, <1>de, <1>do, <1>1, <1>7, FrameSequence,
     FrameLedger, FrameBallot, FrameQuota, FrameDemand, FrameDonor DEF
     NoCheckFails
<1>9. BudgetInv'
  BY <1>ct, <1>bu, <1>1, <1>5, <1>7 DEF publish_device_memory, BudgetInv, ChannelType
<1> QED
  BY <1>6, <1>8, <1>9 DEF Inv

\* Accepting the group's command raises no error and replaces nothing unfinished.
LEMMA AcceptCommand ==
    ASSUME Inv, NEW P \in SUBSET Partitions, accept_command(P)
    PROVE  Inv'
<1>ty. TypeOK
  BY DEF Inv
<1>rt. RankType
  BY DEF Inv, TypeOK
<1>ct. ChannelType
  BY DEF Inv, TypeOK
<1>nc. NoCheckFails
  BY DEF Inv
<1>sq. SequenceInv
  BY DEF Inv
<1>le. LedgerInv
  BY DEF Inv
<1>ba. BallotInv
  BY DEF Inv
<1>bu. BudgetInv
  BY DEF Inv
<1>qu. QuotaInv
  BY DEF Inv
<1>de. DemandInv
  BY DEF Inv
<1>do. OnlyDonorShrinks
  BY DEF Inv
<1>1. ASSUME NEW p \in P PROVE ~command_invalid(p)
  <2>1. p \in Partitions /\ p[1] \in Groups
    BY PartitionParts
  <2>2. pending(p) => accepted[p].sequence = command[p[1]].sequence
    BY <1>ty, <1>sq, <2>1, PendingRank
  <2>3. /\ accepted[p].sequence \in Nat /\ completed[p] \in Nat
        /\ command[p[1]].sequence \in Nat
    BY <1>ty, <2>1, RankTypes
  <2>4. /\ accepted[p].sequence <= command[p[1]].sequence
        /\ accepted[p].sequence = command[p[1]].sequence
              => accepted[p].quota_bytes = command[p[1]].quota_bytes
    BY <1>sq, <2>1 DEF SequenceInv
  <2> QED
    BY SMTT(40), <2>2, <2>3, <2>4 DEF command_invalid, pending, newer
<1>2. /\ accepted' = [p \in Partitions |->
            IF p \in P /\ newer(p) THEN command[p[1]] ELSE accepted[p]]
      /\ UNCHANGED <<charged, limit, retiring, adopted, completed, ballot,
                     chunk, channelVars, daemonVars, now, failed>>
  BY ZenonT(40), <1>1 DEF accept_command
<1>3. ASSUME NEW p \in Partitions, newer(p)
      PROVE  ~pending(p) /\ ballot[p] = "none"
  <2>0. /\ pending(p) => accepted[p].sequence = command[p[1]].sequence
        /\ accepted[p].sequence \in Nat /\ command[p[1]].sequence > accepted[p].sequence
    BY <1>ty, <1>sq, <1>3, PendingRank, RankTypes DEF newer
  <2>1. ~pending(p)
    BY SMTT(40), <2>0
  <2> QED
    BY <1>ba, <2>1 DEF BallotInv
<1>4. TypeOK'
  <2>1. \A p \in Partitions : accepted'[p] \in Command(p[1])
    BY <1>rt, <1>ct, <1>2, PartitionParts DEF RankType, ChannelType
  <2>2. RankType'
    BY <1>rt, <1>2, <2>1 DEF RankType
  <2> QED
    BY <1>ty, <1>2, <2>2, RankStepTypes
<1>5. frozen' <=> frozen
  BY ZenonT(40), <1>2 DEF frozen
<1>6. SequenceInv'
  <2>1. \A g \in Groups :
          /\ command'[g].sequence =
                applied_sequences'[g] + (IF g \in operations' THEN 1 ELSE 0)
          /\ command'[g].sequence > 0 => frozen'
    BY <1>sq, <1>2, <1>5 DEF SequenceInv
  <2>2. ASSUME NEW p \in Partitions
        PROVE  /\ applied_sequences[p[1]] <= completed[p]
               /\ completed[p] <= accepted'[p].sequence
               /\ accepted'[p].sequence <= command[p[1]].sequence
               /\ accepted'[p].sequence = command[p[1]].sequence
                     => accepted'[p].quota_bytes = command[p[1]].quota_bytes
               /\ completion[p].sequence = completed[p]
    <3>1. accepted'[p] = IF p \in P /\ newer(p) THEN command[p[1]] ELSE accepted[p]
      BY <1>2
    <3>2. completed[p] \in Nat /\ command[p[1]].sequence \in Nat
      BY <1>ty, RankTypes
    <3> QED
      BY SMTT(40), <1>sq, <3>1, <3>2 DEF SequenceInv, newer
  <2> QED
    BY <1>2, <2>1, <2>2 DEF SequenceInv
<1>7. /\ NoCheckFails' /\ LedgerInv' /\ QuotaInv' /\ DemandInv'
      /\ OnlyDonorShrinks' /\ BudgetInv'
  BY <1>nc, <1>le, <1>bu, <1>qu, <1>de, <1>do, <1>2, <1>5, FramePermission,
     FrameLedger, FrameQuota, FrameBudget, FrameDemand, FrameDonor DEF
     NoCheckFails
<1>8. BallotInv'
  BY <1>ba, <1>2, <1>3, RankParts, PartitionParts DEF BallotInv, pending
<1> QED
  BY <1>4, <1>6, <1>7, <1>8 DEF Inv

\* An adopting rank passes every check of set_limit and publish_completion.
LEMMA Adopt ==
    ASSUME Inv, NEW p \in Partitions, adopt(p)
    PROVE  Inv'
<1>ty. TypeOK
  BY DEF Inv
<1>rt. RankType
  BY DEF Inv, TypeOK
<1>ct. ChannelType
  BY DEF Inv, TypeOK
<1>pt. PolicyType
  BY DEF Inv, TypeOK
<1>ft. FundType
  BY DEF Inv, TypeOK
<1>nc. NoCheckFails
  BY DEF Inv
<1>sq. SequenceInv
  BY DEF Inv
<1>le. LedgerInv
  BY DEF Inv
<1>ba. BallotInv
  BY DEF Inv
<1>bu. BudgetInv
  BY DEF Inv
<1>qu. QuotaInv
  BY DEF Inv
<1>de. DemandInv
  BY DEF Inv
<1>do. OnlyDonorShrinks
  BY DEF Inv
<1>1. pending(p) /\ charged[p] <= accepted[p].quota_bytes[p[2]]
  BY <1>ba DEF adopt, BallotInv
<1>2. /\ accepted[p].sequence = command[p[1]].sequence
      /\ accepted[p].quota_bytes = command[p[1]].quota_bytes
      /\ completed[p] = applied_sequences[p[1]] /\ p[1] \in operations
      /\ command[p[1]].sequence = applied_sequences[p[1]] + 1 /\ frozen
  BY <1>ty, <1>sq, <1>1, PendingRank
<1> DEFINE q == command[p[1]].quota_bytes
           s == command[p[1]].sequence
<1>3. /\ charged[p] \in Nat /\ q[p[2]] \in Nat /\ s \in Nat
      /\ completed[p] \in Nat /\ completed[p] < s /\ s # 0
      /\ completion[p].sequence = completed[p] /\ Floor[p] \in Nat
  <2>1. /\ charged[p] \in Nat /\ command[p[1]].quota_bytes[p[2]] \in Nat
        /\ command[p[1]].sequence \in Nat /\ completed[p] \in Nat
        /\ applied_sequences[p[1]] \in Nat /\ Floor[p] \in Nat
    BY <1>ty, RankTypes
  <2>2. completion[p].sequence = completed[p]
    BY <1>sq DEF SequenceInv
  <2> QED
    BY SMTT(40), <1>2, <2>1, <2>2
<1>4. Floor[p] <= charged[p] /\ charged[p] <= q[p[2]]
  BY <1>le, <1>bu, <1>1, <1>2 DEF BudgetInv, Observed, LedgerInv, RankLedger
<1>5. /\ limit' = [limit EXCEPT ![p] = q[p[2]]]
      /\ adopted' = [adopted EXCEPT ![p] = q]
      /\ completion' = [completion EXCEPT ![p] =
            [sequence |-> s, backed_bytes |-> charged[p]]]
      /\ completed' = [completed EXCEPT ![p] = s]
      /\ ballot' = [ballot EXCEPT ![p] = "none"]
      /\ UNCHANGED <<charged, retiring, accepted, chunk, startVars, command,
                     demand, daemonVars, now, failed>>
  <2>1. ~ \/ accepted[p].quota_bytes[p[2]] < charged[p]
          \/ command[p[1]].sequence # accepted[p].sequence
          \/ completion[p].sequence >= accepted[p].sequence
    <3>1. /\ charged[p] <= q[p[2]] /\ completion[p].sequence < s
          /\ completion[p].sequence \in Nat
      BY <1>1, <1>2, <1>3
    <3> QED
      BY SMTT(40), <1>2, <1>3, <3>1
  <2> QED
    BY ZenonT(40), <1>2, <2>1 DEF adopt
<1>6. p[1] \in Groups /\ q \in Vector(p[1])
  BY <1>ct, PartitionParts DEF ChannelType, Command
<1> HIDE DEF q, s
<1>7. TypeOK'
  <2>1. adopted'[p] \in Vector(p[1])
    BY <1>rt, <1>5, <1>6 DEF RankType
  <2>2. \A r \in Partitions \ {p} : adopted'[r] = adopted[r]
    BY <1>rt, <1>5 DEF RankType
  <2>3. /\ DOMAIN adopted' = Partitions
        /\ \A r \in Partitions : adopted'[r] \in Vector(r[1])
    BY <1>rt, <1>5, <2>1, <2>2 DEF RankType
  <2>4. RankType'
    BY <1>rt, <1>3, <1>5, <2>3 DEF RankType
  <2>5. ChannelType'
    BY <1>ct, <1>3, <1>5 DEF ChannelType
  <2>6. PolicyType' /\ FundType'
    BY <1>rt, <1>ct, <1>pt, <1>ft, <1>5, FrameTypes
  <2> QED
    BY <1>ty, <1>5, <2>4, <2>5, <2>6 DEF TypeOK
<1>8. frozen' <=> frozen
  BY <1>5 DEF frozen
<1>9. SequenceInv'
  BY ZenonT(40), <1>ty, <1>rt, <1>ct, <1>sq, <1>2, <1>3, <1>5, <1>8, RankTypes
     DEF SequenceInv, RankType, ChannelType, s
<1>10. /\ NoCheckFails' /\ QuotaInv' /\ OnlyDonorShrinks' /\ BudgetInv'
  BY ZenonT(40), <1>nc, <1>bu, <1>qu, <1>do, <1>5, <1>8, FramePermission,
     FrameQuota, FrameBudget, FrameDonor DEF NoCheckFails
<1>11. LedgerInv'
  <2>1. RankLedger(p)'
    <3>1. /\ limit'[p] = q[p[2]] /\ completed'[p] = s
          /\ completion'[p].backed_bytes = charged[p]
      BY <1>rt, <1>ct, <1>5 DEF RankType, ChannelType
    <3>2. /\ retiring[p] \in Nat /\ applied_sequences[p[1]] # s
          /\ command[p[1]].sequence = s /\ command[p[1]].quota_bytes = q
      <4>1. retiring[p] \in Nat /\ applied_sequences[p[1]] \in Nat
        BY <1>ty, RankTypes
      <4> QED
        BY SMTT(40), <1>2, <4>1 DEF q, s
    <3>3. UNCHANGED <<charged, retiring, command, applied_sequences,
                      initial_backing, operations>>
      BY <1>5
    <3>4. RankLedger(p)
      BY <1>le DEF LedgerInv
    <3> QED
      BY ZenonT(40), <3>1, <3>2, <3>3, <3>4, <1>3, <1>4 DEF RankLedger
  <2>2. ASSUME NEW r \in Partitions \ {p} PROVE RankLedger(r)'
    <3>1. /\ limit'[r] = limit[r] /\ completed'[r] = completed[r]
          /\ completion'[r] = completion[r]
      BY <1>rt, <1>ct, <1>5 DEF RankType, ChannelType
    <3> QED
      BY ZenonT(40), <1>le, <3>1, <1>5, <1>8 DEF LedgerInv, RankLedger, CurrentQuota
  <2> QED
    BY <1>le, <2>1, <2>2 DEF LedgerInv
<1>12. BallotInv'
  <2> SUFFICES ASSUME NEW r \in Partitions
               PROVE  /\ ballot'[r] # "none" => pending(r)'
                      /\ ballot'[r] \in {"ready", "adopt"} =>
                            charged'[r] <= accepted'[r].quota_bytes[r[2]]
                      /\ ballot'[r] = "adopt" => \A x \in Ranks(r[1]) :
                            ballot'[x] = "adopt" \/ completed'[x] = command'[r[1]].sequence
                      /\ \A x \in Ranks(r[1]) :
                            completed'[r] < completed'[x] => ballot'[r] = "adopt"
    BY <1>ba DEF BallotInv
  <2>1. \A x \in Ranks(r[1]) : x \in Partitions /\ x[1] = r[1] /\ completed[x] \in Nat
    BY <1>ty, RankParts, RankTypes, PartitionParts
  <2>2. ASSUME NEW x \in Partitions, x[1] = p[1]
        PROVE  x \in Ranks(p[1]) /\ completed[x] <= s
    <3>1. /\ x \in Ranks(p[1]) /\ completed[x] <= accepted[x].sequence
          /\ accepted[x].sequence <= command[p[1]].sequence
      BY <1>sq, <2>2, PartitionParts DEF Ranks, SequenceInv
    <3>2. /\ completed[x] \in Nat /\ accepted[x].sequence \in Nat
          /\ command[p[1]].sequence \in Nat
      BY <1>ty, RankTypes
    <3> QED
      BY SMTT(40), <3>1, <3>2 DEF s
  <2>3. ballot[p] = "adopt"
    BY DEF adopt
  <2>4. CASE r = p
    <3>1. ballot'[r] = "none" /\ completed'[r] = s
      BY <1>rt, <2>4, <1>5 DEF RankType
    <3>2. \A x \in Ranks(r[1]) : completed'[x] \in Nat /\ completed'[x] <= s
      <4> SUFFICES ASSUME NEW x \in Ranks(r[1])
                   PROVE  completed'[x] \in Nat /\ completed'[x] <= s
        OBVIOUS
      <4>1. completed'[p] = s
        BY <1>rt, <1>5 DEF RankType
      <4>2. x # p => completed'[x] = completed[x]
        BY <1>rt, <2>1, <1>5 DEF RankType
      <4>3. x \in Partitions /\ completed[x] \in Nat /\ completed[x] <= s
        BY <2>1, <2>2, <2>4
      <4> QED
        BY SMTT(40), <4>1, <4>2, <4>3, <1>3
    <3> QED
      BY SMTT(40), <3>1, <3>2, <1>3
  <2>5. CASE r # p
    <3>1. ballot'[r] = ballot[r] /\ completed'[r] = completed[r]
      BY ZenonT(40), <1>rt, <2>5, <1>5 DEF RankType
    <3>2. \A x \in Ranks(r[1]) : x # p => ballot'[x] = ballot[x] /\ completed'[x] = completed[x]
      BY ZenonT(40), <1>rt, <2>1, <1>5 DEF RankType
    <3>3. p \in Ranks(r[1]) => r \in Ranks(p[1]) /\ r[1] = p[1]
      BY <2>1, <2>2
    <3>4. ballot'[p] = "none" /\ completed'[p] = s
      BY <1>rt, <1>5 DEF RankType
    <3>5. \A x \in Ranks(r[1]) : completed'[r] < completed'[x] => ballot'[r] = "adopt"
      BY ZenonT(40), <1>ba, <3>1, <3>2, <3>3, <3>4, <2>1, <2>2, <2>3, <1>3 DEF
         BallotInv, s
    <3> QED
      BY ZenonT(40), <1>ba, <3>1, <3>2, <3>3, <3>4, <3>5, <1>5 DEF BallotInv, pending, s
  <2> QED
    BY ZenonT(40), <2>4, <2>5
<1>13. DemandInv'
  <2>1. p \in Ranks(p[1]) /\ demand[p[1]].sequence <= completed[p]
    BY <1>de, <1>6, PartitionParts DEF Ranks, DemandInv
  <2>2. demand[p[1]].sequence \in Nat /\ demand[p[1]].sequence < s
    <3>1. demand[p[1]].sequence \in Nat /\ completed[p] \in Nat
      BY <1>ty, RankTypes
    <3> QED
      BY SMTT(40), <3>1, <2>1, <1>3
  <2>3. ASSUME NEW x \in Partitions
        PROVE  completed[x] \in Nat /\ completed[x] <= completed'[x]
    <3>1. completed[x] \in Nat
      BY <1>ty, RankTypes
    <3>2. CASE x = p
      <4>1. completed'[p] = s
        BY <1>rt, <1>5 DEF RankType
      <4> QED
        BY SMTT(40), <3>2, <4>1, <1>3
    <3>3. CASE x # p
      <4>1. completed'[x] = completed[x]
        BY <1>rt, <3>3, <1>5 DEF RankType
      <4> QED
        BY SMTT(40), <3>1, <4>1
    <3> QED
      BY <3>1, <3>2, <3>3
  <2>4. \A g \in Groups : \A d \in DevicesOf[g] :
           g # p[1] => limit'[<<g, d>>] = limit[<<g, d>>]
    <3> SUFFICES ASSUME NEW g \in Groups, NEW d \in DevicesOf[g], g # p[1]
                 PROVE  limit'[<<g, d>>] = limit[<<g, d>>]
      OBVIOUS
    <3>1. <<g, d>> \in Partitions /\ <<g, d>> # p
      BY SMTT(40), GroupParts
    <3> QED
      BY <1>rt, <3>1, <1>5 DEF RankType
  <2>5. ASSUME NEW g \in Groups, NEW x \in Ranks(g)
        PROVE  demand[g].sequence <= completed'[x]
    <3>1. x \in Partitions /\ x[1] = g
      BY RankParts
    <3>2. /\ demand[g].sequence \in Nat /\ completed[x] \in Nat
          /\ completed'[x] \in Nat /\ demand[g].sequence <= completed[x]
      <4>1. demand[g].sequence \in Nat /\ completed[x] \in Nat
        BY <1>ty, <3>1, RankTypes
      <4>2. completed'[x] \in Nat
        BY <3>1, <1>7 DEF TypeOK, RankType
      <4> QED
        BY <1>de, <4>1, <4>2 DEF DemandInv
    <3>3. completed[x] <= completed'[x]
      BY <3>1, <2>3
    <3> QED
      BY SMTT(40), <3>2, <3>3
  <2>6. UNCHANGED <<demand, applied_sequences, active_quotas, command>>
    BY <1>5
  <2>7. ASSUME NEW g \in Groups, present(demand[g]), NEW d \in DevicesOf[g],
               demand[g].sequence = command[g].sequence
        PROVE  limit'[<<g, d>>] <= demand[g].required[d]
    <3>1. g # p[1]
      BY SMTT(40), <2>2, <2>7 DEF s
    <3> QED
      BY <1>de, <2>4, <2>7, <3>1 DEF DemandInv
  <2> QED
    BY <1>de, <2>5, <2>6, <2>7 DEF DemandInv
<1> QED
  BY <1>7, <1>9, <1>10, <1>11, <1>12, <1>13 DEF Inv

\* Ranks that serve have all completed the same command.
LEMMA ServingAgrees ==
    ASSUME Inv, NEW g \in Groups, serving(g), NEW p \in Ranks(g), NEW r \in Ranks(g)
    PROVE  completed[p] = completed[r]
<1>ty. TypeOK
  BY DEF Inv
<1>ba. BallotInv
  BY DEF Inv
<1>1. /\ p \in Partitions /\ p[1] = g /\ ballot[p] = "none" /\ completed[p] \in Nat
      /\ r \in Partitions /\ r[1] = g /\ ballot[r] = "none" /\ completed[r] \in Nat
  BY <1>ty, RankParts, RankTypes DEF serving, idle
<1>2. ~(completed[p] < completed[r]) /\ ~(completed[r] < completed[p])
  BY <1>ba, <1>1 DEF BallotInv
<1> QED
  BY SMTT(40), <1>1, <1>2

\* A publication of the leader never goes back, and never asks for less than
\* its ranks hold.
LEMMA FinishScheduling ==
    ASSUME Inv, NEW g \in Groups, finish_scheduling(g)
    PROVE  Inv'
<1>ty. TypeOK
  BY DEF Inv
<1>rt. RankType
  BY DEF Inv, TypeOK
<1>ct. ChannelType
  BY DEF Inv, TypeOK
<1>pt. PolicyType
  BY DEF Inv, TypeOK
<1>ft. FundType
  BY DEF Inv, TypeOK
<1>nc. NoCheckFails
  BY DEF Inv
<1>sq. SequenceInv
  BY DEF Inv
<1>le. LedgerInv
  BY DEF Inv
<1>ba. BallotInv
  BY DEF Inv
<1>bu. BudgetInv
  BY DEF Inv
<1>qu. QuotaInv
  BY DEF Inv
<1>de. DemandInv
  BY DEF Inv
<1>do. OnlyDonorShrinks
  BY DEF Inv
<1>1. PICK p \in Ranks(g) : \E m \in Publications(g, completed[p]) :
         IF demand[g].sequence > m.sequence
         THEN failed' = TRUE /\ UNCHANGED demand
         ELSE demand' = [demand EXCEPT ![g] = m] /\ UNCHANGED failed
  BY DEF finish_scheduling
<1>2. PICK m \in Publications(g, completed[p]) :
         IF demand[g].sequence > m.sequence
         THEN failed' = TRUE /\ UNCHANGED demand
         ELSE demand' = [demand EXCEPT ![g] = m] /\ UNCHANGED failed
  BY <1>1
<1>3. /\ p \in Partitions /\ p[1] = g /\ completed[p] \in Nat /\ completed[p] # 0
      /\ serving(g) /\ demand[g].sequence \in Nat
      /\ demand[g].sequence <= completed[p]
  BY ZenonT(40), <1>ty, <1>de, RankParts, RankTypes DEF finish_scheduling,
     serving, DemandInv
<1>4. frozen
  BY ZenonT(40), <1>ty, <1>sq, <1>3, Unfrozen
<1>5. /\ m.sequence = completed[p] /\ m \in Demand(g)
      /\ present(m) => \A d \in DevicesOf[g] : limit[<<g, d>>] <= m.required[d]
  <2>1. CASE m = [sequence |-> completed[p], required |-> Zero(g), deadline |-> Absent]
    BY <2>1, <1>3 DEF Demand, Vector, Zero, present
  <2>2. CASE \E v \in Witnesses(g) : \E t \in 0 .. now :
                m = [sequence |-> completed[p], required |-> v, deadline |-> t + TtftBudget]
    <3>1. PICK v \in Witnesses(g), t \in 0 .. now :
             m = [sequence |-> completed[p], required |-> v, deadline |-> t + TtftBudget]
      BY <2>2
    <3>2. t + TtftBudget \in Nat
      <4>1. t \in 0 .. now /\ now \in Nat
        BY DEF Inv, TypeOK
      <4> QED
        BY SMTT(40), <4>1, SizeAssumption
    <3>3. /\ v \in [DevicesOf[g] -> UNION {0 .. service_ceilings[g][d] : d \in DevicesOf[g]}]
          /\ \A d \in DevicesOf[g] : limit[<<g, d>>] <= v[d]
      BY DEF Witnesses
    <3>4. v \in Vector(g)
      BY SMTT(40), <1>pt, <3>3 DEF Vector, PolicyType
    <3> QED
      BY ZenonT(40), <3>1, <3>2, <3>3, <3>4, <1>3 DEF Demand
  <2> QED
    <3>1. CASE m = [sequence |-> completed[p], required |-> Zero(g), deadline |-> Absent]
      BY <2>1, <3>1
    <3>2. CASE m # [sequence |-> completed[p], required |-> Zero(g), deadline |-> Absent]
      <4>1. \E v \in Witnesses(g) : \E t \in 0 .. now :
               m = [sequence |-> completed[p], required |-> v, deadline |-> t + TtftBudget]
        BY SMTT(40), <3>2 DEF Publications
      <4> QED
        BY <4>1, <2>2
    <3> QED
      BY <3>1, <3>2
<1>6. /\ demand' = [demand EXCEPT ![g] = m]
      /\ UNCHANGED <<rankVars, startVars, command, completion, daemonVars, now, failed>>
  <2>1. ~(demand[g].sequence > m.sequence)
    BY SMTT(40), <1>3, <1>5
  <2> QED
    BY <1>2, <2>1 DEF finish_scheduling
<1>7. TypeOK'
  <2>1. /\ DOMAIN demand' = Groups
        /\ \A x \in Groups : demand'[x] \in Demand(x)
    BY <1>ct, <1>5, <1>6 DEF ChannelType
  <2>2. RankType' /\ PolicyType' /\ FundType'
    BY <1>rt, <1>ct, <1>pt, <1>ft, <1>6, FrameTypes
  <2>3. ChannelType'
    BY <1>ct, <1>6, <2>1 DEF ChannelType
  <2> QED
    BY <1>ty, <1>6, <2>2, <2>3 DEF TypeOK
<1>8. /\ NoCheckFails' /\ SequenceInv' /\ LedgerInv' /\ BallotInv' /\ BudgetInv'
      /\ QuotaInv' /\ OnlyDonorShrinks'
  <2>1. frozen' <=> frozen
    BY <1>6 DEF frozen
  <2> QED
    BY <1>nc, <1>sq, <1>le, <1>ba, <1>bu, <1>qu, <1>do, <1>6, <2>1,
       FramePermission, FrameSequence, FrameLedger, FrameBallot, FrameBudget,
       FrameQuota, FrameDonor DEF NoCheckFails
<1>9. DemandInv'
  <2>1. \A r \in Ranks(g) : completed[r] = completed[p]
    BY <1>3, ServingAgrees
  <2>2. ASSUME NEW d \in DevicesOf[g], present(m), m.sequence = applied_sequences[g]
        PROVE  active_quotas[g][d] <= m.required[d]
    <3>1. <<g, d>> \in Ranks(g) /\ <<g, d>> \in Partitions
      BY GroupParts
    <3>2. limit[<<g, d>>] = active_quotas[g][d]
      BY <1>le, <1>4, <1>5, <2>1, <2>2, <3>1 DEF LedgerInv, RankLedger, CurrentQuota
    <3> QED
      BY <1>5, <2>2, <3>2
  <2>3. demand'[g] = m /\ \A x \in Groups \ {g} : demand'[x] = demand[x]
    BY <1>ct, <1>6 DEF ChannelType
  <2>4. UNCHANGED <<completed, applied_sequences, active_quotas, command, limit>>
    BY <1>6
  <2> SUFFICES ASSUME NEW x \in Groups
               PROVE  /\ \A r \in Ranks(x) : demand'[x].sequence <= completed[r]
                      /\ present(demand'[x]) => demand'[x].sequence > 0
                      /\ present(demand'[x]) => \A d \in DevicesOf[x] :
                            /\ demand'[x].sequence = applied_sequences[x]
                                  => active_quotas[x][d] <= demand'[x].required[d]
                            /\ demand'[x].sequence = command[x].sequence
                                  => limit[<<x, d>>] <= demand'[x].required[d]
    BY <2>4 DEF DemandInv, present
  <2>5. CASE x = g
    <3>1. demand'[x] = m /\ m.sequence > 0 /\ \A r \in Ranks(x) : m.sequence <= completed[r]
      BY SMTT(40), <1>3, <1>5, <2>1, <2>3, <2>5
    <3> QED
      BY <1>5, <2>2, <2>5, <3>1
  <2>6. CASE x # g
    BY <1>de, <2>3, <2>6 DEF DemandInv
  <2> QED
    BY <2>5, <2>6
<1> QED
  BY <1>7, <1>8, <1>9 DEF Inv

\* Freezing hands every group its floor, which the budget covers.
LEMMA FreezePools ==
    ASSUME Inv, freeze_pools
    PROVE  Inv'
<1>ty. TypeOK
  BY DEF Inv
<1>nc. NoCheckFails
  BY DEF Inv
<1>sq. SequenceInv
  BY DEF Inv
<1>le. LedgerInv
  BY DEF Inv
<1>ba. BallotInv
  BY DEF Inv
<1>bu. BudgetInv
  BY DEF Inv
<1>qu. QuotaInv
  BY DEF Inv
<1>de. DemandInv
  BY DEF Inv
<1>do. OnlyDonorShrinks
  BY DEF Inv
<1>1. ~frozen /\ Observed
  BY DEF freeze_pools, frozen
<1>2. \A p \in Partitions : initial_backing[p] = Floor[p]
  BY <1>le, <1>1 DEF Observed, LedgerInv, RankLedger
<1>3. \A p \in Partitions :
         /\ command[p[1]].sequence = 0 /\ applied_sequences[p[1]] = 0
         /\ p[1] \notin operations /\ completed[p] = 0 /\ accepted[p].sequence = 0
         /\ demand[p[1]].sequence = 0
  BY <1>ty, <1>sq, <1>de, <1>1, Unfrozen
<1>4. \A g \in Groups :
         /\ command[g].sequence = 0 /\ applied_sequences[g] = 0
         /\ g \notin operations /\ demand[g].sequence = 0
  BY SMTT(40), <1>3, SomeRank
<1>5. UNCHANGED <<rankVars, startVars, command, completion, demand,
                  grantVars, fundVars, now>>
  BY DEF freeze_pools
<1>6. SequenceInv' /\ BallotInv' /\ failed' = failed
  <2>1. SequenceInv'
    BY SMTT(40), <1>sq, <1>4, <1>5 DEF SequenceInv
  <2>2. failed' = failed
    BY <1>2 DEF freeze_pools
  <2> QED
    BY <1>ba, <1>5, <2>1, <2>2, FrameBallot
<1>7. CASE step' = "rejected" /\ UNCHANGED poolVars
  <2>1. ~frozen'
    BY <1>7 DEF frozen
  <2>2. TypeOK'
    BY <1>ty, <1>5, <1>6, <1>7 DEF TypeOK, RankType, ChannelType, PolicyType,
       FundType, Steps
  <2>3. UNCHANGED permission
    BY <1>5, <1>7, FramePermission
  <2> QED
    BY <1>nc, <1>le, <1>bu, <1>qu, <1>de, <1>do, <1>1, <1>5, <1>6, <1>7, <2>1,
       <2>2, <2>3, FrameLedger, FrameBudget, FrameQuota, FrameDemand, FrameDonor
       DEF NoCheckFails, Inv
<1>8. CASE /\ step' = "dispatch"
           /\ ~ \E d \in Devices : budget(d) < Sum(Floor, d)
           /\ pool_capacity_bytes' = [d \in Devices |-> budget(d)]
           /\ active_quotas' = [g \in Groups |-> FloorOf(g)]
           /\ service_ceilings' =
                 [g \in Groups |-> service_ceiling(g, pool_capacity_bytes')]
  <2>1. frozen'
    BY <1>8 DEF frozen
  <2>2. ASSUME NEW d \in Devices
        PROVE  /\ budget(d) = DeviceTotal[d] - DeviceOther[d] - Reserve(d)
               /\ budget(d) \in Int /\ Sum(Floor, d) <= budget(d)
    <3>1. Sum(initial_backing, d) = Sum(Floor, d)
      BY <1>2, PartitionOf, SumSame
    <3>2. device_free[d] = DeviceTotal[d] - DeviceOther[d] - Sum(Floor, d)
      BY <1>bu, <1>1 DEF BudgetInv, Observed
    <3>3. /\ budget(d) = DeviceTotal[d] - DeviceOther[d] - Reserve(d)
          /\ budget(d) \in Int
      BY SMTT(40), <3>1, <3>2, ConstantTotals DEF budget
    <3> QED
      BY SMTT(40), <1>8, <3>3, ConstantTotals
  <2>3. ASSUME NEW g \in Groups, NEW d \in DevicesOf[g]
        PROVE  /\ d \in Devices /\ <<g, d>> \in Partitions
               /\ active_quotas'[g][d] = Floor[<<g, d>>] /\ Floor[<<g, d>>] \in Nat
               /\ service_ceilings'[g][d] \in Int
               /\ Floor[<<g, d>>] <= service_ceilings'[g][d]
    <3>1. d \in Devices /\ <<g, d>> \in Partitions /\ Floor[<<g, d>>] \in Nat
      BY <1>ty, GroupParts, RankTypes
    <3>2. pool_capacity_bytes'[d] = budget(d)
      BY <1>8, <3>1
    <3> QED
      BY <1>8, <2>2, <3>1, <3>2, CeilingBounds DEF FloorOf
  <2>4. TypeOK'
    <3>1. pool_capacity_bytes' \in [Devices -> Int]
      BY <1>8, <2>2
    <3>2. /\ DOMAIN active_quotas' = Groups
          /\ \A g \in Groups : active_quotas'[g] \in Vector(g)
      BY <1>8, <2>3 DEF FloorOf, Vector
    <3>3. /\ DOMAIN service_ceilings' = Groups
          /\ \A g \in Groups : service_ceilings'[g] \in [DevicesOf[g] -> Int]
      BY <1>8, <2>3 DEF service_ceiling
    <3> QED
      BY <1>ty, <1>5, <1>6, <1>8, <3>1, <3>2, <3>3 DEF TypeOK, RankType,
         ChannelType, PolicyType, FundType, Steps
  <2>5. ASSUME NEW p \in Partitions
        PROVE  active_quotas'[p[1]][p[2]] = Floor[p] /\ permission'[p] = Floor[p]
    <3>1. active_quotas'[p[1]][p[2]] = Floor[p]
      BY SMTT(40), <2>3, PartitionParts
    <3> QED
      BY <3>1, <1>3, <1>5 DEF permission
  <2>6. LedgerInv'
    BY <1>le, <1>1, <1>3, <1>5, <2>1, <2>5 DEF LedgerInv, RankLedger, CurrentQuota
  <2>7. BudgetInv'
    <3>1. \A d \in Devices : Sum(permission', d) = Sum(Floor, d)
      BY <2>5, PartitionOf, SumSame
    <3>2. \A d \in Devices :
             /\ pool_capacity_bytes'[d] = DeviceTotal[d] - DeviceOther[d] - Reserve(d)
             /\ Sum(Floor, d) <= pool_capacity_bytes'[d]
             /\ pool_capacity_bytes'[d] \in Int /\ Sum(Floor, d) \in Nat
      BY <1>8, <2>2, ConstantTotals
    <3>3. \A d \in Devices : Extra(d)' \in Nat
      <4> SUFFICES ASSUME NEW d \in Devices PROVE Extra(d)' \in Nat
        OBVIOUS
      <4>0. /\ Sum(Floor, d) <= pool_capacity_bytes'[d]
            /\ pool_capacity_bytes'[d] \in Int /\ Sum(Floor, d) \in Nat
        BY <3>2
      <4>1. pool_capacity_bytes'[d] - Sum(Floor, d) \in Nat
        BY SMTT(40), <4>0
      <4> QED
        BY <4>1, ShareBound, InstanceCount DEF Extra
    <3>4. ASSUME NEW p \in Partitions
          PROVE  permission'[p] <= Floor[p] + Extra(p[2])'
      <4>1. permission'[p] = Floor[p] /\ Floor[p] \in Nat /\ Extra(p[2])' \in Nat
        BY <1>ty, <3>3, <2>5, PartitionParts, RankTypes
      <4> QED
        BY SMTT(40), <4>1
    <3> QED
      BY <1>bu, <1>1, <1>5, <3>1, <3>2, <3>4 DEF BudgetInv, Observed
  <2>8. QuotaInv'
    <3>1. \A g \in Groups : /\ active_quotas'[g] = FloorOf(g)
                            /\ service_ceilings'[g] = service_ceiling(g, pool_capacity_bytes')
      BY <1>8
    <3>2. \A g \in Groups : g \notin operations'
      BY <1>4, <1>5
    <3>3. ASSUME NEW g \in Groups, NEW d \in DevicesOf[g]
          PROVE  /\ Floor[<<g, d>>] <= active_quotas'[g][d]
                 /\ active_quotas'[g][d] <= service_ceilings'[g][d]
      <4>1. /\ active_quotas'[g][d] = Floor[<<g, d>>] /\ Floor[<<g, d>>] \in Nat
            /\ Floor[<<g, d>>] <= service_ceilings'[g][d]
        BY <2>3
      <4> QED
        BY SMTT(40), <4>1
    <3> QED
      BY <3>1, <3>2, <3>3 DEF QuotaInv
  <2>9. DemandInv'
    <3>1. \A g \in Groups : ~ present(demand[g])
      <4> SUFFICES ASSUME NEW g \in Groups, present(demand[g]) PROVE FALSE
        OBVIOUS
      <4>1. demand[g].sequence > 0
        BY <1>de DEF DemandInv
      <4>2. demand[g].sequence = 0
        BY <1>4
      <4> QED
        BY SMTT(40), <4>1, <4>2
    <3> QED
      BY <1>de, <1>5, <3>1 DEF DemandInv
  <2>10. OnlyDonorShrinks'
    BY <1>do, <1>4, <1>5 DEF OnlyDonorShrinks
  <2> QED
    BY <1>nc, <1>6, <2>4, <2>6, <2>7, <2>8, <2>9, <2>10 DEF NoCheckFails, Inv
<1>9. (step' = "rejected" /\ UNCHANGED poolVars) \/
           /\ step' = "dispatch"
           /\ ~ \E d \in Devices : budget(d) < Sum(Floor, d)
           /\ pool_capacity_bytes' = [d \in Devices |-> budget(d)]
           /\ active_quotas' = [g \in Groups |-> FloorOf(g)]
           /\ service_ceilings' =
                 [g \in Groups |-> service_ceiling(g, pool_capacity_bytes')]
  BY <1>2 DEF freeze_pools
<1> QED
  BY <1>7, <1>8, <1>9 DEF Inv

\* Crediting a completed operation passes its checks and frees permission.
LEMMA RetireOperations ==
    ASSUME Inv, retire_operations
    PROVE  Inv'
<1>ty. TypeOK
  BY DEF Inv
<1>ct. ChannelType
  BY DEF Inv, TypeOK
<1>pt. PolicyType
  BY DEF Inv, TypeOK
<1>ft. FundType
  BY DEF Inv, TypeOK
<1>nc. NoCheckFails
  BY DEF Inv
<1>sq. SequenceInv
  BY DEF Inv
<1>le. LedgerInv
  BY DEF Inv
<1>ba. BallotInv
  BY DEF Inv
<1>bu. BudgetInv
  BY DEF Inv
<1>qu. QuotaInv
  BY DEF Inv
<1>de. DemandInv
  BY DEF Inv
<1>do. OnlyDonorShrinks
  BY DEF Inv
<1>1. ASSUME NEW g \in Retired
      PROVE  /\ g \in Groups /\ g \in operations
             /\ command[g].sequence = applied_sequences[g] + 1
             /\ applied_sequences[g] \in Nat
  BY <1>ct, <1>pt, <1>sq DEF Retired, SequenceInv, ChannelType, PolicyType
<1>2. ASSUME NEW g \in Retired, NEW p \in Ranks(g)
      PROVE  /\ p \in Partitions /\ p[1] = g /\ completed[p] = command[g].sequence
             /\ limit[p] = command[g].quota_bytes[p[2]]
             /\ Floor[p] <= completion[p].backed_bytes
             /\ completion[p].backed_bytes <= command[g].quota_bytes[p[2]]
  <2>1. p \in Partitions /\ p[1] = g
    BY <1>1, RankParts
  <2>2. completed[p] = command[g].sequence
    BY <1>sq, <2>1 DEF Retired, SequenceInv
  <2>3. RankLedger(p)
    BY <1>le, <2>1 DEF LedgerInv
  <2>4. /\ Floor[p] <= completion[p].backed_bytes
        /\ completion[p].backed_bytes <= command[g].quota_bytes[p[2]]
    BY <1>1, <2>1, <2>2, <2>3 DEF RankLedger
  <2>5. completed[p] # applied_sequences[p[1]]
    <3>1. \A n \in Nat : n + 1 # n
      BY SMT
    <3> QED
      BY <1>1, <2>1, <2>2, <3>1
  <2>6. limit[p] = command[g].quota_bytes[p[2]]
    BY <2>1, <2>3, <2>5 DEF RankLedger
  <2> QED
    BY <2>1, <2>2, <2>4, <2>6
<1>3. ~ \E g \in Retired : \E d \in DevicesOf[g] :
           ~ /\ Floor[<<g, d>>] <= completion[<<g, d>>].backed_bytes
             /\ completion[<<g, d>>].backed_bytes <= command[g].quota_bytes[d]
  <2>1. ASSUME NEW g \in Retired, NEW d \in DevicesOf[g]
        PROVE  /\ Floor[<<g, d>>] <= completion[<<g, d>>].backed_bytes
               /\ completion[<<g, d>>].backed_bytes <= command[g].quota_bytes[d]
    <3>1. <<g, d>> \in Ranks(g)
      BY <1>1, GroupParts
    <3> QED
      BY <3>1, <1>2
  <2> QED
    BY ZenonT(40), <2>1
<1>4. /\ active_quotas' = [g \in Groups |->
            IF g \in Retired THEN command[g].quota_bytes ELSE active_quotas[g]]
      /\ applied_sequences' = [g \in Groups |->
            IF g \in Retired THEN command[g].sequence ELSE applied_sequences[g]]
      /\ operations' = operations \ Retired
      /\ completed_grant_orders' = [g \in Groups |->
            IF g \in Granted
            THEN next_grant_order + Cardinality({h \in Granted : h < g})
            ELSE completed_grant_orders[g]]
      /\ next_grant_order' = next_grant_order + Cardinality(Granted)
      /\ funding_attempt' = {[a EXCEPT
            !.attempted = @ \cup (a.donor \cap Retired),
            !.donor = @ \ Retired] : a \in funding_attempt}
      /\ UNCHANGED <<rankVars, startVars, command, completion, demand,
                     pool_capacity_bytes, service_ceilings, demands, now, failed>>
  BY <1>3 DEF retire_operations
<1>5. frozen /\ frozen' /\ step' \in Steps
  BY ZenonT(40) DEF retire_operations, frozen, Steps
<1>6. \A g \in Groups :
         /\ g \in Retired => /\ active_quotas'[g] = command[g].quota_bytes
                             /\ applied_sequences'[g] = command[g].sequence
         /\ g \notin Retired => /\ active_quotas'[g] = active_quotas[g]
                                /\ applied_sequences'[g] = applied_sequences[g]
  BY ZenonT(40), <1>4
<1>7. TypeOK'
  <2>1. /\ Cardinality(Granted) \in Nat
        /\ \A g \in Groups : Cardinality({h \in Granted : h < g}) \in Nat
    BY TopologyAssumption, FS_Subset, FS_CardinalityType DEF Granted, Retired
  <2>2. /\ completed_grant_orders' \in [Groups -> Nat \cup {Absent}]
        /\ next_grant_order' \in Nat
    <3>1. next_grant_order \in Nat
      BY <1>pt DEF PolicyType
    <3>2. \A g \in Groups : next_grant_order + Cardinality({h \in Granted : h < g}) \in Nat
      BY SMTT(40), <2>1, <3>1
    <3>3. \A g \in Groups : completed_grant_orders'[g] \in Nat \cup {Absent}
      BY ZenonT(40), <1>ct, <1>pt, <1>ft, <1>4, <3>2 DEF ChannelType,
         PolicyType, FundType
    <3>4. completed_grant_orders' = [g \in Groups |-> completed_grant_orders'[g]]
      BY <1>4
    <3>5. next_grant_order' \in Nat
      <4>1. next_grant_order' = next_grant_order + Cardinality(Granted)
        BY ZenonT(40), <1>4
      <4> QED
        BY SMTT(40), <4>1, <2>1, <3>1
    <3> QED
      BY <3>3, <3>4, <3>5
  <2>3. /\ DOMAIN active_quotas' = Groups
        /\ \A g \in Groups : active_quotas'[g] \in Vector(g)
        /\ applied_sequences' \in [Groups -> Nat]
    BY <1>ct, <1>pt, <1>ft, <1>4 DEF ChannelType, PolicyType, FundType, Command
  <2>4. ASSUME NEW b \in funding_attempt'
        PROVE  b.borrower \in Groups /\ b \in Attempt(b.borrower)
    <3>1. PICK a \in funding_attempt :
             b = [a EXCEPT !.attempted = @ \cup (a.donor \cap Retired),
                           !.donor = @ \ Retired]
      BY <1>4
    <3>2. a.borrower \in Groups /\ a \in Attempt(a.borrower) /\ Retired \subseteq Groups
      BY <1>ft DEF FundType, Retired
    <3> QED
      BY ZenonT(40), <3>1, <3>2 DEF Attempt
  <2> QED
    BY ZenonT(40), <1>ty, <1>4, <1>5, <2>2, <2>3, <2>4 DEF TypeOK, RankType,
       ChannelType, PolicyType, FundType
<1>8. SequenceInv'
  <2>1. \A g \in Groups : command[g].sequence =
            applied_sequences'[g] + (IF g \in operations' THEN 1 ELSE 0)
    <3> SUFFICES ASSUME NEW g \in Groups
                 PROVE  command[g].sequence =
                           applied_sequences'[g] + (IF g \in operations' THEN 1 ELSE 0)
      OBVIOUS
    <3>1. command[g].sequence \in Nat
      BY <1>ct DEF ChannelType, Command
    <3>2. CASE g \in Retired
      <4>1. applied_sequences'[g] = command[g].sequence /\ g \notin operations'
        BY ZenonT(40), <3>2, <1>4, <1>6
      <4> QED
        BY SMTT(40), <3>1, <4>1
    <3>3. CASE g \notin Retired
      BY ZenonT(40), <1>sq, <3>3, <1>4, <1>6 DEF SequenceInv
    <3> QED
      BY <3>2, <3>3
  <2>2. \A p \in Partitions : applied_sequences'[p[1]] <= completed[p]
    <3> SUFFICES ASSUME NEW p \in Partitions
                 PROVE  applied_sequences'[p[1]] <= completed[p]
      OBVIOUS
    <3>1. p[1] \in Groups /\ p \in Ranks(p[1]) /\ completed[p] \in Nat
      BY <1>ty, PartitionParts, RankTypes DEF Ranks
    <3>2. \A n \in Nat : n <= n
      BY SMT
    <3>3. CASE p[1] \in Retired
      BY <3>1, <3>2, <3>3, <1>2, <1>6
    <3>4. CASE p[1] \notin Retired
      BY <1>sq, <3>1, <3>4, <1>6 DEF SequenceInv
    <3> QED
      BY <3>3, <3>4
  <2> QED
    BY <1>sq, <1>4, <1>5, <2>1, <2>2 DEF SequenceInv
<1>9. LedgerInv'
  <2> SUFFICES ASSUME NEW p \in Partitions PROVE RankLedger(p)'
    BY <1>le DEF LedgerInv
  <2>1. p[1] \in Groups /\ p \in Ranks(p[1])
    BY PartitionParts DEF Ranks
  <2>2. UNCHANGED <<charged, limit, retiring, completed, command,
                    initial_backing, completion>>
    BY <1>4
  <2>3. RankLedger(p) /\ p \in Partitions
    BY <1>le DEF LedgerInv
  <2>4. CASE p[1] \in Retired
    <3>1. /\ completed[p] = applied_sequences'[p[1]]
          /\ limit[p] = active_quotas'[p[1]][p[2]] /\ p[1] \notin operations'
      BY ZenonT(40), <1>2, <1>4, <1>6, <2>1, <2>4
    <3> QED
      BY ZenonT(40), <3>1, <1>5, <2>2, <2>3 DEF RankLedger, CurrentQuota
  <2>5. CASE p[1] \notin Retired
    BY ZenonT(40), <1>4, <1>5, <1>6, <2>1, <2>2, <2>3, <2>5 DEF RankLedger, CurrentQuota
  <2> QED
    BY <2>4, <2>5
<1>10. NoCheckFails' /\ BallotInv'
  BY ZenonT(40), <1>nc, <1>ba, <1>4, FrameBallot DEF NoCheckFails
<1>11. BudgetInv'
  <2>1. permission \in Ledger /\ permission' \in Ledger
    BY <1>ty, <1>7, PermissionLedger, PermissionLedgerNext
  <2>2. ASSUME NEW p \in Partitions PROVE permission'[p] <= permission[p]
    <3>1. /\ p[1] \in Groups /\ active_quotas[p[1]][p[2]] \in Nat
          /\ command[p[1]].quota_bytes[p[2]] \in Nat
      BY <1>ty, PartitionParts, RankTypes
    <3>2. CASE p[1] \in Retired
      BY <3>1, <3>2, <1>1, <1>4, <1>6, LargerType DEF permission
    <3>3. CASE p[1] \notin Retired
      <4>1. permission'[p] = permission[p]
        BY <3>1, <3>3, <1>4, <1>6 DEF permission
      <4> QED
        BY SMTT(40), <4>1, <2>1 DEF Ledger
    <3> QED
      BY <3>2, <3>3
  <2>3. ASSUME NEW d \in Devices
        PROVE  Sum(permission', d) <= pool_capacity_bytes[d]
    <3>1. Sum(permission', d) <= Sum(permission, d)
      BY <2>1, <2>2, PartitionOf, SumMonotone
    <3>2. Sum(permission, d) <= pool_capacity_bytes[d] /\ pool_capacity_bytes[d] \in Int
      BY <1>pt, <1>bu, <1>5 DEF BudgetInv, PolicyType
    <3>3. Sum(permission', d) \in Nat /\ Sum(permission, d) \in Nat
      BY <2>1, BytesFinite
    <3> QED
      BY SMTT(40), <3>1, <3>2, <3>3
  <2>4. ASSUME \E g \in Groups : applied_sequences'[g] = 0
        PROVE  \A p \in Partitions : permission'[p] <= Floor[p] + Extra(p[2])
    <3>1. \E g \in Groups : applied_sequences[g] = 0
      BY SMTT(40), <2>4, <1>1, <1>6
    <3> SUFFICES ASSUME NEW p \in Partitions
                 PROVE  permission'[p] <= Floor[p] + Extra(p[2])
      OBVIOUS
    <3>2. permission[p] <= Floor[p] + Extra(p[2])
      BY <1>bu, <1>5, <3>1 DEF BudgetInv
    <3>3. Extra(p[2]) \in Int
      <4>1. p[2] \in Devices
        BY PartitionParts
      <4>2. pool_capacity_bytes[p[2]] - Sum(Floor, p[2]) \in Int
        BY SMTT(40), <1>pt, <4>1, ConstantTotals DEF PolicyType
      <4> QED
        BY SMTT(40), <4>2, InstanceCount DEF Extra
    <3>4. permission[p] \in Nat /\ permission'[p] \in Nat /\ Floor[p] \in Nat
      BY <1>ty, <2>1, RankTypes DEF Ledger
    <3>5. permission'[p] <= permission[p]
      BY <2>2
    <3> QED
      BY SMTT(40), <3>2, <3>3, <3>4, <3>5
  <2>5. \A d : Extra(d)' = Extra(d)
    BY ZenonT(40), <1>4 DEF Extra
  <2> QED
    BY ZenonT(40), <1>bu, <1>4, <1>5, <2>3, <2>4, <2>5 DEF BudgetInv, Observed
<1>12. QuotaInv'
  <2>1. \A g \in Groups : applied_sequences'[g] = 0 => g \notin Retired
    BY SMTT(40), <1>1, <1>6
  <2> QED
    BY ZenonT(40), <1>qu, <1>1, <1>4, <1>5, <1>6, <2>1 DEF QuotaInv
<1>13. DemandInv'
  <2> SUFFICES ASSUME NEW g \in Groups, present(demand[g]), NEW d \in DevicesOf[g],
                      demand[g].sequence = applied_sequences'[g]
               PROVE  active_quotas'[g][d] <= demand[g].required[d]
    BY ZenonT(40), <1>de, <1>4 DEF DemandInv
  <2>1. CASE g \notin Retired
    BY ZenonT(40), <1>de, <2>1, <1>6 DEF DemandInv
  <2>2. CASE g \in Retired
    <3>1. <<g, d>> \in Ranks(g)
      BY GroupParts
    <3>2. limit[<<g, d>>] = command[g].quota_bytes[d]
      BY <3>1, <2>2, <1>2
    <3> QED
      BY <1>de, <2>2, <3>2, <1>6 DEF DemandInv
  <2> QED
    BY <2>1, <2>2
<1>14. OnlyDonorShrinks'
  <2> SUFFICES ASSUME NEW g \in Groups, g \in operations',
                      \E d \in DevicesOf[g] : command'[g].quota_bytes[d] < active_quotas'[g][d]
               PROVE  \E b \in funding_attempt' : g \in b.donor
    BY <1>do DEF OnlyDonorShrinks
  <2>1. g \in operations /\ g \notin Retired
    BY ZenonT(40), <1>4
  <2>2. PICK a \in funding_attempt : g \in a.donor
    BY ZenonT(40), <1>do, <2>1, <1>4, <1>6 DEF OnlyDonorShrinks
  <2> DEFINE b == [a EXCEPT !.attempted = @ \cup (a.donor \cap Retired),
                            !.donor = @ \ Retired]
  <2>3. b \in funding_attempt'
    BY <1>4
  <2>4. g \in b.donor
    BY <1>pt, <1>ft, <2>1, <2>2 DEF PolicyType, FundType, Attempt
  <2> HIDE DEF b
  <2> QED
    BY <2>3, <2>4
<1> QED
  BY <1>7, <1>8, <1>9, <1>10, <1>11, <1>12, <1>13, <1>14 DEF Inv

-----------------------------------------------------------------------------
(* The theorems.                                                           *)

\* Inv holds before any floor is mapped.
THEOREM InitInv == Init => Inv
<1> SUFFICES ASSUME Init PROVE Inv
  OBVIOUS
<1>z. /\ 0 \in Nat /\ 0 \in Int /\ Absent \in Int /\ Absent # 0 /\ 0 <= 0
      /\ 0 = 0 + 0 /\ ~ (0 > 0) /\ ~ (0 < 0)
  BY SMTT(40) DEF Absent
<1>1. ~frozen /\ ~failed
  BY DEF Init, frozen
<1>2. \A g \in Groups :
         /\ Zero(g) \in Vector(g) /\ command[g].sequence = 0
         /\ applied_sequences[g] = 0 /\ demand[g].sequence = 0
         /\ demand[g].deadline = Absent
  BY DEF Init, Zero, Vector
<1>3. \A p \in Partitions :
         /\ p[1] \in Groups /\ Floor[p] \in Nat /\ completed[p] = 0 /\ charged[p] = 0
         /\ accepted[p].sequence = 0 /\ completion[p].sequence = 0 /\ retiring[p] = 0
         /\ accepted[p].quota_bytes = command[p[1]].quota_bytes
         /\ limit[p] = Floor[p] /\ initial_backing[p] = Absent /\ ballot[p] = "none"
  BY PartitionParts, SizeAssumption DEF Init
<1>4. TypeOK
  <2>1. /\ DOMAIN accepted = Partitions
        /\ \A p \in Partitions : accepted[p] \in Command(p[1])
        /\ DOMAIN adopted = Partitions
        /\ \A p \in Partitions : adopted[p] \in Vector(p[1])
    BY <1>2, <1>3 DEF Init, Command
  <2>2. /\ DOMAIN command = Groups /\ \A g \in Groups : command[g] \in Command(g)
        /\ DOMAIN demand = Groups /\ \A g \in Groups : demand[g] \in Demand(g)
        /\ demands = demand
        /\ DOMAIN active_quotas = Groups
        /\ \A g \in Groups : active_quotas[g] \in Vector(g)
    BY <1>2 DEF Init, Command, Demand
  <2>3. /\ DOMAIN service_ceilings = Groups
        /\ \A g \in Groups : service_ceilings[g] \in [DevicesOf[g] -> Int]
    BY <1>z DEF Init, Zero
  <2>4. /\ charged \in [Partitions -> Nat] /\ limit \in [Partitions -> Nat]
        /\ retiring \in [Partitions -> Nat] /\ completed \in [Partitions -> Nat]
        /\ ballot \in [Partitions -> {"none", "ready", "blocked", "adopt", "retry"}]
        /\ initial_backing \in [Partitions -> Nat \cup {Absent}]
        /\ completion \in [Partitions -> [sequence : Nat, backed_bytes : Nat]]
    BY SizeAssumption DEF Init
  <2>5. /\ device_free \in [Devices -> Int] /\ pool_capacity_bytes \in [Devices -> Int]
        /\ applied_sequences \in [Groups -> Nat] /\ chunk = {} /\ operations = {}
        /\ completed_grant_orders \in [Groups -> Nat \cup {Absent}]
        /\ next_grant_order = 0 /\ funding_attempt = {} /\ now = 0
        /\ step = "unfrozen" /\ failed = FALSE
    BY <1>z DEF Init
  <2> QED
    BY <2>1, <2>2, <2>3, <2>4, <2>5 DEF TypeOK, RankType, ChannelType, PolicyType, FundType, Steps
<1>5. SequenceInv
  <2>1. \A g \in Groups : g \notin operations
    BY DEF Init
  <2> QED
    BY <1>z, <1>2, <1>3, <2>1 DEF SequenceInv
<1>6. LedgerInv
  <2>1. \A n \in Nat : 0 <= n
    BY SMTT(40)
  <2>2. \A p \in Partitions : p[1] \notin operations
    BY DEF Init
  <2> QED
    BY <1>z, <1>1, <1>2, <1>3, <2>1, <2>2 DEF LedgerInv, RankLedger, CurrentQuota
<1>7. BallotInv
  <2>1. \A p \in Partitions : \A q \in Ranks(p[1]) : completed[q] = 0
    BY <1>3, RankParts
  <2> QED
    BY <1>z, <1>3, <2>1 DEF BallotInv
<1>8. BudgetInv /\ QuotaInv
  BY <1>1 DEF BudgetInv, QuotaInv, Init
<1>9. DemandInv
  <2>1. \A g \in Groups : \A p \in Ranks(g) : completed[p] = 0
    BY <1>3, RankParts
  <2> QED
    BY <1>z, <1>2, <2>1 DEF DemandInv, present
<1>10. OnlyDonorShrinks
  BY DEF OnlyDonorShrinks, Init
<1> QED
  BY <1>1, <1>4, <1>5, <1>6, <1>7, <1>8, <1>9, <1>10 DEF Inv, NoCheckFails

\* Every step of a rank, an agent or the daemon keeps Inv.
THEOREM NextInv == Inv /\ [Next]_vars => Inv'
<1> SUFFICES ASSUME Inv, [Next]_vars PROVE Inv'
  OBVIOUS
<1>1. CASE UNCHANGED vars
  <2>1. UNCHANGED <<step, command, demand, completed, accepted, completion,
                    initial_backing, device_free, limit, poolVars, grantVars,
                    fundVars, failed, charged, retiring, ballot>>
    BY <1>1 DEF vars
  <2>2. TypeOK'
    BY <1>1 DEF vars, Inv, TypeOK, RankType, ChannelType, PolicyType, FundType
  <2> QED
    BY <2>1, <2>2, RankFrame, FrameLedger, FrameBallot DEF Inv
<1>2. ASSUME NEW p \in Partitions, RankNext(p) PROVE Inv'
  <2>1. 0 .. Reservation[p] \subseteq Nat
    BY SMTT(40), SizeAssumption
  <2>2. finalize_after_capture(p) => accept_command({p})
    BY DEF finalize_after_capture
  <2> QED
    BY <1>2, <2>1, <2>2, InitPools, PublishInitialBacking, AcceptCommand,
       VoteReady, Adopt, FinishRetirement, Reclaim, ReclaimRequirement, TryReserve
    DEF RankNext
<1>3. ASSUME NEW g \in Groups, GroupNext(g) PROVE Inv'
  <2>1. Ranks(g) \in SUBSET Partitions
    BY RankParts
  <2>2. request_broadcast(g) => accept_command(Ranks(g))
    BY DEF request_broadcast
  <2> QED
    BY <1>3, <2>1, <2>2, AcceptCommand, AllReduce, SetChunkOwner, FinishScheduling
    DEF GroupNext
<1>4. ASSUME NEW d \in Devices, publish_device_memory(d) PROVE Inv'
  BY <1>4, PublishDeviceMemory
<1>5. ASSUME DaemonNext PROVE Inv'
  <2>1. \A torn : Groups \ torn \in SUBSET Groups
    OBVIOUS
  <2> QED
    BY <1>5, <2>1, FreezePools, RetireOperations, Dispatch DEF DaemonNext
<1>6. ASSUME tick PROVE Inv'
  BY <1>6, Tick
<1> QED
  BY <1>1, <1>2, <1>3, <1>4, <1>5, <1>6 DEF Next

\* Inv holds in every reachable state, for every topology and all sizes.
THEOREM Invariance == Spec => []Inv
<1>1. Init => Inv
  BY InitInv
<1>2. Inv /\ [Next]_vars => Inv'
  BY NextInv
<1> QED
  BY <1>1, <1>2, PTL DEF Spec

\* Every variable keeps its type.
THEOREM TypeCorrect == Spec => []TypeOK
<1>1. Inv => TypeOK
  BY DEF Inv
<1> QED
  BY <1>1, Invariance, PTL

\* The daemon never hands out more permission than a device budget holds.
THEOREM BudgetSafe == Spec => []PermissionWithinBudget
<1>1. Inv => PermissionWithinBudget
  BY DEF Inv, BudgetInv, PermissionWithinBudget
<1> QED
  BY <1>1, Invariance, PTL

\* No consistency check of the daemon, the channel or a rank can raise.
THEOREM ChecksPass == Spec => []NoCheckFails
<1>1. Inv => NoCheckFails
  BY DEF Inv
<1> QED
  BY <1>1, Invariance, PTL

\* Only the donor of the current funding attempt is asked to shrink.
THEOREM DonorSafe == Spec => []OnlyDonorShrinks
<1>1. Inv => OnlyDonorShrinks
  BY DEF Inv
<1> QED
  BY <1>1, Invariance, PTL

\* A rank's limit is covered by the permission the daemon charges for it.
LEMMA LimitCovered ==
    ASSUME Inv, frozen, NEW p \in Partitions
    PROVE  /\ Floor[p] <= charged[p] /\ charged[p] <= limit[p]
           /\ limit[p] <= permission[p]
           /\ limit[p] <= service_ceilings[p[1]][p[2]]
<1> USE DEF Inv
<1>1. p[1] \in Groups /\ p[2] \in DevicesOf[p[1]] /\ p = <<p[1], p[2]>>
  BY PartitionParts
<1>2. /\ active_quotas[p[1]][p[2]] \in Nat /\ command[p[1]].quota_bytes[p[2]] \in Nat
      /\ command[p[1]].sequence \in Nat /\ applied_sequences[p[1]] \in Nat
      /\ completed[p] \in Nat /\ limit[p] \in Nat /\ accepted[p].sequence \in Nat
  BY RankTypes
<1>3. Floor[p] <= charged[p] /\ charged[p] <= limit[p]
  BY DEF LedgerInv, RankLedger, BudgetInv, Observed
<1>4. CASE completed[p] = applied_sequences[p[1]]
  <2>1. limit[p] = active_quotas[p[1]][p[2]]
    BY <1>4 DEF LedgerInv, RankLedger, CurrentQuota
  <2>2. limit[p] <= permission[p]
    <3>1. permission[p] \in {active_quotas[p[1]][p[2]],
                             Larger(active_quotas[p[1]][p[2]], command[p[1]].quota_bytes[p[2]])}
      BY DEF permission
    <3>2. Larger(active_quotas[p[1]][p[2]], command[p[1]].quota_bytes[p[2]])
             >= active_quotas[p[1]][p[2]]
      BY <1>2, LargerType
    <3> HIDE DEF Inv
    <3> QED
      BY SMTT(40), <1>2, <2>1, <3>1, <3>2
  <2> QED
    BY <1>1, <1>3, <2>1, <2>2 DEF QuotaInv
<1>5. CASE completed[p] # applied_sequences[p[1]]
  <2>0. /\ applied_sequences[p[1]] <= completed[p] /\ completed[p] <= accepted[p].sequence
        /\ accepted[p].sequence <= command[p[1]].sequence
        /\ command[p[1]].sequence =
              applied_sequences[p[1]] + (IF p[1] \in operations THEN 1 ELSE 0)
    BY <1>1 DEF SequenceInv
  <2>1. limit[p] = command[p[1]].quota_bytes[p[2]] /\ p[1] \in operations
    <3>1. completed[p] = command[p[1]].sequence /\ p[1] \in operations
      <4> HIDE DEF Inv
      <4> QED
        BY SMTT(40), <1>2, <1>5, <2>0
    <3> QED
      BY <1>1, <1>5, <3>1 DEF LedgerInv, RankLedger, CurrentQuota
  <2>2. limit[p] <= permission[p]
    BY <1>2, <2>1, LargerType DEF permission
  <2> QED
    BY <1>1, <1>3, <2>1, <2>2 DEF QuotaInv
<1> QED
  BY <1>4, <1>5

\* No Instance loses its floor, no rank charges beyond limit or ceiling.
THEOREM QuotaSafe == Spec => []QuotaBounds
<1>1. Inv => QuotaBounds
  <2> SUFFICES ASSUME Inv, frozen, NEW g \in Groups, NEW d \in DevicesOf[g]
               PROVE  /\ Floor[<<g, d>>] <= charged[<<g, d>>]
                      /\ charged[<<g, d>>] <= limit[<<g, d>>]
                      /\ limit[<<g, d>>] <= service_ceilings[g][d]
                      /\ Floor[<<g, d>>] <= active_quotas[g][d]
                      /\ g \in operations =>
                            Floor[<<g, d>>] <= command[g].quota_bytes[d]
    BY DEF QuotaBounds
  <2>1. <<g, d>> \in Partitions
    BY GroupParts
  <2> QED
    BY <2>1, LimitCovered DEF Inv, QuotaInv
<1> QED
  BY <1>1, Invariance, PTL

\* Ranks outside a vote hold one whole vector of the daemon.
THEOREM GroupsSafe == Spec => []GroupsAgree
<1>1. Inv => GroupsAgree
  <2> SUFFICES ASSUME Inv, frozen, NEW g \in Groups, serving(g)
               PROVE  /\ \A p, r \in Ranks(g) : completed[p] = completed[r]
                      /\ \/ \A p \in Ranks(g) : limit[p] = active_quotas[g][p[2]]
                         \/ \A p \in Ranks(g) : limit[p] = command[g].quota_bytes[p[2]]
    BY DEF GroupsAgree
  <2>1. \A p, r \in Ranks(g) : completed[p] = completed[r]
    BY ServingAgrees
  <2>2. \A p \in Ranks(g) : p \in Partitions /\ p[1] = g
    BY RankParts
  <2>3. \A p \in Ranks(g) :
           limit[p] = IF completed[p] = applied_sequences[g]
                      THEN active_quotas[g][p[2]] ELSE command[g].quota_bytes[p[2]]
    BY <2>2 DEF Inv, LedgerInv, RankLedger, CurrentQuota
  <2> QED
    BY <2>1, <2>3
<1> QED
  BY <1>1, Invariance, PTL

\* Free physical memory never falls below the reserve of a frozen device.
THEOREM ReserveSafe == Spec => []ReserveKept
<1>1. Inv => ReserveKept
  <2> SUFFICES ASSUME Inv, frozen, NEW d \in Devices
               PROVE  DeviceTotal[d] - DeviceOther[d] - Sum(charged, d) >= Reserve(d)
    BY DEF ReserveKept
  <2>1. charged \in Ledger /\ permission \in Ledger
    BY PermissionLedger DEF Inv, TypeOK, RankType, ChannelType, PolicyType, FundType, Ledger
  <2>2. \A g \in GroupsOn(d) : charged[<<g, d>>] <= permission[<<g, d>>]
    <3> SUFFICES ASSUME NEW g \in GroupsOn(d)
                 PROVE  charged[<<g, d>>] <= permission[<<g, d>>]
      OBVIOUS
    <3>1. <<g, d>> \in Partitions
      BY PartitionOf
    <3>2. /\ charged[<<g, d>>] \in Nat /\ permission[<<g, d>>] \in Nat
          /\ limit[<<g, d>>] \in Nat
      BY <2>1, <3>1, RankTypes DEF Ledger, Inv
    <3> QED
      BY SMTT(40), <3>1, <3>2, LimitCovered
  <2>3. Sum(charged, d) <= Sum(permission, d)
    BY <2>1, <2>2, SumMonotone
  <2>4. /\ Sum(permission, d) <= pool_capacity_bytes[d]
        /\ pool_capacity_bytes[d] = DeviceTotal[d] - DeviceOther[d] - Reserve(d)
    BY DEF Inv, BudgetInv
  <2>5. Sum(charged, d) \in Nat /\ Sum(permission, d) \in Nat
    BY <2>1, BytesFinite
  <2> QED
    BY SMTT(40), <2>3, <2>4, <2>5, ConstantTotals
<1> QED
  BY <1>1, Invariance, PTL

\* Only a group whose ranks all completed their command gets another.
LEMMA PublicationWaits ==
    ASSUME Inv, NEW g \in Groups, NEW quota, publish_operation(g, quota),
           NEW x \in Groups, command'[x] # command[x]
    PROVE  \A p \in Ranks(x) : completed[p] = command[x].sequence
<1> USE DEF Inv
<1>1. x = g /\ command[g].sequence = applied_sequences[g]
  BY DEF publish_operation, TypeOK, RankType, ChannelType, PolicyType, FundType
<1>2. ASSUME NEW p \in Ranks(g) PROVE completed[p] = command[g].sequence
  <2>1. p \in Partitions /\ p[1] = g
    BY RankParts
  <2>2. /\ applied_sequences[g] <= completed[p] /\ completed[p] <= accepted[p].sequence
        /\ accepted[p].sequence <= command[g].sequence
    BY <2>1 DEF SequenceInv
  <2>3. /\ completed[p] \in Nat /\ accepted[p].sequence \in Nat
        /\ command[g].sequence \in Nat
    BY <2>1, RankTypes
  <2> HIDE DEF Inv
  <2> QED
    BY SMTT(40), <1>1, <2>2, <2>3
<1> QED
  BY <1>1, <1>2

\* A step changes no command, or publishes one operation.
LEMMA OnlyPublications ==
    ASSUME Inv, [Next]_vars
    PROVE  command' = command \/ \E g \in Groups : \E quota : publish_operation(g, quota)
<1> DEFINE Published == \E g \in Groups : \E quota : publish_operation(g, quota)
<1>1. CASE UNCHANGED vars
  BY <1>1 DEF vars
<1>2. ASSUME NEW p \in Partitions, RankNext(p) PROVE command' = command
  BY ZenonT(40), <1>2 DEF RankNext, init_pools, publish_initial_backing, vote_ready, adopt,
     finalize_after_capture, accept_command, finish_retirement, reclaim,
     reclaim_requirement, try_reserve
<1>3. ASSUME NEW g \in Groups, GroupNext(g) PROVE command' = command
  BY <1>3 DEF GroupNext, request_broadcast, accept_command, all_reduce,
     set_chunk_owner, finish_scheduling
<1>4. ASSUME NEW d \in Devices, publish_device_memory(d) PROVE command' = command
  BY <1>4 DEF publish_device_memory
<1>5. ASSUME freeze_pools \/ retire_operations \/ tick PROVE command' = command
  BY ZenonT(40), <1>5 DEF freeze_pools, retire_operations, tick
<1>6. ASSUME NEW visible, dispatch(visible) PROVE command' = command \/ Published
  <2> DEFINE k == consume_demands(visible)
  <2>1. ASSUME publish_next_initial_operation PROVE command' = command \/ Published
    BY <2>1 DEF publish_next_initial_operation
  <2>2. ASSUME NEW a, a.borrower \in Groups, advance_attempt(k, a) PROVE Published
    BY <2>2 DEF advance_attempt, donors
  <2>3. ASSUME NEW a, fund_beside(k, a) PROVE command' = command \/ Published
    <3>1. borrowers(k) \subseteq Groups
      BY DEF borrowers, overdue
    <3> HIDE DEF k
    <3> QED
      BY <2>3, <3>1 DEF fund_beside
  <2>4. ASSUME fund(k) PROVE command' = command \/ Published
    <3>1. \A a \in funding_attempt : a.borrower \in Groups
      BY DEF Inv, TypeOK, RankType, ChannelType, PolicyType, FundType
    <3>2. \A g \in borrowers(k) : g \in Groups /\ new_attempt(k, g).borrower = g
      BY DEF borrowers, overdue, new_attempt
    <3> HIDE DEF k, Published
    <3> QED
      BY <2>2, <2>3, <2>4, <3>1, <3>2 DEF fund
  <2> QED
    BY <1>6, <2>1, <2>4 DEF dispatch
<1> QED
  BY <1>1, <1>2, <1>3, <1>4, <1>5, <1>6 DEF Next, DaemonNext

\* A command is replaced only after every rank of its group completed it.
THEOREM CommandsSafe == Spec => CommandsImmutable
<1>1. Inv /\ [Next]_vars =>
         [\A g \in Groups : command'[g] # command[g] =>
             \A p \in Ranks(g) : completed[p] = command[g].sequence]_vars
  <2> SUFFICES ASSUME Inv, [Next]_vars, NEW g \in Groups, command'[g] # command[g]
               PROVE  \A p \in Ranks(g) : completed[p] = command[g].sequence
    OBVIOUS
  <2> QED
    BY OnlyPublications, PublicationWaits
<1> QED
  BY <1>1, Invariance, PTL DEF Spec, CommandsImmutable
=============================================================================
