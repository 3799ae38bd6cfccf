----------------------------- MODULE EcsChannel -----------------------------
(***************************************************************************)
(* The shared-memory control channel of one Capacity Group, word by word.   *)
(*                                                                         *)
(* A publication (the daemon's command, the TP leader's demand, each rank's *)
(* completion) is a cell: some words and the revision that covers them, odd *)
(* while the cell's sole writer stores.  Readers take no lock: they load    *)
(* the revision, the words, and the revision again.  Every action is one    *)
(* sequentially consistent access.                                          *)
(***************************************************************************)
EXTENDS Naturals

CONSTANTS
    TpSize,         \* ranks of the group, numbered from 1
    Quotas,         \* the vectors a command may grant, one value per rank
    Backings,       \* what a rank may have backed
    Requirements,   \* the vectors a demand may require
    MaxRevision,    \* the largest value of a revision word, 2^64 - 1 in the code
    MaxSequence,    \* bound on the commands
    MaxDemands      \* bound on the demands

ASSUME TpAssumption == TpSize \in Nat \ {0}
ASSUME ValuesAssumption ==
    /\ Quotas \subseteq [1 .. TpSize -> Nat]
    /\ Requirements \subseteq [1 .. TpSize -> Nat]
    /\ Backings \subseteq Nat
ASSUME BoundsAssumption ==
    MaxRevision \in Nat /\ MaxSequence \in Nat /\ MaxDemands \in Nat

Daemon == 0
Leader == 1
Ranks == 1 .. TpSize
Processes == {Daemon} \cup Ranks

Command == <<"command", Daemon>>
Demand == <<"demand", Leader>>
Completion(r) == <<"completion", r>>
Completions == {Completion(r) : r \in Ranks}
Cells == {Command, Demand} \cup Completions

\* A command is its sequence and a quota per rank, a completion its sequence
\* and backed bytes, a demand its evaluated sequence, whether a requirement is
\* present, the deadline and a requirement per rank.
Width(c) == IF c = Command THEN 1 + TpSize
            ELSE IF c = Demand THEN 3 + TpSize ELSE 2
Vector(c) == [1 .. Width(c) -> Nat]
Zero(c) == [i \in 1 .. Width(c) |-> 0]

VARIABLES
    revision,   \* of each cell
    word,       \* the words of each cell
    goal,       \* of each process: "none", "poll", "check" or "publish"
    cell,       \* the cell it is at
    at,         \* its next access: 0 the revision, then words, then the revision
    first,      \* the revision it loaded
    buffer,     \* the words it has loaded
    next,       \* the publication it prepares
    seen,       \* the last publication it has read of each cell
    current,    \* of each cell, the last publication that is whole
    raised      \* "no", or the kind of TORCH_CHECK that failed

memoryVars == <<revision, word, current>>
operationVars == <<goal, cell, at, first, buffer, next>>
vars == <<memoryVars, operationVars, seen, raised>>

\* Shared memory is created with zeros.
Init ==
    /\ revision = [c \in Cells |-> 0]
    /\ word = [c \in Cells |-> Zero(c)]
    /\ goal = [p \in Processes |-> "none"]
    /\ cell = [p \in Processes |-> Command]
    /\ at = [p \in Processes |-> 0]
    /\ first = [p \in Processes |-> 0]
    /\ buffer = [p \in Processes |-> Zero(Command)]
    /\ next = [p \in Processes |-> Zero(Command)]
    /\ seen = [p \in Processes |-> [c \in Cells |-> Zero(c)]]
    /\ current = [c \in Cells |-> Zero(c)]
    /\ raised = "no"

sequence(c) == current[c][1]
odd(n) == n % 2 = 1

\* Process p turns to cell c for purpose g, with v to publish.
Turn(p, g, c, v) ==
    /\ goal' = [goal EXCEPT ![p] = g]
    /\ cell' = [cell EXCEPT ![p] = c]
    /\ at' = [at EXCEPT ![p] = 0]
    /\ first' = [first EXCEPT ![p] = 0]
    /\ buffer' = [buffer EXCEPT ![p] = Zero(c)]
    /\ next' = [next EXCEPT ![p] = v]

Advance(p) == at' = [at EXCEPT ![p] = @ + 1] /\ UNCHANGED <<goal, cell>>
Stop(p) == Turn(p, "none", Command, Zero(Command))

-----------------------------------------------------------------------------
(* The operations. *)

\* The daemon reads completions and demands.  At startup every rank polls the
\* command; a serving group follows the leader's reads.
Readable(p) ==
    IF p = Daemon THEN {Demand} \cup Completions
    ELSE IF p = Leader \/ sequence(Completion(p)) = 0 THEN {Command} ELSE {}

poll(p, c) ==
    /\ goal[p] = "none" /\ c \in Readable(p)
    /\ Turn(p, "poll", c, next[p])
    /\ UNCHANGED <<memoryVars, seen, raised>>

\* The leader's snapshot reaches all ranks in one request broadcast.
request_broadcast ==
    /\ \A r \in Ranks : goal[r] = "none" /\ sequence(Completion(r)) # 0
    /\ seen' = [p \in Processes |-> IF p \in Ranks THEN seen[Leader] ELSE seen[p]]
    /\ UNCHANGED <<memoryVars, operationVars, raised>>

\* Faulty: one rank's completion suffices.
CommandAfterLeader(v) ==
    /\ goal[Daemon] = "none" /\ sequence(Command) < MaxSequence
    /\ v[1] = sequence(Command) + 1
    /\ seen[Daemon][Completion(Leader)][1] = sequence(Command)
    /\ IF sequence(Command) = 0 THEN Turn(Daemon, "publish", Command, v)
                                ELSE Turn(Daemon, "check", Completion(1), v)
    /\ UNCHANGED <<memoryVars, seen, raised>>

\* The policy retires an operation, and may publish the next, once it has seen
\* every completion; publish_command then reads them all again.
publish_command(v) ==
    /\ goal[Daemon] = "none" /\ sequence(Command) < MaxSequence
    /\ v[1] = sequence(Command) + 1
    /\ \A r \in Ranks : seen[Daemon][Completion(r)][1] = sequence(Command)
    /\ IF sequence(Command) = 0 THEN Turn(Daemon, "publish", Command, v)
                                ELSE Turn(Daemon, "check", Completion(1), v)
    /\ UNCHANGED <<memoryVars, seen, raised>>

\* A rank adopts the command it knows and reads it again before it answers.
publish_completion(r, v) ==
    /\ goal[r] = "none"
    /\ v[1] = seen[r][Command][1] /\ sequence(Completion(r)) < v[1]
    /\ Turn(r, "check", Command, v)
    /\ UNCHANGED <<memoryVars, seen, raised>>

publish_demand(v) ==
    /\ goal[Leader] = "none" /\ revision[Demand] < 2 * MaxDemands
    /\ v[1] = sequence(Completion(Leader)) /\ v[1] # 0
    /\ IF sequence(Demand) > v[1]
       THEN raised' = "check" /\ UNCHANGED operationVars
       ELSE Turn(Leader, "publish", Demand, v) /\ UNCHANGED raised
    /\ UNCHANGED <<memoryVars, seen>>

-----------------------------------------------------------------------------
(* A read: read_command, read_completion and read_demands. *)

reading(p) == goal[p] \in {"poll", "check"}

\* A poll comes back with nothing; a check raises.
nothing(p) ==
    /\ raised' = IF goal[p] = "check" THEN "check" ELSE raised
    /\ Stop(p)
    /\ UNCHANGED seen

load_revision(p) ==
    /\ reading(p) /\ at[p] = 0
    /\ LET r == revision[cell[p]]
       IN IF r = 0 \/ odd(r) THEN nothing(p)
          ELSE /\ first' = [first EXCEPT ![p] = r]
               /\ Advance(p)
               /\ UNCHANGED <<buffer, next, seen, raised>>
    /\ UNCHANGED memoryVars

load_word(p) ==
    /\ reading(p) /\ at[p] \in 1 .. Width(cell[p])
    /\ buffer' = [buffer EXCEPT ![p][at[p]] = word[cell[p]][at[p]]]
    /\ Advance(p)
    /\ UNCHANGED <<memoryVars, first, next, seen, raised>>

\* The daemon checks rank after rank, then publishes; a rank checks one cell.
checked(p) ==
    /\ IF p = Daemon /\ cell[p] # Completion(TpSize)
       THEN Turn(p, "check", Completion(cell[p][2] + 1), next[p])
       ELSE Turn(p, "publish", IF p = Daemon THEN Command ELSE Completion(p), next[p])
    /\ UNCHANGED <<seen, raised>>

\* The sequence a check expects: the one the command follows, or answers.
expected(p) == IF p = Daemon THEN next[p][1] - 1 ELSE next[p][1]

got(p) ==
    \/ /\ goal[p] = "poll" /\ Stop(p)
       /\ seen' = [seen EXCEPT ![p][cell[p]] = buffer[p]]
       /\ UNCHANGED raised
    \/ goal[p] = "check" /\ buffer[p][1] = expected(p) /\ checked(p)
    \/ goal[p] = "check" /\ buffer[p][1] # expected(p) /\ nothing(p)

\* Faulty: the words are taken without a second look at the revision.
ReloadUnchecked(p) ==
    /\ reading(p) /\ at[p] = Width(cell[p]) + 1
    /\ IF buffer[p][1] # 0 THEN got(p) ELSE nothing(p)
    /\ UNCHANGED memoryVars

reload_revision(p) ==
    /\ reading(p) /\ at[p] = Width(cell[p]) + 1
    /\ IF revision[cell[p]] = first[p] /\ buffer[p][1] # 0
       THEN got(p) ELSE nothing(p)
    /\ UNCHANGED memoryVars

-----------------------------------------------------------------------------
(* A publication. *)

begin_publication(p) ==
    /\ goal[p] = "publish" /\ at[p] = 0
    /\ LET previous == revision[cell[p]]
       IN IF odd(previous) \/ previous + 2 > MaxRevision
          THEN /\ raised' = "exhausted"
               /\ Stop(p) /\ UNCHANGED revision
          ELSE /\ first' = [first EXCEPT ![p] = previous + 2]
               /\ revision' = [revision EXCEPT ![cell[p]] = previous + 1]
               /\ Advance(p) /\ UNCHANGED <<buffer, next, raised>>
    /\ UNCHANGED <<word, current, seen>>

store_word(p) ==
    /\ goal[p] = "publish" /\ at[p] \in 1 .. Width(cell[p])
    /\ word' = [word EXCEPT ![cell[p]][at[p]] = next[p][at[p]]]
    /\ Advance(p)
    /\ UNCHANGED <<revision, current, first, buffer, next, seen, raised>>

end_publication(p) ==
    /\ goal[p] = "publish" /\ at[p] = Width(cell[p]) + 1
    /\ revision' = [revision EXCEPT ![cell[p]] = first[p]]
    /\ current' = [current EXCEPT ![cell[p]] = next[p]]
    /\ Stop(p)
    /\ UNCHANGED <<word, seen, raised>>

-----------------------------------------------------------------------------
Access(p) ==
    \/ load_revision(p) \/ load_word(p) \/ reload_revision(p)
    \/ begin_publication(p) \/ store_word(p) \/ end_publication(p)

CommandOf(s, q) == [i \in 1 .. 1 + TpSize |-> IF i = 1 THEN s ELSE q[i - 1]]

\* A requirement comes with a deadline; without one both are zero.
DemandOf(s, present, q) ==
    [i \in 1 .. 3 + TpSize |-> IF i = 1 THEN s ELSE IF i \in {2, 3} \/ present = 0
                               THEN present ELSE q[i - 3]]

Start(p) ==
    \/ \E c \in Cells : poll(p, c)
    \/ p = Daemon /\ \E s \in 1 .. MaxSequence, q \in Quotas :
          publish_command(CommandOf(s, q))
    \/ p \in Ranks /\ \E s \in 1 .. MaxSequence, b \in Backings :
          publish_completion(p, <<s, b>>)
    \/ p = Leader /\ \E s \in 1 .. MaxSequence, q \in Requirements, x \in {0, 1} :
          publish_demand(DemandOf(s, x, q))

Next ==
    /\ raised = "no"
    /\ \/ \E p \in Processes : Start(p) \/ Access(p)
       \/ request_broadcast

Spec == Init /\ [][Next]_vars

-----------------------------------------------------------------------------
(* Properties. *)

\* Every word and every local variable of an access has a value of its type.
TypeOK ==
    /\ revision \in [Cells -> 0 .. MaxRevision]
    /\ DOMAIN word = Cells /\ \A c \in Cells : word[c] \in Vector(c)
    /\ DOMAIN current = Cells /\ \A c \in Cells : current[c] \in Vector(c)
    /\ goal \in [Processes -> {"none", "poll", "check", "publish"}]
    /\ cell \in [Processes -> Cells]
    /\ at \in [Processes -> Nat] /\ first \in [Processes -> Nat]
    /\ \A p \in Processes : at[p] <= Width(cell[p]) + 1
    /\ DOMAIN buffer = Processes /\ DOMAIN next = Processes
    /\ \A p \in Processes : buffer[p] \in Vector(cell[p])
    /\ DOMAIN seen = Processes
    /\ \A p \in Processes : DOMAIN seen[p] = Cells
          /\ \A c \in Cells : seen[p][c] \in Vector(c)
    /\ raised \in {"no", "check", "exhausted"}

\* A read that ends with its revision unchanged has the words of the last
\* whole publication, however many stores it overlapped.
WholeReads ==
    \A p \in Processes :
        reading(p) /\ at[p] = Width(cell[p]) + 1 /\ revision[cell[p]] = first[p]
            => buffer[p] = current[cell[p]]

\* No check of the channel fails: when publish_command and publish_completion
\* read the other side's cell again, that side is not writing it.
NoCheckFails == raised # "check"

\* The channel implements atomic registers, and the handshake on them.
Registers == INSTANCE EcsRegisters
AtomicPublications == Registers!Spec

-----------------------------------------------------------------------------
(* The inductive invariant behind the safety properties. *)

\* The cells a process writes; nobody else does.
Own(p) == IF p = Daemon THEN {Command}
          ELSE {Completion(p)} \cup (IF p = Leader THEN {Demand} ELSE {})

storing(p, c) == goal[p] = "publish" /\ cell[p] = c /\ at[p] # 0

\* A process checks the other side's cells and publishes its own.
OperationInv ==
    \A p \in Processes :
        /\ goal[p] = "check" =>
              /\ cell[p] \in IF p = Daemon THEN Completions ELSE {Command}
              /\ next[p] \in Vector(IF p = Daemon THEN Command ELSE Completion(p))
        /\ goal[p] = "publish" => cell[p] \in Own(p) /\ next[p] \in Vector(cell[p])

\* The revision is odd exactly while words are stored; the words stored so far
\* are the next publication's, the others the last one's.
CellInv ==
    \A c \in Cells :
        /\ (\A p \in Processes : ~storing(p, c))
              => revision[c] % 2 = 0 /\ word[c] = current[c]
        /\ \A p \in Processes : storing(p, c) =>
              /\ revision[c] % 2 = 1
              /\ first[p] = revision[c] + 1 /\ first[p] <= MaxRevision
              /\ \A j \in 1 .. Width(c) :
                    word[c][j] = IF j < at[p] THEN next[p][j] ELSE current[c][j]
        /\ sequence(c) # 0 <=> revision[c] >= 2

\* While the revision is the one a read began with, what it has loaded is the
\* last publication; the cells of a check do not change under it.
ReadInv ==
    \A p \in Processes : reading(p) /\ at[p] # 0 =>
        /\ first[p] % 2 = 0 /\ first[p] >= 2
        /\ first[p] <= revision[cell[p]]
        /\ revision[cell[p]] = first[p] =>
              \A j \in 1 .. Width(cell[p]) :
                  j < at[p] => buffer[p][j] = current[cell[p]][j]
        /\ goal[p] = "check" => revision[cell[p]] = first[p]

\* Ranks are at most one command behind; the daemon prepares a command only
\* while none is, a rank its completion only while it is.
HandshakeInv ==
    /\ \A r \in Ranks : /\ sequence(Completion(r)) <= sequence(Command)
                        /\ sequence(Command) <= sequence(Completion(r)) + 1
    /\ sequence(Demand) <= sequence(Completion(Leader))
    /\ \A p \in Processes, c \in Cells : seen[p][c][1] <= sequence(c)
    /\ goal[Daemon] \in {"check", "publish"} =>
          /\ next[Daemon][1] = sequence(Command) + 1
          /\ \A r \in Ranks : sequence(Completion(r)) = sequence(Command)
    /\ goal[Daemon] = "check" => sequence(Command) # 0
    /\ \A r \in Ranks :
          goal[r] = "check" \/ (goal[r] = "publish" /\ cell[r] = Completion(r)) =>
              next[r][1] = sequence(Command) /\ sequence(Completion(r)) < next[r][1]
    /\ goal[Leader] = "publish" /\ cell[Leader] = Demand =>
          /\ next[Leader][1] # 0
          /\ next[Leader][1] = sequence(Completion(Leader))

Inv == /\ TypeOK /\ OperationInv /\ CellInv /\ ReadInv /\ HandshakeInv
       /\ NoCheckFails
=============================================================================
