-------------------------- MODULE EcsChannelProofs --------------------------
(* The control channel publishes atomically, for any number of ranks: the    *)
(* invariant Inv of EcsChannel is inductive, and with it every step is one   *)
(* of EcsRegisters or leaves the registers alone.                            *)
EXTENDS EcsChannel, TLAPS

-----------------------------------------------------------------------------
(* Cells and processes. *)

\* The cells are distinct, and each process writes its own.
LEMMA CellFacts ==
    /\ Command \in Cells /\ Demand \in Cells /\ Command # Demand
    /\ \A r \in Ranks : /\ Completion(r) \in Cells /\ Completion(r) \in Completions
                        /\ Completion(r) # Command /\ Completion(r) # Demand
                        /\ Completion(r)[2] = r
    /\ \A r, s \in Ranks : Completion(r) = Completion(s) => r = s
    /\ \A c \in Completions : \E r \in Ranks : c = Completion(r)
    /\ \A c \in Cells : c = Command \/ c = Demand \/ \E r \in Ranks : c = Completion(r)
  <1>1. \A r \in Ranks : Completion(r) \in Completions
    BY Zenon DEF Completions
  <1>2. \A c \in Completions : \E r \in Ranks : c = Completion(r)
    BY Zenon DEF Completions
  <1>3. Command # Demand /\ \A r \in Ranks : Completion(r) # Command /\ Completion(r) # Demand
    BY DEF Completion, Command, Demand
  <1>4. \A r, s \in Ranks : Completion(r) = Completion(s) => r = s
    BY DEF Completion
  <1>5. \A r \in Ranks : Completion(r)[2] = r
    BY DEF Completion
  <1> QED
    BY <1>1, <1>2, <1>3, <1>4, <1>5 DEF Cells

\* Processes are the daemon, which is no rank, and the ranks, of which the
\* leader is one.
LEMMA ProcessFacts ==
    /\ Daemon \in Processes /\ Daemon \notin Ranks
    /\ Leader \in Ranks /\ Leader # Daemon
    /\ Ranks \subseteq Processes
    /\ \A p \in Processes : p = Daemon \/ p \in Ranks
    /\ TpSize \in Ranks /\ 1 \in Ranks
    /\ \A r \in Ranks : r # TpSize => r + 1 \in Ranks
  BY TpAssumption DEF Daemon, Leader, Ranks, Processes

\* Widths are positive, so that every publication has a sequence word.
LEMMA WidthFacts ==
    /\ \A c \in Cells : Width(c) \in Nat /\ Width(c) >= 2
    /\ Width(Command) = 1 + TpSize /\ Width(Demand) = 3 + TpSize
    /\ \A r \in Ranks : Width(Completion(r)) = 2
    /\ \A c \in Cells : /\ Zero(c) \in Vector(c) /\ Zero(c)[1] = 0
                        /\ 1 \in 1 .. Width(c)
  <1>1. \A c \in Cells : Width(c) \in Nat /\ Width(c) >= 2
    BY TpAssumption DEF Width
  <1>2. Width(Command) = 1 + TpSize /\ Width(Demand) = 3 + TpSize
    BY CellFacts DEF Width
  <1>3. \A r \in Ranks : Width(Completion(r)) = 2
    BY CellFacts DEF Width
  <1> QED
    BY <1>1, <1>2, <1>3 DEF Zero, Vector

\* No cell has two writers.
LEMMA OwnFacts ==
    ASSUME NEW p \in Processes, NEW q \in Processes, NEW c, c \in Own(p), c \in Own(q)
    PROVE  p = q
  BY CellFacts, ProcessFacts DEF Own

\* Revisions alternate between even and odd.
LEMMA Parity ==
    \A n \in Nat : /\ n % 2 = 0 => (n + 1) % 2 = 1 /\ (n + 2) % 2 = 0
                   /\ n % 2 = 1 => (n + 1) % 2 = 0
                   /\ n % 2 \in {0, 1}
  OBVIOUS

\* An odd revision counts up to an even one that no reader takes for zero.
LEMMA OddUp == \A n \in Nat : n % 2 = 1 => (n + 1) % 2 = 0 /\ n + 1 >= 2
  OBVIOUS

\* Revisions and sequences are compared along chains.
LEMMA Chain == \A i, j, k \in Nat : i <= j /\ j <= k => i <= k
  OBVIOUS

\* A sequence below another one is at most that one.
LEMMA Weaken == \A i, j \in Nat : i < j => i <= j
  OBVIOUS

\* A count is at most itself and its successor.
LEMMA Successor == \A i \in Nat : i <= i /\ i <= i + 1 /\ i + 1 \in Nat
  OBVIOUS

\* What is at most a count lies strictly below its successor.
LEMMA BelowSuccessor == \A i, j \in Nat : i <= j => i <= j + 1 /\ i # j + 1
  OBVIOUS

\* The words of a publication lie below the revision that ends it.
LEMMA WordsBelow == \A w \in Nat : \A j \in 1 .. w : j < w + 1
  OBVIOUS

\* An even revision is not odd.
LEMMA EvenNotOdd == \A n : n % 2 = 0 => n % 2 # 1
  OBVIOUS

\* While every sequence only rises, no reader has seen a later one than stored.
LEMMA SeenKept ==
    ASSUME \A q \in Processes, d \in Cells :
              seen[q][d][1] \in Nat /\ seen[q][d][1] <= sequence(d),
           \A d \in Cells : sequence(d) \in Nat,
           UNCHANGED seen, NEW c \in Cells,
           \A d \in Cells : d # c => sequence(d)' = sequence(d),
           sequence(c)' \in Nat, sequence(c) <= sequence(c)'
    PROVE  \A q \in Processes, d \in Cells : seen'[q][d][1] <= sequence(d)'
  <1> TAKE q \in Processes, d \in Cells
  <1>1. seen'[q][d][1] \in Nat /\ seen'[q][d][1] <= sequence(d) /\ sequence(d) \in Nat
    BY Zenon
  <1>2. CASE d = c
    BY Zenon, <1>1, <1>2, Chain
  <1>3. CASE d # c
    BY Zenon, <1>1, <1>3
  <1> QED
    BY Zenon, <1>2, <1>3

-----------------------------------------------------------------------------
(* The invariant holds initially, and every step preserves it. *)

\* All cells are zero and no process is at one.
LEMMA InitInv == Init => Inv
  <1> SUFFICES ASSUME Init PROVE Inv
    OBVIOUS
  <1> USE CellFacts, ProcessFacts, WidthFacts
  <1>1. TypeOK
    BY BoundsAssumption DEF Init, TypeOK
  <1>2. OperationInv /\ ReadInv /\ NoCheckFails
    BY DEF Init, OperationInv, ReadInv, NoCheckFails, reading
  <1>3. CellInv
    BY DEF Init, CellInv, storing, sequence
  <1>4. HandshakeInv
    BY DEF Init, HandshakeInv, sequence
  <1> QED
    BY <1>1, <1>2, <1>3, <1>4 DEF Inv

\* Sequences and revisions are numbers.
LEMMA SequenceTypes ==
    ASSUME TypeOK
    PROVE  \A c \in Cells : sequence(c) \in Nat /\ revision[c] \in Nat
  <1> TAKE c \in Cells
  <1>1. current[c] \in Vector(c) /\ revision \in [Cells -> 0 .. MaxRevision]
    BY Zenon DEF TypeOK
  <1>2. 1 \in 1 .. Width(c)
    BY WidthFacts
  <1>3. current[c][1] \in Nat
    BY Zenon, <1>1, <1>2 DEF Vector
  <1>4. revision[c] \in Nat
    BY <1>1, BoundsAssumption
  <1> QED
    BY Zenon, <1>3, <1>4 DEF sequence

\* To turn to another cell keeps every type.
LEMMA TurnTypes ==
    ASSUME TypeOK, NEW p \in Processes, NEW g \in {"none", "poll", "check", "publish"},
           NEW c \in Cells, NEW v, Turn(p, g, c, v), UNCHANGED <<revision, word>>,
           \A d \in Cells : current'[d] \in Vector(d), DOMAIN current' = Cells,
           raised' \in {"no", "check", "exhausted"},
           DOMAIN seen' = Processes,
           \A q \in Processes : DOMAIN seen'[q] = Cells,
           \A q \in Processes, d \in Cells : seen'[q][d] \in Vector(d)
    PROVE  TypeOK'
  BY WidthFacts DEF TypeOK, Turn

\* A process that stores nothing may turn to another cell: it has then neither
\* loaded nor stored any of it.
LEMMA TurnKeepsCells ==
    ASSUME TypeOK, CellInv, ReadInv, NEW p \in Processes, NEW g, NEW c \in Cells, NEW v,
           goal[p] # "publish" \/ at[p] = 0, Turn(p, g, c, v), UNCHANGED memoryVars
    PROVE  CellInv' /\ ReadInv'
  <1>1. \A q \in Processes : q # p =>
            /\ goal'[q] = goal[q] /\ cell'[q] = cell[q] /\ at'[q] = at[q]
            /\ first'[q] = first[q] /\ buffer'[q] = buffer[q] /\ next'[q] = next[q]
    BY DEF TypeOK, Turn
  <1>2. at'[p] = 0
    BY DEF TypeOK, Turn
  <1>3. \A q \in Processes, d \in Cells : storing(q, d)' <=> storing(q, d)
    BY <1>1, <1>2 DEF storing
  <1>4. CellInv'
    BY <1>1, <1>2, <1>3 DEF CellInv, memoryVars, storing, sequence
  <1>5. ReadInv'
    BY <1>1, <1>2 DEF ReadInv, reading, memoryVars
  <1> QED
    BY <1>4, <1>5

\* What is left of the invariant when a process turns is that its purpose, cell
\* and publication fit.
LEMMA TurnKeepsInv ==
    ASSUME Inv, NEW p \in Processes, NEW g \in {"none", "poll", "check", "publish"},
           NEW c \in Cells, NEW v, goal[p] # "publish" \/ at[p] = 0,
           Turn(p, g, c, v), UNCHANGED memoryVars,
           raised' \in {"no", "exhausted"},
           DOMAIN seen' = Processes,
           \A q \in Processes : DOMAIN seen'[q] = Cells,
           \A q \in Processes, d \in Cells :
              seen'[q][d] \in Vector(d) /\ seen'[q][d][1] <= sequence(d),
           g = "check" => /\ c \in IF p = Daemon THEN Completions ELSE {Command}
                          /\ v \in Vector(IF p = Daemon THEN Command ELSE Completion(p)),
           g = "publish" => c \in Own(p) /\ v \in Vector(c),
           p = Daemon /\ g \in {"check", "publish"} =>
              /\ v[1] = sequence(Command) + 1
              /\ \A r \in Ranks : sequence(Completion(r)) = sequence(Command),
           p = Daemon /\ g = "check" => sequence(Command) # 0,
           p \in Ranks /\ (g = "check" \/ (g = "publish" /\ c = Completion(p))) =>
              v[1] = sequence(Command) /\ sequence(Completion(p)) < v[1],
           g = "publish" /\ c = Demand =>
              v[1] # 0 /\ v[1] = sequence(Completion(Leader))
    PROVE  Inv'
  <1>1. \A q \in Processes : q # p =>
            goal'[q] = goal[q] /\ cell'[q] = cell[q] /\ next'[q] = next[q]
    BY DEF Inv, TypeOK, Turn
  <1>2. goal'[p] = g /\ cell'[p] = c /\ next'[p] = v
    BY DEF Inv, TypeOK, Turn
  <1>3. \A d \in Cells : sequence(d)' = sequence(d)
    BY DEF memoryVars, sequence
  <1>4. TypeOK'
    BY Zenon, TurnTypes DEF Inv, TypeOK, memoryVars
  <1>5. OperationInv'
    BY <1>1, <1>2 DEF Inv, OperationInv
  <1>6. CellInv' /\ ReadInv'
    BY TurnKeepsCells DEF Inv
  <1>7. HandshakeInv'
    <2>1. /\ \A r \in Ranks : /\ (sequence(Completion(r)) <= sequence(Command))'
                              /\ (sequence(Command) <= sequence(Completion(r)) + 1)'
          /\ (sequence(Demand) <= sequence(Completion(Leader)))'
      BY <1>3, CellFacts, ProcessFacts DEF Inv, HandshakeInv
    <2>2. \A q \in Processes, d \in Cells : seen'[q][d][1] <= sequence(d)'
      BY <1>3
    <2>3. goal'[Daemon] \in {"check", "publish"} =>
             /\ next'[Daemon][1] = sequence(Command)' + 1
             /\ \A r \in Ranks : sequence(Completion(r))' = sequence(Command)'
      BY <1>1, <1>2, <1>3, CellFacts, ProcessFacts DEF Inv, HandshakeInv
    <2>4. goal'[Daemon] = "check" => sequence(Command)' # 0
      BY <1>1, <1>2, <1>3, CellFacts, ProcessFacts DEF Inv, HandshakeInv
    <2>5. ASSUME NEW r \in Ranks,
                 goal'[r] = "check" \/ (goal'[r] = "publish" /\ cell'[r] = Completion(r))
          PROVE  next'[r][1] = sequence(Command)' /\ sequence(Completion(r))' < next'[r][1]
      <3>1. sequence(Command)' = sequence(Command)
            /\ sequence(Completion(r))' = sequence(Completion(r))
        BY <1>3, CellFacts
      <3>2. CASE r = p
        BY <2>5, <3>1, <3>2, <1>2
      <3>3. CASE r # p
        <4>1. goal'[r] = goal[r] /\ cell'[r] = cell[r] /\ next'[r] = next[r]
          BY <1>1, <3>3, ProcessFacts
        <4> QED
          BY <2>5, <3>1, <4>1 DEF Inv, HandshakeInv
      <3> QED
        BY <3>2, <3>3
    <2>6. goal'[Leader] = "publish" /\ cell'[Leader] = Demand =>
             next'[Leader][1] # 0 /\ next'[Leader][1] = sequence(Completion(Leader))'
      BY <1>1, <1>2, <1>3, CellFacts, ProcessFacts DEF Inv, HandshakeInv
    <2> QED
      BY <2>1, <2>2, <2>3, <2>4, <2>5, <2>6 DEF HandshakeInv
  <1>8. NoCheckFails'
    BY DEF NoCheckFails
  <1> QED
    BY <1>4, <1>5, <1>6, <1>7, <1>8 DEF Inv

\* Nobody publishes a cell while it is checked: the daemon checks completions
\* when no rank owes one, a rank the command when it owes its completion.
LEMMA CheckExcludes ==
    ASSUME Inv, NEW p \in Processes, goal[p] = "check"
    PROVE  /\ \A q \in Processes : goal[q] = "publish" => cell[q] # cell[p]
           /\ sequence(cell[p]) = expected(p) /\ expected(p) # 0
           /\ cell[p] \in Cells
           /\ revision[cell[p]] % 2 = 0 /\ revision[cell[p]] >= 2
  <1>1. \A c \in Cells : sequence(c) \in Nat
    BY SequenceTypes DEF Inv
  <1>2. cell[p] \in Cells
    BY DEF Inv, TypeOK
  <1>3. CASE p = Daemon
    <2>1. PICK r \in Ranks : cell[p] = Completion(r)
      BY <1>3, CellFacts DEF Inv, OperationInv
    <2>2. /\ next[p][1] = sequence(Command) + 1 /\ sequence(Command) # 0
          /\ sequence(Completion(r)) = sequence(Command)
      BY <1>3, <2>1 DEF Inv, HandshakeInv
    <2>3. ASSUME NEW q \in Processes, goal[q] = "publish", cell[q] = Completion(r)
          PROVE  FALSE
      <3>1. q = r
        BY Zenon, <2>3, OwnFacts, ProcessFacts, CellFacts DEF Inv, OperationInv, Own
      <3>2. next[r][1] = sequence(Command) /\ sequence(Completion(r)) < next[r][1]
        BY <2>3, <3>1 DEF Inv, HandshakeInv
      <3> QED
        BY <3>2, <2>2, <1>1, CellFacts
    <2>4. sequence(cell[p]) = expected(p) /\ expected(p) # 0
      BY <1>1, <1>3, <2>1, <2>2, CellFacts DEF expected
    <2> QED
      BY <1>2, <2>1, <2>3, <2>4 DEF Inv, CellInv, storing
  <1>4. CASE p # Daemon
    <2>1. p \in Ranks /\ cell[p] = Command
      BY <1>4, ProcessFacts DEF Inv, OperationInv
    <2>2. next[p][1] = sequence(Command) /\ sequence(Completion(p)) < next[p][1]
      BY <2>1 DEF Inv, HandshakeInv
    <2>3. ASSUME NEW q \in Processes, goal[q] = "publish", cell[q] = Command
          PROVE  FALSE
      <3>1. q = Daemon
        BY Zenon, <2>3, OwnFacts, ProcessFacts, CellFacts DEF Inv, OperationInv, Own
      <3>2. sequence(Completion(p)) = sequence(Command)
        BY <2>1, <2>3, <3>1 DEF Inv, HandshakeInv
      <3> QED
        BY <3>2, <2>2, <2>1, <1>1, CellFacts
    <2>4. sequence(cell[p]) = expected(p) /\ expected(p) # 0
      BY <1>1, <1>4, <2>1, <2>2, CellFacts DEF expected
    <2> QED
      BY <1>2, <2>1, <2>3, <2>4 DEF Inv, CellInv, storing
  <1> QED
    BY <1>3, <1>4

\* A poll begins at a cell and remembers nothing of it.
LEMMA Poll ==
    ASSUME Inv, raised = "no", NEW p \in Processes, NEW c \in Cells, poll(p, c)
    PROVE  Inv'
  <1>1. /\ goal[p] # "publish" /\ Turn(p, "poll", c, next[p])
        /\ UNCHANGED memoryVars /\ UNCHANGED <<seen, raised>>
    BY DEF poll
  <1> QED
    BY Zenon, <1>1, TurnKeepsInv DEF Inv, TypeOK, HandshakeInv

\* The leader's snapshot is of publications that every rank may know.
LEMMA RequestBroadcast ==
    ASSUME Inv, request_broadcast
    PROVE  Inv'
  <1>1. UNCHANGED <<revision, word, current, goal, cell, at, first, buffer, next, raised>>
    BY DEF request_broadcast, memoryVars, operationVars
  <1>2. /\ DOMAIN seen' = Processes
        /\ \A q \in Processes : seen'[q] = seen[q] \/ seen'[q] = seen[Leader]
    BY DEF request_broadcast
  <1>3. Leader \in Processes
    BY ProcessFacts
  <1>4. TypeOK'
    BY <1>1, <1>2, <1>3 DEF Inv, TypeOK
  <1>5. HandshakeInv'
    <2>1. \A q \in Processes, c \in Cells : seen'[q][c][1] <= sequence(c)
      BY <1>2, <1>3 DEF Inv, HandshakeInv
    <2> QED
      BY <1>1, <2>1 DEF Inv, HandshakeInv, sequence
  <1>6. OperationInv' /\ CellInv' /\ ReadInv' /\ NoCheckFails'
    BY <1>1 DEF Inv, OperationInv, CellInv, ReadInv, NoCheckFails, storing, reading, sequence
  <1> QED
    BY <1>4, <1>5, <1>6 DEF Inv

\* The daemon prepares a command when it has seen every completion.
LEMMA PublishCommand ==
    ASSUME Inv, raised = "no", NEW v \in Vector(Command), publish_command(v)
    PROVE  Inv'
  <1>1. \A c \in Cells : sequence(c) \in Nat
    BY SequenceTypes DEF Inv
  <1>2. \A r \in Ranks : sequence(Completion(r)) = sequence(Command)
    <2> TAKE r \in Ranks
    <2>1. seen[Daemon][Completion(r)][1] = sequence(Command)
      BY DEF publish_command
    <2>2. /\ seen[Daemon][Completion(r)][1] <= sequence(Completion(r))
          /\ sequence(Completion(r)) <= sequence(Command)
      BY CellFacts, ProcessFacts DEF Inv, HandshakeInv
    <2> QED
      BY <1>1, <2>1, <2>2, CellFacts
  <1>3. /\ goal[Daemon] # "publish" /\ v[1] = sequence(Command) + 1
        /\ UNCHANGED memoryVars /\ UNCHANGED <<seen, raised>>
    BY DEF publish_command
  <1>4. CASE sequence(Command) = 0
    <2>1. Turn(Daemon, "publish", Command, v)
      BY <1>4 DEF publish_command
    <2> QED
      BY Zenon, <1>2, <1>3, <2>1, TurnKeepsInv, CellFacts, ProcessFacts
      DEF Inv, TypeOK, HandshakeInv, Own
  <1>5. CASE sequence(Command) # 0
    <2>1. Turn(Daemon, "check", Completion(1), v)
      BY <1>5 DEF publish_command
    <2> QED
      BY Zenon, <1>2, <1>3, <1>5, <2>1, TurnKeepsInv, CellFacts, ProcessFacts
      DEF Inv, TypeOK, HandshakeInv
  <1> QED
    BY <1>4, <1>5

\* A rank that knows a newer command than its completion knows the last one.
LEMMA PublishCompletion ==
    ASSUME Inv, raised = "no", NEW r \in Ranks, NEW v \in Vector(Completion(r)),
           publish_completion(r, v)
    PROVE  Inv'
  <1>1. \A c \in Cells : sequence(c) \in Nat
    BY SequenceTypes DEF Inv
  <1>2. v[1] = sequence(Command) /\ sequence(Completion(r)) < v[1]
    <2>1. /\ v[1] = seen[r][Command][1] /\ sequence(Completion(r)) < v[1]
          /\ seen[r][Command][1] <= sequence(Command)
          /\ sequence(Command) <= sequence(Completion(r)) + 1
      BY CellFacts, ProcessFacts DEF Inv, HandshakeInv, publish_completion
    <2>2. v[1] \in Nat
      BY WidthFacts, CellFacts DEF Vector
    <2> QED
      BY <1>1, <2>1, <2>2, CellFacts
  <1>3. /\ goal[r] # "publish" /\ Turn(r, "check", Command, v)
        /\ UNCHANGED memoryVars /\ UNCHANGED <<seen, raised>>
    BY DEF publish_completion
  <1> QED
    BY Zenon, <1>2, <1>3, TurnKeepsInv, CellFacts, ProcessFacts DEF Inv, TypeOK, HandshakeInv

\* A demand is never behind the one before: both are of the leader's completions.
LEMMA PublishDemand ==
    ASSUME Inv, raised = "no", NEW v \in Vector(Demand), publish_demand(v)
    PROVE  Inv'
  <1>1. sequence(Demand) <= sequence(Completion(Leader))
        /\ sequence(Demand) \in Nat /\ sequence(Completion(Leader)) \in Nat
    <2>1. \A c \in Cells : sequence(c) \in Nat
      BY SequenceTypes DEF Inv
    <2> QED
      BY <2>1, CellFacts, ProcessFacts DEF Inv, HandshakeInv
  <1>2. /\ goal[Leader] # "publish" /\ Turn(Leader, "publish", Demand, v)
        /\ v[1] = sequence(Completion(Leader)) /\ v[1] # 0
        /\ UNCHANGED memoryVars /\ UNCHANGED <<seen, raised>>
    BY <1>1 DEF publish_demand
  <1>3. Demand \in Own(Leader) /\ Demand # Completion(Leader)
    BY CellFacts, ProcessFacts DEF Own
  <1>4. /\ DOMAIN seen' = Processes
        /\ \A q \in Processes : DOMAIN seen'[q] = Cells
        /\ \A q \in Processes, d \in Cells :
              seen'[q][d] \in Vector(d) /\ seen'[q][d][1] <= sequence(d)
    BY <1>2 DEF Inv, TypeOK, HandshakeInv
  <1>5. Leader \in Processes /\ Leader # Daemon /\ Demand \in Cells
    BY CellFacts, ProcessFacts
  <1> QED
    BY <1>2, <1>3, <1>4, <1>5, TurnKeepsInv

\* A poll that ends remembers nothing or a publication that was whole; a check
\* never ends here.
LEMMA StopPoll ==
    ASSUME Inv, raised = "no", NEW p \in Processes, goal[p] = "poll", Stop(p),
           UNCHANGED memoryVars, UNCHANGED raised,
           seen' = seen \/ seen' = [seen EXCEPT ![p][cell[p]] = current[cell[p]]]
    PROVE  Inv'
  <1>1. cell[p] \in Cells /\ current[cell[p]] \in Vector(cell[p])
    BY DEF Inv, TypeOK
  <1>2. /\ DOMAIN seen' = Processes
        /\ \A q \in Processes : DOMAIN seen'[q] = Cells
        /\ \A q \in Processes, d \in Cells :
              seen'[q][d] = seen[q][d] \/ (d = cell[p] /\ seen'[q][d] = current[d])
    BY <1>1 DEF Inv, TypeOK
  <1>3. \A q \in Processes, d \in Cells :
              seen'[q][d] \in Vector(d) /\ seen'[q][d][1] <= sequence(d)
    <2> TAKE q \in Processes, d \in Cells
    <2>1. /\ seen[q][d] \in Vector(d) /\ seen[q][d][1] <= sequence(d)
          /\ current[d] \in Vector(d) /\ sequence(d) \in Nat
      BY SequenceTypes DEF Inv, TypeOK, HandshakeInv
    <2> QED
      BY <1>2, <2>1 DEF sequence
  <1>4. Command \in Cells /\ goal[p] # "publish"
    BY CellFacts
  <1> QED
    BY <1>2, <1>3, <1>4, TurnKeepsInv DEF Stop

\* What an access that only advances leaves alone.
LEMMA AdvanceFrame ==
    ASSUME TypeOK, NEW p \in Processes, Advance(p)
    PROVE  /\ at'[p] = at[p] + 1 /\ UNCHANGED <<goal, cell>>
           /\ \A q \in Processes : q # p => at'[q] = at[q]
           /\ at' \in [Processes -> Nat]
  BY DEF TypeOK, Advance

\* The first load of a revision opens a read.
LEMMA LoadRevision ==
    ASSUME Inv, raised = "no", NEW p \in Processes, load_revision(p)
    PROVE  Inv'
  <1>1. cell[p] \in Cells /\ revision[cell[p]] \in Nat /\ revision[cell[p]] % 2 \in {0, 1}
    BY SequenceTypes, Parity DEF Inv, TypeOK
  <1>2. CASE revision[cell[p]] = 0 \/ odd(revision[cell[p]])
    <2>1. nothing(p) /\ UNCHANGED memoryVars
      BY <1>2 DEF load_revision
    <2>2. goal[p] = "poll"
      BY <1>1, <1>2, CheckExcludes DEF load_revision, reading, odd
    <2> QED
      BY <2>1, <2>2, StopPoll DEF nothing
  <1>3. CASE ~(revision[cell[p]] = 0 \/ odd(revision[cell[p]]))
    <2>1. /\ first' = [first EXCEPT ![p] = revision[cell[p]]] /\ Advance(p)
          /\ UNCHANGED <<revision, word, current, buffer, next, seen, raised>>
          /\ at[p] = 0 /\ goal[p] \in {"poll", "check"}
      BY <1>3 DEF load_revision, memoryVars, reading
    <2>2. revision[cell[p]] % 2 = 0 /\ revision[cell[p]] >= 2
      BY <1>1, <1>3 DEF odd
    <2>3. /\ at'[p] = 1 /\ UNCHANGED <<goal, cell>>
          /\ \A q \in Processes : q # p => at'[q] = at[q]
          /\ at' \in [Processes -> Nat]
      BY <2>1, AdvanceFrame DEF Inv, TypeOK
    <2>4. /\ first'[p] = revision[cell[p]]
          /\ \A q \in Processes : q # p => first'[q] = first[q]
          /\ first' \in [Processes -> Nat]
      BY <1>1, <2>1 DEF Inv, TypeOK
    <2>5. TypeOK'
      <3>1. \A q \in Processes : at'[q] <= Width(cell[q]) + 1
        BY <1>1, <2>3, WidthFacts DEF Inv, TypeOK
      <3> QED
        BY <2>1, <2>3, <2>4, <3>1 DEF Inv, TypeOK
    <2>6. OperationInv'
      BY <2>1, <2>3 DEF Inv, OperationInv
    <2>7. \A q \in Processes, c \in Cells : storing(q, c) => q # p
      BY <2>1 DEF storing
    <2>8. \A q \in Processes, c \in Cells : storing(q, c)' <=> storing(q, c)
      BY <2>1, <2>3 DEF storing
    <2>9. CellInv'
      BY <2>1, <2>3, <2>4, <2>7, <2>8 DEF Inv, CellInv, sequence
    <2>10. ReadInv'
      <3> SUFFICES ASSUME NEW q \in Processes, reading(q)', at'[q] # 0
                   PROVE  /\ first'[q] % 2 = 0 /\ first'[q] >= 2
                          /\ first'[q] <= revision[cell[q]]
                          /\ revision[cell[q]] = first'[q] =>
                                \A j \in 1 .. Width(cell[q]) :
                                   j < at'[q] => buffer[q][j] = current[cell[q]][j]
                          /\ goal[q] = "check" => revision[cell[q]] = first'[q]
        BY <2>1, <2>3 DEF ReadInv
      <3>1. CASE q = p
        BY <1>1, <2>2, <2>3, <2>4, <3>1
      <3>2. CASE q # p
        BY Zenon, <2>3, <2>4, <3>2 DEF Inv, ReadInv, reading
      <3> QED
        BY Zenon, <3>1, <3>2
    <2>11. HandshakeInv' /\ NoCheckFails'
      BY Zenon, <2>1, <2>3 DEF Inv, HandshakeInv, NoCheckFails, sequence
    <2> QED
      BY <2>5, <2>6, <2>9, <2>10, <2>11 DEF Inv
  <1> QED
    BY <1>2, <1>3

\* A word loaded while the revision is still the first one is the cell's.
LEMMA LoadWord ==
    ASSUME Inv, NEW p \in Processes, load_word(p)
    PROVE  Inv'
  <1> DEFINE i == at[p]
             c == cell[p]
  <1>1. c \in Cells /\ i \in 1 .. Width(c) /\ Width(c) \in Nat
        /\ buffer[p] \in Vector(c) /\ word[c] \in Vector(c) /\ revision[c] \in Nat
    BY WidthFacts, SequenceTypes DEF Inv, TypeOK, load_word
  <1>2. /\ buffer' = [buffer EXCEPT ![p][i] = word[c][i]] /\ Advance(p)
        /\ UNCHANGED <<revision, word, current, first, next, seen, raised>>
        /\ goal[p] \in {"poll", "check"}
    BY DEF load_word, memoryVars, reading
  <1>3. /\ at'[p] = i + 1 /\ UNCHANGED <<goal, cell>>
        /\ \A q \in Processes : q # p => at'[q] = at[q]
        /\ at' \in [Processes -> Nat]
    BY <1>2, AdvanceFrame DEF Inv
  <1>4. /\ buffer'[p] \in Vector(c) /\ buffer'[p][i] = word[c][i]
        /\ \A j \in 1 .. Width(c) : j # i => buffer'[p][j] = buffer[p][j]
        /\ \A q \in Processes : q # p => buffer'[q] = buffer[q]
        /\ DOMAIN buffer' = Processes
    BY <1>1, <1>2 DEF Inv, TypeOK, Vector
  <1>5. TypeOK'
    <2>1. \A q \in Processes : at'[q] <= Width(cell[q]) + 1
      BY <1>1, <1>3 DEF Inv, TypeOK
    <2>2. \A q \in Processes : buffer'[q] \in Vector(cell[q])
      BY <1>4 DEF Inv, TypeOK
    <2> QED
      BY <1>2, <1>3, <1>4, <2>1, <2>2 DEF Inv, TypeOK
  <1>6. OperationInv'
    BY <1>2, <1>3 DEF Inv, OperationInv
  <1>7. \A q \in Processes, d \in Cells : storing(q, d) => q # p
    BY <1>2 DEF storing
  <1>8. \A q \in Processes, d \in Cells : storing(q, d)' <=> storing(q, d)
    BY <1>2, <1>3 DEF storing
  <1>9. CellInv'
    BY <1>2, <1>3, <1>7, <1>8 DEF Inv, CellInv, sequence
  <1>10. ReadInv'
    <2> SUFFICES ASSUME NEW q \in Processes, reading(q)', at'[q] # 0
                 PROVE  /\ first[q] % 2 = 0 /\ first[q] >= 2
                        /\ first[q] <= revision[cell[q]]
                        /\ revision[cell[q]] = first[q] =>
                              \A j \in 1 .. Width(cell[q]) :
                                 j < at'[q] => buffer'[q][j] = current[cell[q]][j]
                        /\ goal[q] = "check" => revision[cell[q]] = first[q]
      BY <1>2, <1>3 DEF ReadInv
    <2>1. CASE q = p
      <3>1. /\ first[p] % 2 = 0 /\ first[p] >= 2 /\ first[p] <= revision[c]
            /\ revision[c] = first[p] =>
                  \A j \in 1 .. Width(c) : j < i => buffer[p][j] = current[c][j]
            /\ goal[p] = "check" => revision[c] = first[p]
        BY <1>1, <1>2 DEF Inv, ReadInv, reading
      <3>2. revision[c] = first[p] => word[c] = current[c]
        <4>1. /\ (\A r \in Processes : ~storing(r, c)) => word[c] = current[c]
              /\ \A r \in Processes : storing(r, c) => revision[c] % 2 = 1
          BY Zenon, <1>1 DEF Inv, CellInv
        <4>2. revision[c] = first[p] => revision[c] % 2 # 1
          BY Zenon, <3>1, EvenNotOdd
        <4> QED
          BY Zenon, <4>1, <4>2
      <3>3. revision[c] = first[p] =>
               \A j \in 1 .. Width(c) : j < i + 1 => buffer'[p][j] = current[c][j]
        <4> SUFFICES ASSUME revision[c] = first[p], NEW j \in 1 .. Width(c), j < i + 1
                     PROVE  buffer'[p][j] = current[c][j]
          OBVIOUS
        <4>1. CASE j = i
          BY Zenon, <1>4, <3>2, <4>1
        <4>2. CASE j # i
          <5>1. j < i
            BY <1>1, <4>2
          <5> QED
            BY Zenon, <1>4, <3>1, <4>2, <5>1
        <4> QED
          BY <4>1, <4>2
      <3> QED
        BY <1>3, <2>1, <3>1, <3>3
    <2>2. CASE q # p
      <3>1. at'[q] = at[q] /\ buffer'[q] = buffer[q] /\ reading(q)
        BY Zenon, <1>3, <1>4, <2>2 DEF reading
      <3> QED
        BY Zenon, <3>1 DEF Inv, ReadInv
    <2> QED
      BY <2>1, <2>2
  <1>11. HandshakeInv' /\ NoCheckFails'
    BY <1>2, <1>3 DEF Inv, HandshakeInv, NoCheckFails, sequence
  <1> QED
    BY <1>5, <1>6, <1>9, <1>10, <1>11 DEF Inv

\* A check that succeeds goes on to the next rank, or to the publication.
LEMMA Checked ==
    ASSUME Inv, raised = "no", NEW p \in Processes, goal[p] = "check", checked(p),
           UNCHANGED memoryVars
    PROVE  Inv'
  <1> DEFINE c == IF p = Daemon THEN Command ELSE Completion(p)
  <1>1. /\ DOMAIN seen' = Processes /\ raised' \in {"no", "exhausted"}
        /\ \A q \in Processes : DOMAIN seen'[q] = Cells
        /\ \A q \in Processes, d \in Cells :
              seen'[q][d] \in Vector(d) /\ seen'[q][d][1] <= sequence(d)
    BY Zenon DEF Inv, TypeOK, HandshakeInv, checked
  <1>2. /\ next[p] \in Vector(c)
        /\ cell[p] \in IF p = Daemon THEN Completions ELSE {Command}
    BY DEF Inv, OperationInv
  <1>3. /\ p = Daemon => /\ next[p][1] = sequence(Command) + 1 /\ sequence(Command) # 0
                         /\ \A r \in Ranks : sequence(Completion(r)) = sequence(Command)
        /\ p \in Ranks => /\ next[p][1] = sequence(Command)
                          /\ sequence(Completion(p)) < next[p][1]
    BY DEF Inv, HandshakeInv
  <1>4. c \in Cells /\ c \in Own(p) /\ c # Demand
    BY CellFacts, ProcessFacts DEF Own
  <1>5. CASE p = Daemon /\ cell[p] # Completion(TpSize)
    <2>1. PICK r \in Ranks : cell[p] = Completion(r)
      BY <1>2, <1>5, CellFacts
    <2>2. r + 1 \in Ranks /\ cell[p][2] = r
      BY <1>5, <2>1, CellFacts, ProcessFacts
    <2>3. Turn(p, "check", Completion(r + 1), next[p])
      BY <1>5, <2>2 DEF checked
    <2>4. Completion(r + 1) \in Cells /\ Completion(r + 1) \in Completions
      BY <2>2, CellFacts
    <2> QED
      BY Zenon, <1>1, <1>2, <1>3, <1>5, <2>3, <2>4, ProcessFacts, TurnKeepsInv
  <1>6. CASE ~(p = Daemon /\ cell[p] # Completion(TpSize))
    <2>1. Turn(p, "publish", c, next[p])
      BY <1>6 DEF checked
    <2> HIDE DEF c
    <2> QED
      BY <1>1, <1>2, <1>3, <1>4, <2>1, TurnKeepsInv
  <1> QED
    BY <1>5, <1>6

\* A read that ends with its revision unchanged has a whole publication.
LEMMA ReadIsWhole ==
    ASSUME Inv, NEW p \in Processes, reading(p), at[p] = Width(cell[p]) + 1,
           revision[cell[p]] = first[p]
    PROVE  buffer[p] = current[cell[p]] /\ cell[p] \in Cells /\ sequence(cell[p]) # 0
  <1>1. /\ cell[p] \in Cells /\ buffer[p] \in Vector(cell[p])
        /\ current[cell[p]] \in Vector(cell[p])
        /\ Width(cell[p]) \in Nat
    BY WidthFacts DEF Inv, TypeOK
  <1>2. \A j \in 1 .. Width(cell[p]) : j < at[p] => buffer[p][j] = current[cell[p]][j]
    BY <1>1 DEF Inv, ReadInv
  <1>3. \A j \in 1 .. Width(cell[p]) : buffer[p][j] = current[cell[p]][j]
    BY <1>1, <1>2
  <1>4. first[p] >= 2
    BY <1>1 DEF Inv, ReadInv
  <1> QED
    BY <1>1, <1>3, <1>4 DEF Vector, Inv, CellInv

\* The second load of the revision ends a poll, or takes a check further.
LEMMA ReloadRevision ==
    ASSUME Inv, raised = "no", NEW p \in Processes, reload_revision(p)
    PROVE  Inv'
  <1>1. /\ reading(p) /\ at[p] = Width(cell[p]) + 1 /\ UNCHANGED memoryVars
    BY DEF reload_revision
  <1>2. cell[p] \in Cells /\ Width(cell[p]) \in Nat
    BY WidthFacts DEF Inv, TypeOK
  <1>3. ASSUME goal[p] = "check"
        PROVE  /\ revision[cell[p]] = first[p] /\ buffer[p][1] = expected(p)
               /\ buffer[p][1] # 0
    <2>1. revision[cell[p]] = first[p]
      BY <1>1, <1>2, <1>3 DEF Inv, ReadInv
    <2> QED
      BY <1>1, <1>3, <2>1, ReadIsWhole, CheckExcludes DEF sequence
  <1>4. CASE goal[p] = "check"
    <2>1. checked(p)
      BY <1>3, <1>4 DEF reload_revision, got
    <2> QED
      BY <1>1, <1>4, <2>1, Checked
  <1>5. CASE goal[p] = "poll" /\ revision[cell[p]] = first[p] /\ buffer[p][1] # 0
    <2>1. /\ Stop(p) /\ seen' = [seen EXCEPT ![p][cell[p]] = buffer[p]]
          /\ UNCHANGED raised
      BY <1>5 DEF reload_revision, got
    <2> QED
      BY Zenon, <1>1, <1>5, <2>1, ReadIsWhole, StopPoll
  <1>6. CASE goal[p] = "poll" /\ ~(revision[cell[p]] = first[p] /\ buffer[p][1] # 0)
    <2>1. nothing(p)
      BY <1>6 DEF reload_revision
    <2> QED
      BY <1>1, <1>6, <2>1, StopPoll DEF nothing
  <1> QED
    BY <1>1, <1>4, <1>5, <1>6 DEF reading

\* A publication has one writer, and a sequence of its own.
LEMMA WriterFacts ==
    ASSUME Inv, NEW p \in Processes, goal[p] = "publish"
    PROVE  /\ cell[p] \in Cells /\ cell[p] \in Own(p) /\ next[p] \in Vector(cell[p])
           /\ \A q \in Processes : q # p => ~storing(q, cell[p])
           /\ \A q \in Processes : goal[q] = "check" => cell[q] # cell[p]
           /\ next[p][1] # 0
  <1>1. cell[p] \in Cells /\ cell[p] \in Own(p) /\ next[p] \in Vector(cell[p])
    BY DEF Inv, TypeOK, OperationInv
  <1>2. \A q \in Processes : q # p => ~storing(q, cell[p])
    BY <1>1, OwnFacts DEF storing, Inv, OperationInv
  <1>3. \A q \in Processes : goal[q] = "check" => cell[q] # cell[p]
    BY CheckExcludes
  <1>4. next[p][1] # 0
    <2>1. \A c \in Cells : sequence(c) \in Nat
      BY SequenceTypes DEF Inv
    <2>2. next[p][1] \in Nat
      BY <1>1, WidthFacts DEF Vector
    <2>3. CASE p = Daemon
      BY <2>1, <2>3, CellFacts DEF Inv, HandshakeInv
    <2>4. CASE p \in Ranks /\ cell[p] = Completion(p)
      BY <2>1, <2>2, <2>4, CellFacts DEF Inv, HandshakeInv
    <2>5. CASE p = Leader /\ cell[p] = Demand
      BY <2>5 DEF Inv, HandshakeInv
    <2> QED
      BY <1>1, <2>3, <2>4, <2>5, ProcessFacts DEF Own
  <1> QED
    BY <1>1, <1>2, <1>3, <1>4

\* The odd revision opens the cell for its writer and closes it to readers.
LEMMA BeginPublication ==
    ASSUME Inv, raised = "no", NEW p \in Processes, begin_publication(p)
    PROVE  Inv'
  <1>0. PICK c \in Cells : cell[p] = c
    BY DEF Inv, TypeOK
  <1> USE <1>0
  <1>1. /\ goal[p] = "publish" /\ at[p] = 0 /\ UNCHANGED <<word, current, seen>>
    BY DEF begin_publication
  <1>2. /\ c \in Cells /\ next[p] \in Vector(c)
        /\ \A q \in Processes : ~storing(q, c)
        /\ \A q \in Processes : goal[q] = "check" => cell[q] # c
    BY <1>1, WriterFacts DEF storing
  <1>3. revision[c] \in Nat /\ revision[c] % 2 = 0 /\ word[c] = current[c]
    BY Zenon, <1>2, SequenceTypes DEF Inv, CellInv
  <1>4. CASE revision[c] + 2 > MaxRevision
    <2>1. Stop(p) /\ UNCHANGED memoryVars /\ raised' = "exhausted"
      BY Zenon, <1>1, <1>4 DEF begin_publication, memoryVars
    <2>2. /\ DOMAIN seen' = Processes
          /\ \A q \in Processes : DOMAIN seen'[q] = Cells
          /\ \A q \in Processes, d \in Cells :
                seen'[q][d] \in Vector(d) /\ seen'[q][d][1] <= sequence(d)
      <3>1. /\ DOMAIN seen = Processes
            /\ \A q \in Processes : DOMAIN seen[q] = Cells
                  /\ \A d \in Cells : seen[q][d] \in Vector(d)
        BY Zenon DEF Inv, TypeOK
      <3>2. \A q \in Processes, d \in Cells : seen[q][d][1] <= sequence(d)
        BY Zenon DEF Inv, HandshakeInv
      <3> QED
        BY Zenon, <1>1, <3>1, <3>2
    <2> QED
      BY Zenon, <1>1, <2>1, <2>2, CellFacts, TurnKeepsInv DEF Stop
  <1>5. CASE ~(revision[c] + 2 > MaxRevision)
    <2>1. /\ first' = [first EXCEPT ![p] = revision[c] + 2]
          /\ revision' = [revision EXCEPT ![c] = revision[c] + 1]
          /\ Advance(p) /\ UNCHANGED <<word, current, seen, buffer, next, raised>>
      BY <1>1, <1>3, <1>5 DEF begin_publication, odd
    <2>2. /\ at'[p] = 1 /\ UNCHANGED <<goal, cell>>
          /\ \A q \in Processes : q # p => at'[q] = at[q]
          /\ at' \in [Processes -> Nat]
      BY <1>1, <2>1, AdvanceFrame DEF Inv, TypeOK
    <2>3. /\ first'[p] = revision[c] + 2 /\ revision'[c] = revision[c] + 1
          /\ \A q \in Processes : q # p => first'[q] = first[q]
          /\ \A d \in Cells : d # c => revision'[d] = revision[d]
          /\ first' \in [Processes -> Nat] /\ revision' \in [Cells -> 0 .. MaxRevision]
      <3>1. first \in [Processes -> Nat] /\ revision \in [Cells -> 0 .. MaxRevision]
        BY Zenon DEF Inv, TypeOK
      <3>2. revision[c] + 2 \in Nat /\ revision[c] + 1 \in 0 .. MaxRevision
        BY <1>3, <1>5, BoundsAssumption
      <3>3. /\ first'[p] = revision[c] + 2 /\ first' \in [Processes -> Nat]
            /\ \A q \in Processes : q # p => first'[q] = first[q]
        BY <2>1, <3>1, <3>2
      <3>4. /\ revision'[c] = revision[c] + 1 /\ revision' \in [Cells -> 0 .. MaxRevision]
            /\ \A d \in Cells : d # c => revision'[d] = revision[d]
        BY <2>1, <3>1, <3>2
      <3> QED
        BY Zenon, <3>3, <3>4
    <2>4. revision'[c] % 2 = 1 /\ revision'[c] \in Nat
      BY <1>3, <2>3, Parity
    <2>5. TypeOK'
      <3>1. \A q \in Processes : at'[q] <= Width(cell[q]) + 1
        BY <1>2, <2>2, WidthFacts DEF Inv, TypeOK
      <3> QED
        BY Zenon, <2>1, <2>2, <2>3, <3>1 DEF Inv, TypeOK
    <2>6. OperationInv'
      BY Zenon, <2>1, <2>2 DEF Inv, OperationInv
    <2>7. CellInv'
      <3> DEFINE Holds(d) ==
                   /\ (\A q \in Processes : ~storing(q, d)')
                         => revision'[d] % 2 = 0 /\ word'[d] = current'[d]
                   /\ \A q \in Processes : storing(q, d)' =>
                         /\ revision'[d] % 2 = 1
                         /\ first'[q] = revision'[d] + 1 /\ first'[q] <= MaxRevision
                         /\ \A j \in 1 .. Width(d) :
                            word'[d][j] = IF j < at'[q] THEN next'[q][j] ELSE current'[d][j]
                   /\ sequence(d)' # 0 <=> revision'[d] >= 2
      <3>1. \A q \in Processes, d \in Cells :
               storing(q, d)' <=> storing(q, d) \/ (q = p /\ d = c)
        BY <1>1, <2>2 DEF storing
      <3>2. ASSUME NEW d \in Cells, d # c
            PROVE  Holds(d)
        <4>1. \A q \in Processes : storing(q, d) => q # p
          BY <1>1 DEF storing
        <4>2. \A q \in Processes : storing(q, d)' <=> storing(q, d)
          BY Zenon, <3>1, <3>2
        <4>3. /\ revision'[d] = revision[d] /\ sequence(d)' = sequence(d)
              /\ \A q \in Processes : storing(q, d) => first'[q] = first[q] /\ at'[q] = at[q]
          BY Zenon, <2>1, <2>2, <2>3, <3>2, <4>1 DEF sequence
        <4>4. /\ (\A q \in Processes : ~storing(q, d))
                   => revision[d] % 2 = 0 /\ word[d] = current[d]
              /\ \A q \in Processes : storing(q, d) =>
                   /\ revision[d] % 2 = 1
                   /\ first[q] = revision[d] + 1 /\ first[q] <= MaxRevision
                   /\ \A j \in 1 .. Width(d) :
                      word[d][j] = IF j < at[q] THEN next[q][j] ELSE current[d][j]
              /\ sequence(d) # 0 <=> revision[d] >= 2
          BY Zenon DEF Inv, CellInv
        <4> QED
          BY Zenon, <2>1, <4>2, <4>3, <4>4
      <3>3. \A q \in Processes : storing(q, c)' => q = p
        BY <1>2, <3>1
      <3>4. /\ storing(p, c)' /\ first'[p] = revision'[c] + 1 /\ first'[p] <= MaxRevision
            /\ \A j \in 1 .. Width(c) :
                  word'[c][j] = IF j < at'[p] THEN next'[p][j] ELSE current'[c][j]
        <4>1. storing(p, c)'
          BY Zenon, <3>1
        <4>2. first'[p] = revision'[c] + 1 /\ first'[p] <= MaxRevision
          BY <1>3, <1>5, <2>3, BoundsAssumption
        <4>3. word'[c] = current'[c]
          BY Zenon, <1>3, <2>1
        <4>4. \A j \in 1 .. Width(c) : ~(j < at'[p])
          BY <2>2, WidthFacts
        <4> QED
          BY Zenon, <4>1, <4>2, <4>3, <4>4
      <3>5. sequence(c)' # 0 <=> revision'[c] >= 2
        <4>1. sequence(c)' = sequence(c) /\ (sequence(c) # 0 <=> revision[c] >= 2)
          BY Zenon, <1>2, <2>1 DEF Inv, CellInv, sequence
        <4> QED
          BY <1>3, <2>3, <4>1
      <3>6. Holds(c)
        BY Zenon, <2>4, <3>3, <3>4, <3>5
      <3>7. \A d \in Cells : Holds(d)
        <4> HIDE DEF Holds
        <4> QED
          BY Zenon, <3>2, <3>6
      <3> QED
        BY Zenon, <3>7 DEF CellInv
    <2>8. ReadInv'
      <3> SUFFICES ASSUME NEW q \in Processes, reading(q), at[q] # 0
                   PROVE  /\ first[q] % 2 = 0 /\ first[q] >= 2
                          /\ first[q] <= revision'[cell[q]]
                          /\ revision'[cell[q]] = first[q] =>
                                \A j \in 1 .. Width(cell[q]) :
                                   j < at[q] => buffer[q][j] = current[cell[q]][j]
                          /\ goal[q] = "check" => revision'[cell[q]] = first[q]
        <4>1. \A q \in Processes : reading(q)' => q # p /\ reading(q)
          BY Zenon, <1>1, <2>2 DEF reading
        <4>2. \A q \in Processes : q # p => first'[q] = first[q] /\ at'[q] = at[q]
          BY Zenon, <2>2, <2>3
        <4>3. /\ cell' = cell /\ goal' = goal /\ buffer' = buffer /\ current' = current
          BY Zenon, <2>1, <2>2
        <4>4. \A r \in Processes : reading(r)' /\ at'[r] # 0 =>
                 reading(r) /\ at[r] # 0 /\ first'[r] = first[r] /\ at'[r] = at[r]
          BY Zenon, <4>1, <4>2
        <4> QED
          BY Zenon, <4>3, <4>4 DEF ReadInv
      <3>1. /\ first[q] % 2 = 0 /\ first[q] >= 2 /\ first[q] <= revision[cell[q]]
            /\ revision[cell[q]] = first[q] =>
                  \A j \in 1 .. Width(cell[q]) :
                     j < at[q] => buffer[q][j] = current[cell[q]][j]
            /\ goal[q] = "check" => revision[cell[q]] = first[q]
        BY Zenon DEF Inv, ReadInv
      <3>2. CASE cell[q] = c
        <4>1. first[q] \in Nat /\ goal[q] # "check" /\ first[q] <= revision[c]
          BY Zenon, <1>2, <3>1, <3>2 DEF Inv, TypeOK
        <4>2. first[q] <= revision'[c] /\ first[q] # revision'[c]
          <5>1. revision[c] \in Nat /\ revision'[c] = revision[c] + 1
            BY Zenon, <1>3, <2>3
          <5> QED
            BY <4>1, <5>1
        <4> QED
          BY Zenon, <3>1, <3>2, <4>1, <4>2
      <3>3. CASE cell[q] # c
        <4>1. revision'[cell[q]] = revision[cell[q]]
          BY Zenon, <2>3, <3>3 DEF Inv, TypeOK
        <4> QED
          BY Zenon, <3>1, <4>1
      <3> QED
        BY Zenon, <3>2, <3>3
    <2>9. HandshakeInv' /\ NoCheckFails'
      BY Zenon, <2>1, <2>2 DEF Inv, HandshakeInv, NoCheckFails, sequence
    <2> QED
      BY <2>5, <2>6, <2>7, <2>8, <2>9 DEF Inv
  <1> QED
    BY <1>4, <1>5

\* Words are stored in order, under an odd revision.
LEMMA StoreWord ==
    ASSUME Inv, NEW p \in Processes, store_word(p)
    PROVE  Inv'
  <1>0. PICK c \in Cells : cell[p] = c
    BY Zenon DEF Inv, TypeOK
  <1> USE <1>0
  <1> DEFINE i == at[p]
  <1>1. /\ goal[p] = "publish" /\ i \in 1 .. Width(c) /\ Width(c) \in Nat
        /\ word' = [word EXCEPT ![c][i] = next[p][i]] /\ Advance(p)
        /\ UNCHANGED <<revision, current, first, buffer, next, seen, raised>>
    BY WidthFacts DEF store_word
  <1>2. /\ next[p] \in Vector(c) /\ word[c] \in Vector(c)
        /\ \A q \in Processes : q # p => ~storing(q, c)
        /\ storing(p, c)
    BY <1>1, WriterFacts DEF storing, Inv, TypeOK
  <1>3. /\ at'[p] = i + 1 /\ UNCHANGED <<goal, cell>>
        /\ \A q \in Processes : q # p => at'[q] = at[q]
        /\ at' \in [Processes -> Nat]
    BY <1>1, AdvanceFrame DEF Inv
  <1>4. /\ word'[c] \in Vector(c) /\ word'[c][i] = next[p][i]
        /\ \A j \in 1 .. Width(c) : j # i => word'[c][j] = word[c][j]
        /\ \A d \in Cells : d # c => word'[d] = word[d]
        /\ DOMAIN word' = Cells
    BY <1>1, <1>2 DEF Inv, TypeOK, Vector
  <1>5. TypeOK'
    <2>1. \A q \in Processes : at'[q] <= Width(cell[q]) + 1
      BY <1>1, <1>3 DEF Inv, TypeOK
    <2>2. \A d \in Cells : word'[d] \in Vector(d)
      BY <1>4 DEF Inv, TypeOK
    <2> QED
      BY <1>1, <1>3, <1>4, <2>1, <2>2 DEF Inv, TypeOK
  <1>6. OperationInv'
    BY <1>1, <1>3 DEF Inv, OperationInv
  <1>7. CellInv'
    <2>1. \A q \in Processes, d \in Cells : storing(q, d)' <=> storing(q, d)
      BY <1>1, <1>2, <1>3 DEF storing
    <2>2. ASSUME NEW d \in Cells, d # c
          PROVE  /\ (\A q \in Processes : ~storing(q, d)')
                       => revision'[d] % 2 = 0 /\ word'[d] = current'[d]
                 /\ \A q \in Processes : storing(q, d)' =>
                       /\ revision'[d] % 2 = 1
                       /\ first'[q] = revision'[d] + 1 /\ first'[q] <= MaxRevision
                       /\ \A j \in 1 .. Width(d) :
                          word'[d][j] = IF j < at'[q] THEN next'[q][j] ELSE current'[d][j]
                 /\ sequence(d)' # 0 <=> revision'[d] >= 2
      <3>1. \A q \in Processes : storing(q, d) => q # p
        BY <2>2 DEF storing
      <3> QED
        BY <1>1, <1>3, <1>4, <2>1, <2>2, <3>1 DEF Inv, CellInv, sequence
    <2>3. \A j \in 1 .. Width(c) :
             word'[c][j] = IF j < at'[p] THEN next'[p][j] ELSE current'[c][j]
      <3>1. \A j \in 1 .. Width(c) :
               word[c][j] = IF j < i THEN next[p][j] ELSE current[c][j]
        BY <1>2 DEF Inv, CellInv
      <3> QED
        BY <1>1, <1>3, <1>4, <3>1
    <2>4. /\ revision'[c] % 2 = 1
          /\ first'[p] = revision'[c] + 1 /\ first'[p] <= MaxRevision
          /\ sequence(c)' # 0 <=> revision'[c] >= 2
      BY <1>1, <1>2 DEF Inv, CellInv, sequence
    <2>5. storing(p, c)' /\ \A q \in Processes : storing(q, c)' => q = p
      BY <1>2, <2>1
    <2> QED
      BY Zenon, <2>2, <2>3, <2>4, <2>5 DEF CellInv
  <1>8. ReadInv'
    <2>1. \A q \in Processes : reading(q)' => q # p /\ reading(q)
      BY <1>1, <1>3 DEF reading
    <2> QED
      BY <1>1, <1>3, <2>1 DEF Inv, ReadInv
  <1>9. HandshakeInv' /\ NoCheckFails'
    BY <1>1, <1>3 DEF Inv, HandshakeInv, NoCheckFails, sequence
  <1> QED
    BY <1>5, <1>6, <1>7, <1>8, <1>9 DEF Inv

\* What a publication that ends changes.
LEMMA EndFrame ==
    ASSUME Inv, NEW p \in Processes, NEW c \in Cells, cell[p] = c, end_publication(p)
    PROVE  /\ goal[p] = "publish" /\ c \in Own(p)
           /\ goal'[p] = "none" /\ at'[p] = 0 /\ cell'[p] = Command
           /\ \A q \in Processes : q # p =>
                 /\ goal'[q] = goal[q] /\ cell'[q] = cell[q] /\ at'[q] = at[q]
                 /\ first'[q] = first[q] /\ buffer'[q] = buffer[q] /\ next'[q] = next[q]
           /\ current'[c] = next[p] /\ next[p] \in Vector(c)
           /\ \A d \in Cells : d # c => current'[d] = current[d] /\ revision'[d] = revision[d]
           /\ revision'[c] = first[p] /\ first[p] = revision[c] + 1
           /\ revision[c] \in Nat /\ revision[c] % 2 = 1 /\ first[p] <= MaxRevision
           /\ word[c] = next[p]
           /\ DOMAIN current' = Cells /\ DOMAIN revision' = Cells
           /\ UNCHANGED <<word, seen, raised>>
  <1>1. /\ goal[p] = "publish" /\ at[p] = Width(c) + 1 /\ Stop(p)
        /\ revision' = [revision EXCEPT ![c] = first[p]]
        /\ current' = [current EXCEPT ![c] = next[p]]
        /\ UNCHANGED <<word, seen, raised>>
    BY Zenon DEF end_publication
  <1>2. Width(c) \in Nat /\ storing(p, c) /\ next[p] \in Vector(c) /\ c \in Own(p)
        /\ word[c] \in Vector(c)
    <2>1. Width(c) \in Nat /\ at[p] # 0 /\ storing(p, c)
      BY <1>1, WidthFacts DEF storing
    <2>2. word[c] \in Vector(c)
      BY Zenon DEF Inv, TypeOK
    <2> QED
      BY Zenon, <1>1, <2>1, <2>2, WriterFacts
  <1>3. /\ first[p] = revision[c] + 1 /\ revision[c] % 2 = 1 /\ first[p] <= MaxRevision
        /\ \A j \in 1 .. Width(c) :
              word[c][j] = IF j < at[p] THEN next[p][j] ELSE current[c][j]
    BY Zenon, <1>2 DEF Inv, CellInv
  <1>4. \A j \in 1 .. Width(c) : word[c][j] = next[p][j]
    <2>1. \A j \in 1 .. Width(c) : j < at[p]
      BY Zenon, <1>1, <1>2, WordsBelow
    <2> QED
      BY Zenon, <1>3, <2>1
  <1>5. word[c] = next[p]
    BY <1>2, <1>4 DEF Vector
  <1>6. /\ goal'[p] = "none" /\ at'[p] = 0 /\ cell'[p] = Command
        /\ \A q \in Processes : q # p =>
              /\ goal'[q] = goal[q] /\ cell'[q] = cell[q] /\ at'[q] = at[q]
              /\ first'[q] = first[q] /\ buffer'[q] = buffer[q] /\ next'[q] = next[q]
    BY <1>1 DEF Stop, Turn, Inv, TypeOK
  <1>7. /\ current'[c] = next[p] /\ revision'[c] = first[p]
        /\ \A d \in Cells : d # c => current'[d] = current[d] /\ revision'[d] = revision[d]
        /\ DOMAIN current' = Cells /\ DOMAIN revision' = Cells
    BY Zenon, <1>1 DEF Inv, TypeOK
  <1>8. revision[c] \in Nat
    BY SequenceTypes DEF Inv
  <1> QED
    BY Zenon, <1>1, <1>2, <1>3, <1>5, <1>6, <1>7, <1>8

\* Of the handshake a publication changes one sequence, to the one its writer
\* prepared.
LEMMA EndHandshake ==
    ASSUME Inv, NEW p \in Processes, end_publication(p)
    PROVE  HandshakeInv'
  <1>0. PICK c \in Cells : cell[p] = c
    BY Zenon DEF Inv, TypeOK
  <1>1. /\ goal[p] = "publish" /\ c \in Own(p) /\ goal'[p] = "none"
        /\ \A q \in Processes : q # p =>
              goal'[q] = goal[q] /\ cell'[q] = cell[q] /\ next'[q] = next[q]
        /\ UNCHANGED seen
    BY Zenon, <1>0, EndFrame
  <1>2. sequence(c)' = next[p][1] /\ \A d \in Cells : d # c => sequence(d)' = sequence(d)
    <2>1. current'[c] = next[p] /\ \A d \in Cells : d # c => current'[d] = current[d]
      BY Zenon, <1>0, EndFrame
    <2> QED
      BY Zenon, <2>1 DEF sequence
  <1>3. \A d \in Cells : sequence(d) \in Nat
    BY SequenceTypes DEF Inv
  <1>4. \A q \in Processes, d \in Cells : seen[q][d][1] \in Nat /\ seen[q][d][1] <= sequence(d)
    BY Zenon, WidthFacts DEF Inv, TypeOK, HandshakeInv, Vector
  <1> HIDE <1>0
  <1>5. CASE p = Daemon
    <2>1. c = Command
      BY <1>1, <1>5 DEF Own
    <2>2. next[p][1] = sequence(Command) + 1
          /\ \A r \in Ranks : sequence(Completion(r)) = sequence(Command)
      BY <1>1, <1>5 DEF Inv, HandshakeInv
    <2>3. /\ sequence(Command)' = sequence(Command) + 1
          /\ \A r \in Ranks : sequence(Completion(r))' = sequence(Completion(r))
          /\ sequence(Demand)' = sequence(Demand)
      BY <1>2, <2>1, <2>2, CellFacts
    <2>4. \A r \in Ranks : ~(goal'[r] = "check" \/ (goal'[r] = "publish" /\ cell'[r] = Completion(r)))
      <3> SUFFICES ASSUME NEW r \in Ranks,
                          goal'[r] = "check" \/ (goal'[r] = "publish" /\ cell'[r] = Completion(r))
                   PROVE  FALSE
        OBVIOUS
      <3>1. r # p /\ r \in Processes
        BY <1>5, ProcessFacts
      <3>2. goal[r] = "check" \/ (goal[r] = "publish" /\ cell[r] = Completion(r))
        BY <1>1, <3>1
      <3>3. next[r][1] = sequence(Command) /\ sequence(Completion(r)) < next[r][1]
        BY <3>2 DEF Inv, HandshakeInv
      <3> QED
        BY <1>3, <2>2, <3>3, CellFacts
    <2>5. goal'[Leader] = "publish" /\ cell'[Leader] = Demand =>
             /\ next'[Leader][1] # 0
             /\ next'[Leader][1] = sequence(Completion(Leader))'
      BY <1>1, <1>5, <2>3, ProcessFacts DEF Inv, HandshakeInv
    <2>6. \A q \in Processes, d \in Cells : seen'[q][d][1] <= sequence(d)'
      <3>1. sequence(c)' = sequence(c) + 1 /\ sequence(c) \in Nat
        BY Zenon, <1>3, <2>1, <2>3
      <3>2. sequence(c)' \in Nat /\ sequence(c) <= sequence(c)'
        BY Zenon, <3>1, Successor
      <3> QED
        BY Zenon, <1>1, <1>2, <1>3, <1>4, <3>2, SeenKept
    <2>7. \A r \in Ranks : /\ sequence(Completion(r))' <= sequence(Command)'
                            /\ sequence(Command)' <= sequence(Completion(r))' + 1
      BY <1>3, <2>2, <2>3, CellFacts
    <2>8. sequence(Demand)' <= sequence(Completion(Leader))'
      BY <2>3, ProcessFacts DEF Inv, HandshakeInv
    <2> QED
      BY Zenon, <1>1, <1>5, <2>4, <2>5, <2>6, <2>7, <2>8 DEF HandshakeInv
  <1>6. CASE p \in Ranks /\ c = Completion(p)
    <2>1. next[p][1] = sequence(Command) /\ sequence(Completion(p)) < next[p][1]
      BY <1>0, <1>1, <1>6 DEF Inv, HandshakeInv
    <2>2. /\ sequence(Command)' = sequence(Command) /\ sequence(Demand)' = sequence(Demand)
          /\ sequence(Completion(p))' = sequence(Command)
          /\ \A r \in Ranks : r # p => sequence(Completion(r))' = sequence(Completion(r))
      BY <1>2, <1>6, <2>1, CellFacts
    <2>3. ~(goal'[Daemon] \in {"check", "publish"})
      <3>1. ~(goal[Daemon] \in {"check", "publish"})
        BY <1>3, <1>6, <2>1, CellFacts DEF Inv, HandshakeInv
      <3> QED
        BY <1>1, <1>6, <3>1, ProcessFacts
    <2>4. ASSUME NEW r \in Ranks,
                 goal'[r] = "check" \/ (goal'[r] = "publish" /\ cell'[r] = Completion(r))
          PROVE  next'[r][1] = sequence(Command)' /\ sequence(Completion(r))' < next'[r][1]
      <3>1. r # p /\ r \in Processes
        BY <1>1, <2>4, ProcessFacts
      <3>2. goal[r] = "check" \/ (goal[r] = "publish" /\ cell[r] = Completion(r))
        BY <1>1, <2>4, <3>1
      <3>3. next[r][1] = sequence(Command) /\ sequence(Completion(r)) < next[r][1]
        BY <3>2 DEF Inv, HandshakeInv
      <3> QED
        BY Zenon, <1>1, <2>2, <3>1, <3>3
    <2>5. goal'[Leader] = "publish" /\ cell'[Leader] = Demand =>
             /\ next'[Leader][1] # 0
             /\ next'[Leader][1] = sequence(Completion(Leader))'
      BY Zenon, <1>1, <2>2, ProcessFacts DEF Inv, HandshakeInv
    <2>6. \A q \in Processes, d \in Cells : seen'[q][d][1] <= sequence(d)'
      <3>1. sequence(c)' \in Nat /\ sequence(c) <= sequence(c)'
        <4>1. sequence(c) = sequence(Completion(p)) /\ sequence(c)' = sequence(Command)
          BY Zenon, <1>6, <2>2
        <4>2. sequence(Command) \in Nat /\ sequence(Completion(p)) \in Nat
          BY Zenon, <1>3, <1>6, CellFacts
        <4> QED
          BY Zenon, <2>1, <4>1, <4>2, Weaken
      <3> QED
        BY Zenon, <1>1, <1>2, <1>3, <1>4, <3>1, SeenKept
    <2>7. \A r \in Ranks : /\ sequence(Completion(r))' <= sequence(Command)'
                            /\ sequence(Command)' <= sequence(Completion(r))' + 1
      <3> TAKE r \in Ranks
      <3>1. /\ sequence(Completion(r)) <= sequence(Command)
            /\ sequence(Command) <= sequence(Completion(r)) + 1
        BY DEF Inv, HandshakeInv
      <3>2. sequence(Command) \in Nat /\ sequence(Completion(r)) \in Nat
        BY Zenon, <1>3, CellFacts
      <3>3. CASE r = p
        BY Zenon, <2>2, <3>2, <3>3, Successor
      <3>4. CASE r # p
        BY Zenon, <2>2, <3>1, <3>4
      <3> QED
        BY Zenon, <3>3, <3>4
    <2>8. sequence(Demand)' <= sequence(Completion(Leader))'
      <3>1. sequence(Demand) <= sequence(Completion(Leader))
        BY Zenon DEF Inv, HandshakeInv
      <3> QED
        BY <1>3, <1>6, <2>1, <2>2, <3>1, CellFacts, ProcessFacts
    <2> QED
      BY Zenon, <2>3, <2>4, <2>5, <2>6, <2>7, <2>8 DEF HandshakeInv
  <1>7. CASE p = Leader /\ c = Demand
    <2>1. next[p][1] = sequence(Completion(Leader))
      BY <1>0, <1>1, <1>7 DEF Inv, HandshakeInv
    <2>2. /\ sequence(Command)' = sequence(Command)
          /\ sequence(Demand)' = sequence(Completion(Leader))
          /\ \A r \in Ranks : sequence(Completion(r))' = sequence(Completion(r))
      BY <1>2, <1>7, <2>1, CellFacts
    <2>3. sequence(Demand) <= sequence(Completion(Leader))
      BY DEF Inv, HandshakeInv
    <2>4. \A q \in Processes, d \in Cells : seen'[q][d][1] <= sequence(d)'
      <3>1. sequence(c)' = sequence(Completion(Leader)) /\ sequence(c) = sequence(Demand)
        BY Zenon, <1>7, <2>2
      <3>2. sequence(Completion(Leader)) \in Nat
        BY Zenon, <1>3, CellFacts, ProcessFacts
      <3>3. sequence(c)' \in Nat /\ sequence(c) <= sequence(c)'
        BY Zenon, <2>3, <3>1, <3>2
      <3> QED
        BY Zenon, <1>1, <1>2, <1>3, <1>4, <3>3, SeenKept
    <2>5. \A r \in Ranks : /\ sequence(Completion(r))' <= sequence(Command)'
                            /\ sequence(Command)' <= sequence(Completion(r))' + 1
      BY Zenon, <2>2 DEF Inv, HandshakeInv
    <2>6. /\ goal'[Daemon] \in {"check", "publish"} =>
               /\ next'[Daemon][1] = sequence(Command)' + 1
               /\ \A r \in Ranks : sequence(Completion(r))' = sequence(Command)'
          /\ goal'[Daemon] = "check" => sequence(Command)' # 0
      BY <1>1, <1>7, <2>2, ProcessFacts DEF Inv, HandshakeInv
    <2>7. ASSUME NEW r \in Ranks,
                 goal'[r] = "check" \/ (goal'[r] = "publish" /\ cell'[r] = Completion(r))
          PROVE  next'[r][1] = sequence(Command)' /\ sequence(Completion(r))' < next'[r][1]
      <3>1. r # p /\ r \in Processes
        BY <1>1, <2>7, ProcessFacts
      <3>2. goal[r] = "check" \/ (goal[r] = "publish" /\ cell[r] = Completion(r))
        BY <1>1, <2>7, <3>1
      <3>3. next[r][1] = sequence(Command) /\ sequence(Completion(r)) < next[r][1]
        BY <3>2 DEF Inv, HandshakeInv
      <3> QED
        BY Zenon, <1>1, <2>2, <3>1, <3>3
    <2>8. sequence(Demand)' <= sequence(Completion(Leader))'
      BY <1>3, <2>2, CellFacts, ProcessFacts
    <2> QED
      BY Zenon, <1>1, <1>7, <2>4, <2>5, <2>6, <2>7, <2>8 DEF HandshakeInv
  <1>8. p = Daemon \/ (p \in Ranks /\ c = Completion(p)) \/ (p = Leader /\ c = Demand)
    BY Zenon, <1>1, ProcessFacts DEF Own
  <1> QED
    BY Zenon, <1>5, <1>6, <1>7, <1>8

\* The even revision makes the stored words the publication.
LEMMA EndPublication ==
    ASSUME Inv, NEW p \in Processes, end_publication(p)
    PROVE  Inv'
  <1>0. PICK c \in Cells : cell[p] = c
    BY Zenon DEF Inv, TypeOK
  <1>1. /\ goal[p] = "publish" /\ goal'[p] = "none" /\ at'[p] = 0
        /\ \A q \in Processes : q # p =>
              /\ goal'[q] = goal[q] /\ cell'[q] = cell[q] /\ at'[q] = at[q]
              /\ first'[q] = first[q] /\ buffer'[q] = buffer[q] /\ next'[q] = next[q]
        /\ UNCHANGED <<word, seen, raised>>
    BY Zenon, <1>0, EndFrame
  <1>2. /\ current'[c] = next[p] /\ next[p] \in Vector(c) /\ word[c] = next[p]
        /\ \A d \in Cells : d # c => current'[d] = current[d] /\ revision'[d] = revision[d]
        /\ revision'[c] = revision[c] + 1 /\ revision[c] \in Nat /\ revision[c] % 2 = 1
        /\ revision'[c] <= MaxRevision
        /\ DOMAIN current' = Cells /\ DOMAIN revision' = Cells
    BY ZenonT(30), <1>0, EndFrame
  <1>3. /\ \A q \in Processes : q # p => ~storing(q, c)
        /\ \A q \in Processes : goal[q] = "check" => cell[q] # c
        /\ next[p][1] # 0
    BY Zenon, <1>0, <1>1, WriterFacts
  <1>4. revision'[c] % 2 = 0 /\ revision'[c] >= 2
    <2>1. revision[c] \in Nat /\ revision[c] % 2 = 1 /\ revision'[c] = revision[c] + 1
      BY Zenon, <1>2
    <2> QED
      BY Zenon, <2>1, OddUp
  <1>5. TypeOK'
    <2>1. \A d \in Cells : current'[d] \in Vector(d)
      BY Zenon, <1>2 DEF Inv, TypeOK
    <2>2. revision' \in [Cells -> 0 .. MaxRevision]
      <3>1. revision' = [revision EXCEPT ![c] = first[p]]
        BY Zenon, <1>0 DEF end_publication
      <3>2. revision \in [Cells -> 0 .. MaxRevision]
        BY Zenon DEF Inv, TypeOK
      <3>3. revision'[c] = first[p]
        BY Zenon, <3>1, <3>2
      <3>4. first[p] = revision[c] + 1 /\ revision[c] \in Nat /\ first[p] <= MaxRevision
        BY Zenon, <1>2, <3>3
      <3>5. first[p] \in 0 .. MaxRevision
        BY <3>4, BoundsAssumption
      <3> QED
        BY <3>1, <3>2, <3>5
    <2>3. Turn(p, "none", Command, Zero(Command))
      BY DEF end_publication, Stop
    <2>4. goal' \in [Processes -> {"none", "poll", "check", "publish"}]
          /\ cell' \in [Processes -> Cells] /\ at' \in [Processes -> Nat]
          /\ first' \in [Processes -> Nat]
          /\ DOMAIN buffer' = Processes /\ DOMAIN next' = Processes
          /\ \A q \in Processes : /\ buffer'[q] \in Vector(cell'[q])
                                   /\ at'[q] <= Width(cell'[q]) + 1
      <3>1. goal' \in [Processes -> {"none", "poll", "check", "publish"}]
            /\ cell' \in [Processes -> Cells] /\ at' \in [Processes -> Nat]
            /\ first' \in [Processes -> Nat]
            /\ DOMAIN buffer' = Processes /\ DOMAIN next' = Processes
        BY <2>3, CellFacts DEF Inv, TypeOK, Turn
      <3>2. buffer'[p] = Zero(Command) /\ cell'[p] = Command
        BY <2>3 DEF Inv, TypeOK, Turn
      <3>3. /\ Zero(Command) \in Vector(Command) /\ 0 <= Width(Command) + 1
        BY CellFacts, WidthFacts DEF Zero, Vector
      <3>4. \A q \in Processes : q # p => /\ buffer'[q] \in Vector(cell'[q])
                                          /\ at'[q] <= Width(cell'[q]) + 1
        BY Zenon, <1>1 DEF Inv, TypeOK
      <3> QED
        BY Zenon, <1>1, <3>1, <3>2, <3>3, <3>4
    <2> QED
      BY Zenon, <1>1, <1>2, <2>1, <2>2, <2>4 DEF Inv, TypeOK
  <1>6. OperationInv'
    BY Zenon, <1>1 DEF Inv, OperationInv
  <1>7. CellInv'
    <2>1. \A q \in Processes, d \in Cells : storing(q, d)' <=> storing(q, d) /\ q # p
      BY Zenon, <1>1 DEF storing
    <2>2. ASSUME NEW d \in Cells, d # c
          PROVE  /\ (\A q \in Processes : ~storing(q, d)')
                       => revision'[d] % 2 = 0 /\ word'[d] = current'[d]
                 /\ \A q \in Processes : storing(q, d)' =>
                       /\ revision'[d] % 2 = 1
                       /\ first'[q] = revision'[d] + 1 /\ first'[q] <= MaxRevision
                       /\ \A j \in 1 .. Width(d) :
                          word'[d][j] = IF j < at'[q] THEN next'[q][j] ELSE current'[d][j]
                 /\ sequence(d)' # 0 <=> revision'[d] >= 2
      <3>1. \A q \in Processes : storing(q, d) => q # p
        BY <1>0, <2>2 DEF storing
      <3>2. \A q \in Processes : storing(q, d)' <=> storing(q, d)
        BY Zenon, <2>1, <3>1
      <3>3. /\ revision'[d] = revision[d] /\ current'[d] = current[d] /\ word' = word
            /\ sequence(d)' = sequence(d)
            /\ \A q \in Processes : storing(q, d) =>
                  first'[q] = first[q] /\ at'[q] = at[q] /\ next'[q] = next[q]
        BY Zenon, <1>1, <1>2, <2>2, <3>1 DEF sequence
      <3>4. /\ (\A q \in Processes : ~storing(q, d))
                 => revision[d] % 2 = 0 /\ word[d] = current[d]
            /\ \A q \in Processes : storing(q, d) =>
                 /\ revision[d] % 2 = 1
                 /\ first[q] = revision[d] + 1 /\ first[q] <= MaxRevision
                 /\ \A j \in 1 .. Width(d) :
                    word[d][j] = IF j < at[q] THEN next[q][j] ELSE current[d][j]
            /\ sequence(d) # 0 <=> revision[d] >= 2
        BY Zenon DEF Inv, CellInv
      <3> QED
        BY Zenon, <3>2, <3>3, <3>4
    <2>3. \A q \in Processes : ~storing(q, c)'
      BY <1>3, <2>1
    <2>4. word'[c] = current'[c] /\ sequence(c)' # 0
      BY <1>1, <1>2, <1>3 DEF sequence
    <2> QED
      BY <1>4, <2>2, <2>3, <2>4 DEF CellInv
  <1>8. ReadInv'
    <2> SUFFICES ASSUME NEW q \in Processes, reading(q), at[q] # 0
                 PROVE  /\ first[q] % 2 = 0 /\ first[q] >= 2
                        /\ first[q] <= revision'[cell[q]]
                        /\ revision'[cell[q]] = first[q] =>
                              \A j \in 1 .. Width(cell[q]) :
                                 j < at[q] => buffer[q][j] = current'[cell[q]][j]
                        /\ goal[q] = "check" => revision'[cell[q]] = first[q]
      <3> SUFFICES ASSUME NEW q \in Processes, reading(q)', at'[q] # 0
                   PROVE  /\ first'[q] % 2 = 0 /\ first'[q] >= 2
                          /\ first'[q] <= revision'[cell'[q]]
                          /\ revision'[cell'[q]] = first'[q] =>
                                \A j \in 1 .. Width(cell'[q]) :
                                   j < at'[q] => buffer'[q][j] = current'[cell'[q]][j]
                          /\ goal'[q] = "check" => revision'[cell'[q]] = first'[q]
        BY Zenon DEF ReadInv
      <3>1. /\ q # p /\ reading(q) /\ at'[q] = at[q] /\ first'[q] = first[q]
            /\ cell'[q] = cell[q] /\ buffer'[q] = buffer[q] /\ goal'[q] = goal[q]
        BY Zenon, <1>1 DEF reading
      <3> QED
        BY Zenon, <3>1
    <2>1. /\ first[q] % 2 = 0 /\ first[q] >= 2 /\ first[q] <= revision[cell[q]]
          /\ revision[cell[q]] = first[q] =>
                \A j \in 1 .. Width(cell[q]) :
                   j < at[q] => buffer[q][j] = current[cell[q]][j]
          /\ goal[q] = "check" => revision[cell[q]] = first[q]
          /\ first[q] \in Nat
      BY Zenon DEF Inv, ReadInv, TypeOK
    <2>2. CASE cell[q] = c
      <3>1. goal[q] # "check" /\ first[q] <= revision[c]
        BY Zenon, <1>3, <2>1, <2>2
      <3>2. first[q] <= revision'[c] /\ first[q] # revision'[c]
        <4>1. revision'[c] = revision[c] + 1 /\ revision[c] \in Nat
          BY Zenon, <1>2
        <4>2. first[q] \in Nat
          BY Zenon, <2>1
        <4> QED
          BY Zenon, <3>1, <4>1, <4>2, BelowSuccessor
      <3> QED
        BY Zenon, <2>1, <2>2, <3>1, <3>2
    <2>3. CASE cell[q] # c
      <3>1. revision'[cell[q]] = revision[cell[q]] /\ current'[cell[q]] = current[cell[q]]
        BY Zenon, <1>2, <2>3 DEF Inv, TypeOK
      <3> QED
        BY Zenon, <2>1, <3>1
    <2> QED
      BY Zenon, <2>2, <2>3
  <1>9. HandshakeInv' /\ NoCheckFails'
    BY <1>1, EndHandshake DEF Inv, NoCheckFails
  <1> QED
    BY <1>5, <1>6, <1>7, <1>8, <1>9 DEF Inv

\* The operations a process may start publish vectors of their cell's width.
LEMMA StartInv ==
    ASSUME Inv, raised = "no", NEW p \in Processes, Start(p)
    PROVE  Inv'
  <1>1. CASE \E c \in Cells : poll(p, c)
    BY <1>1, Poll
  <1>2. CASE \E s \in 1 .. MaxSequence, q \in Quotas : publish_command(CommandOf(s, q))
    <2>1. PICK s \in 1 .. MaxSequence, q \in Quotas : publish_command(CommandOf(s, q))
      BY <1>2
    <2>2. q \in [1 .. TpSize -> Nat] /\ s \in Nat
      BY ValuesAssumption
    <2>3. CommandOf(s, q) \in Vector(Command)
      BY <2>2, WidthFacts, TpAssumption DEF CommandOf, Vector
    <2> QED
      BY <2>1, <2>3, PublishCommand
  <1>3. CASE p \in Ranks /\ \E s \in 1 .. MaxSequence, b \in Backings :
                publish_completion(p, <<s, b>>)
    <2>1. PICK s \in 1 .. MaxSequence, b \in Backings : publish_completion(p, <<s, b>>)
      BY <1>3
    <2>2. b \in Nat /\ s \in Nat
      BY ValuesAssumption
    <2>3. <<s, b>> \in Vector(Completion(p))
      <3>1. <<s, b>> \in [1 .. 2 -> Nat]
        BY <2>2
      <3> QED
        BY <1>3, <3>1, WidthFacts DEF Vector
    <2> QED
      BY <1>3, <2>1, <2>3, PublishCompletion
  <1>4. CASE \E s \in 1 .. MaxSequence, q \in Requirements, x \in {0, 1} :
                publish_demand(DemandOf(s, x, q))
    <2>1. PICK s \in 1 .. MaxSequence, q \in Requirements, x \in {0, 1} :
                publish_demand(DemandOf(s, x, q))
      BY <1>4
    <2>2. q \in [1 .. TpSize -> Nat] /\ s \in Nat /\ x \in Nat
      BY ValuesAssumption
    <2>3. DemandOf(s, x, q) \in Vector(Demand)
      BY <2>2, WidthFacts, TpAssumption DEF DemandOf, Vector
    <2> QED
      BY <2>1, <2>3, PublishDemand
  <1> QED
    BY <1>1, <1>2, <1>3, <1>4 DEF Start

\* Every step keeps the invariant.
LEMMA NextInv == Inv /\ [Next]_vars => Inv'
  <1> SUFFICES ASSUME Inv, [Next]_vars PROVE Inv'
    OBVIOUS
  <1>1. CASE UNCHANGED vars
    <2> USE <1>1 DEF vars, memoryVars, operationVars, Inv
    <2>1. TypeOK'
      BY Zenon DEF TypeOK
    <2>2. OperationInv'
      BY Zenon DEF OperationInv
    <2>3. CellInv'
      <3>1. /\ \A q \in Processes, d \in Cells : storing(q, d)' <=> storing(q, d)
            /\ \A d \in Cells : sequence(d)' = sequence(d)
        BY Zenon DEF storing, sequence
      <3> QED
        BY Zenon, <3>1 DEF CellInv
    <2>4. ReadInv'
      BY Zenon DEF ReadInv, reading
    <2>5. HandshakeInv' /\ NoCheckFails'
      BY Zenon DEF HandshakeInv, NoCheckFails, sequence
    <2> QED
      BY <2>1, <2>2, <2>3, <2>4, <2>5
  <1>2. CASE Next
    <2>1. raised = "no"
      BY <1>2 DEF Next
    <2>2. CASE request_broadcast
      BY <2>2, RequestBroadcast
    <2>3. CASE \E p \in Processes : Start(p) \/ Access(p)
      <3>1. PICK p \in Processes : Start(p) \/ Access(p)
        BY <2>3
      <3> QED
        BY <2>1, <3>1, StartInv, LoadRevision, LoadWord, ReloadRevision,
           BeginPublication, StoreWord, EndPublication DEF Access
    <2> QED
      BY <1>2, <2>2, <2>3 DEF Next
  <1> QED
    BY <1>1, <1>2

-----------------------------------------------------------------------------
(* The theorems. *)

\* The invariant holds in every reachable state.
THEOREM Invariance == Spec => []Inv
  BY InitInv, NextInv, PTL DEF Spec

\* Every access is well typed and no revision word overflows: the writer at the
\* last revision raises instead.
THEOREM TypeCorrect == Spec => []TypeOK
  <1>1. Inv => TypeOK
    BY DEF Inv
  <1> QED
    BY <1>1, Invariance, PTL

\* A read whose two revisions agree is of one whole publication, whatever it
\* was interleaved with.
THEOREM ReadsAreWhole == Spec => []WholeReads
  <1>1. Inv => WholeReads
    BY ReadIsWhole DEF WholeReads
  <1> QED
    BY <1>1, Invariance, PTL

\* The daemon's and the ranks' checks of each other's cells never fail.
THEOREM ChecksPass == Spec => []NoCheckFails
  <1>1. Inv => NoCheckFails
    BY DEF Inv
  <1> QED
    BY <1>1, Invariance, PTL

\* A store of the last revision is the abstract publication, the second load of
\* a poll the abstract read; every other access leaves the registers alone.
LEMMA StepRefines ==
    ASSUME Inv, [Next]_vars
    PROVE  [Registers!Next]_<<current, seen>>
  <1>1. CASE UNCHANGED vars
    BY <1>1 DEF vars, memoryVars
  <1>2. ASSUME NEW p \in Processes, Start(p)
        PROVE  UNCHANGED <<current, seen>>
    BY Zenon, <1>2 DEF Start, poll, publish_command, publish_completion, publish_demand, memoryVars
  <1>3. ASSUME NEW p \in Processes,
               load_revision(p) \/ load_word(p) \/ begin_publication(p) \/ store_word(p)
        PROVE  UNCHANGED <<current, seen>>
    BY Zenon, <1>3 DEF load_revision, load_word, begin_publication, store_word, memoryVars, nothing
  <1>4. ASSUME NEW p \in Processes, reload_revision(p)
        PROVE  [Registers!Next]_<<current, seen>>
    <2>1. UNCHANGED current /\ reading(p) /\ at[p] = Width(cell[p]) + 1
      BY Zenon, <1>4 DEF reload_revision, memoryVars
    <2>2. CASE seen' = seen
      BY Zenon, <2>1, <2>2
    <2>3. CASE seen' # seen
      <3>1. /\ revision[cell[p]] = first[p]
            /\ seen' = [seen EXCEPT ![p][cell[p]] = buffer[p]]
        BY <1>4, <2>3 DEF reload_revision, got, nothing, checked
      <3>2. /\ buffer[p] = current[cell[p]] /\ cell[p] \in Cells
            /\ sequence(cell[p]) # 0
        BY <2>1, <3>1, ReadIsWhole
      <3>3. Registers!Read(p, cell[p])
        BY <2>1, <3>1, <3>2 DEF Registers!Read, Registers!sequence, sequence
      <3>4. p \in DOMAIN seen /\ cell[p] \in DOMAIN current
        BY <3>2 DEF Inv, TypeOK
      <3> QED
        BY Zenon, <3>3, <3>4 DEF Registers!Next
    <2> QED
      BY <2>2, <2>3
  <1>5. ASSUME NEW p \in Processes, end_publication(p)
        PROVE  Registers!Next
    <2>0. PICK c \in Cells : cell[p] = c
      BY DEF Inv, TypeOK
    <2>1. /\ goal[p] = "publish" /\ c \in Own(p) /\ UNCHANGED seen
          /\ current'[c] = next[p] /\ c \in DOMAIN current
          /\ current' = [current EXCEPT ![c] = next[p]]
      BY Zenon, <1>5, <2>0, EndFrame DEF Inv, TypeOK, end_publication
    <2>2. CASE p = Daemon
      <3>1. c = Command
        BY <2>1, <2>2 DEF Own
      <3>2. Registers!PublishCommand(next[p])
        BY <2>1, <2>2, <3>1 DEF Inv, HandshakeInv, Registers!PublishCommand,
           Registers!sequence, sequence, Registers!Command, Registers!Completion,
           Command, Completion
      <3> QED
        BY <2>1, <3>1, <3>2 DEF Registers!Next, Registers!Command, Command
    <2>3. CASE p \in Ranks /\ c = Completion(p)
      <3>1. Registers!PublishCompletion(p, next[p])
        BY <2>0, <2>1, <2>3 DEF Inv, HandshakeInv, Registers!PublishCompletion,
           Registers!sequence, sequence, Registers!Command, Registers!Completion,
           Command, Completion
      <3> QED
        BY <2>1, <2>3, <3>1 DEF Registers!Next, Registers!Completion, Completion
    <2>4. CASE p = Leader /\ c = Demand
      <3>1. /\ next[p][1] = sequence(Completion(Leader))
            /\ sequence(Demand) <= sequence(Completion(Leader))
            /\ sequence(Completion(Leader)) \in Nat
        BY <2>0, <2>1, <2>4, SequenceTypes, CellFacts, ProcessFacts DEF Inv, HandshakeInv
      <3>2. Registers!PublishDemand(next[p])
        BY <2>1, <2>4, <3>1 DEF Registers!PublishDemand,
           Registers!sequence, sequence, Registers!Demand, Registers!Completion,
           Demand, Completion
      <3> QED
        BY <2>1, <2>4, <3>2 DEF Registers!Next, Registers!Demand, Demand
    <2> QED
      BY <2>1, <2>2, <2>3, <2>4, ProcessFacts DEF Own
  <1>6. ASSUME request_broadcast
        PROVE  Registers!Next
    <2>1. Registers!Broadcast
      BY Zenon, <1>6 DEF Inv, TypeOK, request_broadcast, Registers!Broadcast, memoryVars
    <2> QED
      BY <2>1 DEF Registers!Next
  <1> QED
    BY <1>1, <1>2, <1>3, <1>4, <1>5, <1>6 DEF Next, Access

\* The channel implements atomic registers on which completions answer commands
\* in lock step: EcsCapacity may treat every publication as one step.
THEOREM Refinement == Spec => AtomicPublications
  <1>1. ASSUME Init PROVE Registers!Init
    <2>1. /\ \A c \in Cells : current[c] = Zero(c) /\ Zero(c)[1] = 0
          /\ DOMAIN current = Cells /\ DOMAIN seen = Processes
          /\ \A p \in Processes, c \in Cells : seen[p][c] = Zero(c)
      BY <1>1, WidthFacts DEF Init
    <2> QED
      BY <2>1 DEF Registers!Init, Registers!sequence
  <1>2. Inv /\ [Next]_vars => [Registers!Next]_<<current, seen>>
    BY StepRefines
  <1> QED
    BY <1>1, <1>2, Invariance, PTL DEF Spec, AtomicPublications, Registers!Spec
=============================================================================
