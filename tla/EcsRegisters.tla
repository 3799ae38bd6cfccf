---------------------------- MODULE EcsRegisters ----------------------------
(* What the control channel of one Capacity Group promises its users: every *)
(* publication is one atomic register, and an operation's completions come  *)
(* between its command and the next.  EcsCapacity is written against these  *)
(* registers.                                                               *)
EXTENDS Naturals

CONSTANTS Ranks, Leader, Daemon

VARIABLES
    current,    \* the last publication of each cell, a vector of words
    seen        \* the last publication each process has read of each cell

Command == <<"command", Daemon>>
Demand == <<"demand", Leader>>
Completion(r) == <<"completion", r>>

\* The first word of every publication is the sequence it is about.
sequence(c) == current[c][1]

PublishCommand(v) ==
    /\ v[1] = sequence(Command) + 1
    /\ \A r \in Ranks : sequence(Completion(r)) = sequence(Command)
    /\ current' = [current EXCEPT ![Command] = v]
    /\ UNCHANGED seen

PublishCompletion(r, v) ==
    /\ sequence(Completion(r)) < v[1] /\ v[1] = sequence(Command)
    /\ current' = [current EXCEPT ![Completion(r)] = v]
    /\ UNCHANGED seen

PublishDemand(v) ==
    /\ sequence(Demand) <= v[1] /\ v[1] <= sequence(Completion(Leader))
    /\ current' = [current EXCEPT ![Demand] = v]
    /\ UNCHANGED seen

Read(p, c) ==
    /\ sequence(c) # 0
    /\ seen' = [seen EXCEPT ![p][c] = current[c]]
    /\ UNCHANGED current

Broadcast ==
    /\ seen' = [p \in DOMAIN seen |-> IF p \in Ranks THEN seen[Leader] ELSE seen[p]]
    /\ UNCHANGED current

Next ==
    \/ \E c \in DOMAIN current : \E v \in {current'[c]} :
          \/ c = Command /\ PublishCommand(v)
          \/ c = Demand /\ PublishDemand(v)
          \/ \E r \in Ranks : c = Completion(r) /\ PublishCompletion(r, v)
    \/ \E p \in DOMAIN seen, c \in DOMAIN current : Read(p, c)
    \/ Broadcast

Init ==
    /\ \A c \in DOMAIN current : sequence(c) = 0
    /\ \A p \in DOMAIN seen : \A c \in DOMAIN current : seen[p][c] = current[c]

Spec == Init /\ [][Next]_<<current, seen>>
=============================================================================
