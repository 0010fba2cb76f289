-------------------------- MODULE MCResourceSystem --------------------------
(* Small instances of ResourceSystem.                                      *)
EXTENDS ResourceSystem, TLC

CONSTANTS p1, p2, p3, r1, r2

ThreeProcesses == {p1, p2, p3}

EqualPrio == [p \in Process |-> 0]
RisingPrio == [p \in Process |-> IF p = p1 THEN 0 ELSE 1]

PeersSink == [p \in Process |-> IF p = p1 THEN {} ELSE {0}]

AnyRank == [p \in Process |-> Priority]

(* All but p1 are alike in every run with a symmetry, and so are resources.*)
Peers == Permutations(Process \ {p1}) \cup Permutations(Resource)

(* Who does what in the runs.                                              *)
Contend == [p \in Process |->
              {"acquire", "preempt", "release", "hold"} \cup
                IF p = p1 THEN {} ELSE {"timer", "untimer"}]

Disturb == [p \in Process |->
              {"acquire", "release", "hold"} \cup
                IF p = p1
                THEN {"interrupt", "resume", "stop", "start", "priority",
                      "cancel"}
                ELSE {"yield", "join", "exit"}]

TakeTurns == [p \in Process |-> {"acquire", "release", "hold"}]

Promote == [p \in Process |->
              IF p = p1 THEN {"hold", "priority"} ELSE TakeTurns[p]]

(* What the theorems of module ResourceAbortProofs ask of a program.       *)
ASSUME MildAssumption == MildPrograms

=============================================================================
