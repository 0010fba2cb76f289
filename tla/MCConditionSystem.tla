-------------------------- MODULE MCConditionSystem --------------------------
(* Small instances of ConditionSystem.                                     *)
EXTENDS ConditionSystem

CONSTANTS p1, p2, p3

ThreeProcesses == {p1, p2, p3}

EqualPrio == [p \in Process |-> 0]

NoRanks == [p \in Process |-> {}]

(* p1 and p2 want the world to be 1, p2 with the resource free.            *)
WantOne == [p \in Process |-> {1}]

Await == [p \in Process |->
            CASE p = p1 -> {"wait", "hold"}
              [] p = p2 -> {"wait", "hold", "timer", "acquire", "release"}
              [] p = p3 -> {"change", "signal", "acquire", "release",
                            "subscribe", "hold", "interrupt", "cancel",
                            "stop"}]

=============================================================================
