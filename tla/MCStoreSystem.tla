---------------------------- MODULE MCStoreSystem ----------------------------
(* Small instances of StoreSystem.                                         *)
EXTENDS StoreSystem

CONSTANTS p1, p2, p3, x, y

ThreeProcesses == {p1, p2, p3}

EqualPrio == [p \in Process |-> 0]

NoRanks == [p \in Process |-> {}]

(* Who has what at first, and who does what in the run.                    *)
Shares == [kind \in Kind |-> [p \in Process |-> [o \in Object |->
             CASE p # p1 -> 0
               [] kind = "buffer" -> IF o = x THEN 3 ELSE 0
               [] OTHER -> IF o = x THEN 2 ELSE 1]]]

Trade == [p \in Process |->
            CASE p = p1 -> {"put", "hold", "timer"}
              [] p = p2 -> {"get", "put", "hold", "withdraw", "rerank"}
              [] p = p3 -> {"get", "put", "interrupt", "stop"}]

=============================================================================
