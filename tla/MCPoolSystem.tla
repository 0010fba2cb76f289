---------------------------- MODULE MCPoolSystem ----------------------------
(* Small instances of PoolSystem and Rodents.                              *)
EXTENDS Rodents, TLC

CONSTANTS p1, p2, p3, cat, b1, b2

Everybody == {p1, p2, p3, cat}

Handles == p1 :> 1 @@ p2 :> 2 @@ p3 :> 3 @@ cat :> 4

ThreeAndOne == b1 :> 3 @@ b2 :> 1

(* The last one outranks the others.                                       *)
LastHigh == [p \in Process |-> IF p = p3 THEN 1 ELSE 0]

FirstRises == [p \in Process |-> IF p = p1 THEN {1} ELSE {}]

(* Who does what in the runs.                                              *)
Share ==
  p1 :> {"hold", "acquire", "timer"}
    @@ p2 :> {"release", "acquire", "priority"}
    @@ p3 :> {"release", "hold", "preempt", "stop"}
    @@ cat :> {}

(* The mice nibble, and have no other mood; the rat wants the whole pile.  *)
Bite == [p \in Rodent |-> IF p \in Mice THEN {1} ELSE {3}]

Mood == [p \in Rodent |-> IF p \in Mice THEN {0} ELSE {1}]

=============================================================================
