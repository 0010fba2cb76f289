----------------------------- MODULE MCTutorial -----------------------------
(* A small harbor, a small park, and a radar over a small terrain.         *)
EXTENDS TutorialSystem, Ratio

CONSTANTS q1, q2, q3, w1, w2, w3, a1, a2, t1, t2

(* Small ships cannot stand the wind, large ones can and need two tugs;    *)
(* there are two berths of either kind and three tugs.  With two tugs the  *)
(* harbor can be locked.                                                   *)
Sizes == {"small", "large"}

Berths == [z \in Size |-> 2]

Needed == [z \in Size |-> IF z = "small" THEN 1 ELSE 2]

Weather ==
  [z \in Size |-> IF z = "small" THEN {"fair"} ELSE {"fair", "windy"}]

(* One attraction has two queues with a server each, the other takes two   *)
(* visitors at a time.                                                     *)
Lines == [a \in Attraction |-> IF a = a1 THEN <<q1, q2>> ELSE <<q3>>]

Serves == [w \in Server |-> CASE w = w1 -> q1 [] w = w2 -> q2 [] w = w3 -> q3]

Seats == [w \in Server |-> IF w = w3 THEN 2 ELSE 1]

(* A ridge with a plain on either side, and a low one across; the platform *)
(* turns right.                                                            *)
Ridge ==
  [c \in (0 .. 8) \X (0 .. 8) |-> IF c[1] = 5 THEN 4 ELSE IF c[2] = 2 THEN 1 ELSE 0]

Starts == [t \in Target |-> IF t = t1 THEN <<-4, 2>> ELSE <<3, -3>>]
East == {<<1, 0>>}
Right == -1
Banked == Frac(1, 2)
LowestEye == Frac(-1, 1)
HighestEye == Frac(4, 3)
Quarter == Whole(2)
Narrow == Whole(1)

(* Three replications fall between two lines of the table.                 *)
Sizes95 == <<1, 2, 4>>
Values95 == <<12, 5, 3>>

=============================================================================
