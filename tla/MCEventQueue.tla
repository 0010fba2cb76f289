---------------------------- MODULE MCEventQueue ----------------------------
(* A small instance of EventQueue: two processes of different priority and *)
(* one subject, so that every pattern cancel hits all the client's events. *)
EXTENDS EventQueue, TLC

CONSTANTS p1, p2

MCProcess == {p1, p2}
MCProcPrio == p1 :> 0 @@ p2 :> 1
=============================================================================
