---------------------------- MODULE BoundedStore ----------------------------
(***************************************************************************)
(* What a buffer, an object queue and a priority queue of Cimba promise: a *)
(* store of limited capacity between processes that put things in and take *)
(* things out, each at one instant.  Nothing is lost or made, the capacity *)
(* is never exceeded, and what leaves is what is first in line: by rank,   *)
(* then by time of entry.                                                  *)
(***************************************************************************)
EXTENDS Integers, FiniteSets

CONSTANTS
  Process, Object,
  Rank,              \* the priorities of objects
  Capacity

VARIABLES
  contents,          \* [obj, rank, tag], tag the place by time of entry
  hand               \* how many of each object each process has

StoreInit ==
  /\ contents = {}
  /\ hand \in [Process -> [Object -> Nat]]

-----------------------------------------------------------------------------
Ahead(x, y) == x.rank > y.rank \/ (x.rank = y.rank /\ x.tag < y.tag)

(* The places in line, from 1 on.                                          *)
Position(S, x) == 1 + Cardinality({y \in S : Ahead(y, x)})

Served(S, n) == {x \in S : Position(S, x) <= n}

Added(S, o, rank, n) ==
  S \cup {[obj |-> o, rank |-> rank, tag |-> Cardinality(S) + i] : i \in 1..n}

Without(S, gone) ==
  {[x EXCEPT !.tag = @ - Cardinality({g \in gone : g.tag < x.tag})] :
     x \in S \ gone}

Received(had, gone) ==
  [o \in Object |-> had[o] + Cardinality({g \in gone : g.obj = o})]

-----------------------------------------------------------------------------
Deposit(p, o, rank, n) ==
  /\ n <= hand[p][o]
  /\ Cardinality(contents) + n <= Capacity
  /\ contents' = Added(contents, o, rank, n)
  /\ hand' = [hand EXCEPT ![p][o] = @ - n]

Remove(p, gone) ==
  /\ contents' = Without(contents, gone)
  /\ hand' = [hand EXCEPT ![p] = Received(@, gone)]

Collect(p, n) == Remove(p, Served(contents, n))

Withdraw(p, x) == Remove(p, {x})

Rerank(x, rank) ==
  /\ contents' = (contents \ {x}) \cup {[x EXCEPT !.rank = rank]}
  /\ UNCHANGED hand

Move ==
  \/ \E p \in Process, o \in Object, rank \in Rank, n \in 1..Capacity :
       Deposit(p, o, rank, n)
  \/ \E p \in Process, n \in 1..Cardinality(contents) : Collect(p, n)
  \/ \E p \in Process, x \in contents : Withdraw(p, x)
  \/ \E x \in contents, rank \in Rank : Rerank(x, rank)

StoreSpec == StoreInit /\ [][Move]_<<contents, hand>>

=============================================================================
