-------------------------- MODULE MCOrderLifecycle --------------------------
(***************************************************************************)
(* Small instances of OrderLifecycle: one client and one owner, two        *)
(* drivers who may compete for an order, and one slot per edit in flight.  *)
(***************************************************************************)
EXTENDS OrderLifecycle, TLC

CONSTANTS c1, w1, w2, d1, d2, o1, o2, r1, r2

MCCustomerOf == [o \in Orders |-> c1]

\* The orders belong to w1; w2 is an owner who must stay out of them.
MCOwnerOf == [o \in Orders |-> w1]

Interchangeable == Permutations(Drivers) \cup Permutations(Requests)
=============================================================================
