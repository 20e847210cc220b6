----------------------------- MODULE MCGateway ------------------------------
(***************************************************************************)
(* A small instance of Gateway: the connection of an owner, who watches    *)
(* the list and the page of an order that two requests at a time edit.     *)
(***************************************************************************)
EXTENDS Gateway, TLC

CONSTANTS c1, w1, o1, r1, r2, s1

MCCustomerOf == [o \in Orders |-> c1]
MCOwnerOf == [o \in Orders |-> w1]
MCUserOf == [s \in Sockets |-> w1]

Interchangeable == Permutations(Requests)
=============================================================================
