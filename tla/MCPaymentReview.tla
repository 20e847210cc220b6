-------------------------- MODULE MCPaymentReview ---------------------------
(***************************************************************************)
(* Small instances of PaymentReview: one client who pays for and reviews   *)
(* orders in two requests at a time, while up to two edits are in flight.  *)
(***************************************************************************)
EXTENDS PaymentReview, FiniteSets, TLC

CONSTANTS c1, w1, d1, o1, o2, r1, r2, p1, p2

MCCustomerOf == [o \in Orders |-> c1]
MCOwnerOf == [o \in Orders |-> w1]

\* Three of two edits, two payments or reviews and the clean-up at one time.
ThreeAtATime ==
    Cardinality({r \in Requests : edit[r] # NoEdit}) +
    Cardinality({c \in Calls : call[c] # NoCall}) <= IF sweep = NoSweep THEN 3 ELSE 2

\* No step and no property of PayAndReview looks at the events that went out.
Tables == <<row, status, driver, stale, edit, sweep, seen, stripped, tables>>

Interchangeable == Permutations(Calls) \cup Permutations(Requests)
=============================================================================
