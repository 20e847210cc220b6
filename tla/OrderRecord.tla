---------------------------- MODULE OrderRecord ----------------------------
(***************************************************************************)
(* What the rest of the shop may rely on about the row of an order in the  *)
(* "order" table: payments, reviews, the nightly clean-up and the screens  *)
(* of customers, owners and drivers all read it.  A row is placed once, as *)
(* a Pending order without a driver; it is edited any number of times; it  *)
(* may be removed, for good, only while nobody has taken it up.            *)
(*                                                                         *)
(* The record promises less than the state machine the documents draw: an  *)
(* edit begun before a pick-up may end after it and take the driver off.   *)
(* OrderLifecycle is shown to implement this one.                          *)
(***************************************************************************)

CONSTANTS
    Orders,     \* ids of orders
    Drivers,    \* users with the DELIVERY role
    NoDriver    \* the NULL of order.driver_id

VARIABLES
    row,        \* row[o]    : "unplaced", "placed" or "deleted"
    status,     \* status[o] : the status column of the row
    driver,     \* driver[o] : the driver_id column of the row
    taken,      \* orders that have been picked up at some time
    undriven    \* orders with an edit under way that found no driver and sets none

vars == <<row, status, driver, taken, undriven>>

OrderStatus == {"Pending", "Cooking", "Cooked", "PickedUp", "Delivered"}

Init ==
    /\ row    = [o \in Orders |-> "unplaced"]
    /\ status = [o \in Orders |-> "Pending"]
    /\ driver = [o \in Orders |-> NoDriver]
    /\ taken  = {}
    /\ undriven = {}

Place(o) ==
    /\ row[o] = "unplaced"
    /\ row' = [row EXCEPT ![o] = "placed"]
    /\ UNCHANGED <<status, driver, taken, undriven>>

Begin(o) ==
    /\ row[o] = "placed"
    /\ driver[o] = NoDriver
    /\ undriven' = undriven \cup {o}
    /\ UNCHANGED <<row, status, driver, taken>>

End(o) ==
    /\ undriven' = undriven \ {o}
    /\ UNCHANGED <<row, status, driver, taken>>

\* What an order nobody has picked up may become: one in the kitchen without a
\* driver, or picked up by one.
FirstHand(s, d) == (s = "PickedUp" /\ d # NoDriver) \/ (s \in {"Cooking", "Cooked"} /\ d = NoDriver)

(***************************************************************************)
(* One edit of a placed row, which may be the last of those under way.     *)
(* Pending is never written again, only an order somebody has picked up    *)
(* can become Delivered, and a driver is taken off an order only by an     *)
(* edit begun when the order had none.                                     *)
(***************************************************************************)
Edit(o, s, d) ==
    /\ row[o] = "placed"
    /\ s # "Pending"
    /\ o \notin taken => FirstHand(s, d)
    /\ d = NoDriver /\ driver[o] # NoDriver => o \in undriven
    /\ status' = [status EXCEPT ![o] = s]
    /\ driver' = [driver EXCEPT ![o] = d]
    /\ taken' = IF s = "PickedUp" THEN taken \cup {o} ELSE taken
    /\ undriven' \in {undriven, undriven \ {o}}
    /\ UNCHANGED row

Untouched(o) == row[o] = "placed" /\ status[o] = "Pending" /\ driver[o] = NoDriver

Remove(gone) ==
    /\ \A o \in gone : Untouched(o)
    /\ row' = [o \in Orders |-> IF o \in gone THEN "deleted" ELSE row[o]]
    /\ UNCHANGED <<status, driver, taken, undriven>>

Next ==
    \/ \E o \in Orders : Place(o) \/ Begin(o) \/ End(o)
    \/ \E o \in Orders, s \in OrderStatus, d \in Drivers \cup {NoDriver} : Edit(o, s, d)
    \/ \E gone \in SUBSET Orders : Remove(gone)

Spec == Init /\ [][Next]_vars
=============================================================================
