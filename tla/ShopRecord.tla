----------------------------- MODULE ShopRecord -----------------------------
(***************************************************************************)
(* What an order, its payment and its review promise together, to whoever  *)
(* reads the three tables.  An order is edited as OrderRecord says; it may *)
(* be paid once, whatever its status, and once it is paid it is there for  *)
(* good; it may be reviewed once, after it has been Delivered at some      *)
(* time; the review may be taken down and put up again, but its row is     *)
(* never gone and no second one takes its place.                           *)
(***************************************************************************)
EXTENDS OrderRecord

VARIABLES
    delivered,  \* orders whose status has been Delivered at some time
    paid,       \* orders with a row in payment
    reviewed,   \* orders with a row in reviews
    removed     \* orders whose review is taken down

tables == <<paid, reviewed, removed>>

shopVars == <<vars, delivered, tables>>

Start ==
    /\ Init
    /\ delivered = {}
    /\ paid = {}
    /\ reviewed = {}
    /\ removed = {}

Sell(o) == Place(o) /\ UNCHANGED <<delivered, tables>>

\* An edit of the order that found no driver begins, or ends without a trace.
Attend(o) == (Begin(o) \/ End(o)) /\ UNCHANGED <<delivered, tables>>

Handle(o, s, d) ==
    /\ Edit(o, s, d)
    /\ delivered' = IF s = "Delivered" THEN delivered \cup {o} ELSE delivered
    /\ UNCHANGED tables

\* All of them untouched and none of them paid for.
Discard(gone) ==
    /\ gone \cap paid = {}
    /\ Remove(gone)
    /\ UNCHANGED <<delivered, tables>>

Pay(o) ==
    /\ row[o] = "placed"
    /\ o \notin paid
    /\ paid' = paid \cup {o}
    /\ UNCHANGED <<vars, delivered, reviewed, removed>>

Review(o) ==
    /\ row[o] = "placed"
    /\ o \in delivered \ reviewed
    /\ reviewed' = reviewed \cup {o}
    /\ UNCHANGED <<vars, delivered, paid, removed>>

TakeDown(o) ==
    /\ o \in reviewed
    /\ removed' = removed \cup {o}
    /\ UNCHANGED <<vars, delivered, paid, reviewed>>

PutUp(o) ==
    /\ o \in reviewed
    /\ removed' = removed \ {o}
    /\ UNCHANGED <<vars, delivered, paid, reviewed>>

Trade ==
    \/ \E o \in Orders : \/ Sell(o) \/ Attend(o) \/ Pay(o)
                       \/ Review(o) \/ TakeDown(o) \/ PutUp(o)
    \/ \E o \in Orders, s \in OrderStatus, d \in Drivers \cup {NoDriver} : Handle(o, s, d)
    \/ \E gone \in SUBSET Orders : Discard(gone)

ShopSpec == Start /\ [][Trade]_shopVars
=============================================================================
