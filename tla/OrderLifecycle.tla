--------------------------- MODULE OrderLifecycle ---------------------------
(***************************************************************************)
(* The life of an order: OrderService.createOrder and editOrderStatus, the *)
(* nightly OrderCronService and the socket events they emit, over the      *)
(* committed rows of the "order" table (MySQL, REPEATABLE READ).           *)
(*                                                                         *)
(* createOrder and editOrderStatus are @Transactional methods, so each is  *)
(* split where other requests can come between.  editOrderStatus reads the *)
(* order (openEdit), then saves the entity and emits (saveEdit), then the  *)
(* decorator commits (commitEdit) or rolls back (abortEdit).  TypeORM's    *)
(* save() writes the columns in which the entity differs from the row as   *)
(* the transaction's own snapshot shows it: two concurrent edits of one    *)
(* order merge column by column.  The driver is a loaded relation: when it *)
(* is null save() finds no two ids to compare and sends driver_id = NULL,  *)
(* also over a driver set since.  An UPDATE holds the row lock until its   *)
(* transaction ends; a save that sends no column sends no UPDATE.          *)
(***************************************************************************)
EXTENDS Naturals

CONSTANTS
    Orders,      \* ids of orders
    Clients,     \* users with the CLIENT role
    Owners,      \* users with the OWNER role
    Drivers,     \* users with the DELIVERY role
    NoDriver,    \* the NULL of order.driver_id
    CustomerOf,  \* CustomerOf[o] : the client order o is created by
    OwnerOf,     \* OwnerOf[o] : the owner of the restaurant of order o
    Requests     \* slots for the edits in flight at one time

ASSUME RolesAssumption ==
    /\ Clients \cap Owners = {}
    /\ Clients \cap Drivers = {}
    /\ Owners \cap Drivers = {}
    /\ NoDriver \notin Drivers

ASSUME PartiesAssumption ==
    /\ CustomerOf \in [Orders -> Clients]
    /\ OwnerOf \in [Orders -> Owners]

VARIABLES
    row,     \* row[o] : "unplaced", "inserted" (uncommitted), "placed" or "deleted"
    status,  \* status[o] : the status column
    driver,  \* driver[o] : the driver_id column
    stale,   \* orders created more than 24 hours ago
    notice,  \* notice[o] : the newPendingOrder callback, "none", "queued", "sent" or "lost"
    edit,    \* edit[r] : the editOrderStatus transaction of slot r, or NoEdit
    sweep,   \* the DELETE of the nightly clean-up in progress, or NoSweep
    told,    \* told[o] : the statuses orderUpdate has carried to the order's room
    seen,    \* history: seen[o] holds the statuses the committed row has had
    stripped \* history: orders whose driver an edit took off, until the next pick-up

vars == <<row, status, driver, stale, notice, edit, sweep, told, seen, stripped>>

OrderStatus == {"Pending", "Cooking", "Cooked", "PickedUp", "Delivered"}

Users == Clients \cup Owners \cup Drivers

Edits ==
    [phase : {"read", "saved"}, order : Orders, user : Owners \cup Drivers,
     target : OrderStatus, snapStatus : OrderStatus, snapDriver : Drivers \cup {NoDriver}]

NoEdit == [phase |-> "idle"]

\* The orders past the cutoff when the DELETE began, and the rows it has locked.
Sweeps == [due : SUBSET Orders, held : SUBSET Orders]

NoSweep == [phase |-> "idle"]

TypeOK ==
    /\ row \in [Orders -> {"unplaced", "inserted", "placed", "deleted"}]
    /\ status \in [Orders -> OrderStatus]
    /\ driver \in [Orders -> Drivers \cup {NoDriver}]
    /\ stale \subseteq Orders
    /\ notice \in [Orders -> {"none", "queued", "sent", "lost"}]
    /\ edit \in [Requests -> Edits \cup {NoEdit}]
    /\ sweep \in Sweeps \cup {NoSweep}
    /\ told \in [Orders -> SUBSET OrderStatus]
    /\ seen \in [Orders -> SUBSET OrderStatus]
    /\ stripped \subseteq Orders

Init ==
    /\ row    = [o \in Orders |-> "unplaced"]
    /\ status = [o \in Orders |-> "Pending"]
    /\ driver = [o \in Orders |-> NoDriver]
    /\ stale  = {}
    /\ notice = [o \in Orders |-> "none"]
    /\ edit   = [r \in Requests |-> NoEdit]
    /\ sweep  = NoSweep
    /\ told   = [o \in Orders |-> {}]
    /\ seen   = [o \in Orders |-> {}]
    /\ stripped = {}

-----------------------------------------------------------------------------
(* Row locks: an UPDATE keeps one until its transaction ends, an INSERT    *)
(* until it commits, the DELETE of the clean-up those of all the rows, and *)
(* the gaps between them, that its scan has passed.                        *)

\* The driver relation of the entity when it is saved.
EntityDriver(e) == IF e.target = "PickedUp" THEN e.user ELSE e.snapDriver

\* Mutant: the handler sets order.driverId and save() follows the relation.
WritesDriver_ignored(e) == FALSE

\* The columns save() sends: those in which the entity differs from its snapshot,
\* and a driver that is null whether it differs or not.
WritesStatus(e) == e.target # e.snapStatus
WritesDriver(e) == EntityDriver(e) # e.snapDriver \/ EntityDriver(e) = NoDriver
Writes(e)       == WritesStatus(e) \/ WritesDriver(e)

\* Mutant: the read already locks the row (FOR UPDATE), for everybody.
HoldsRow_fromRead(r, o) == edit[r].order = o

HoldsRow(r, o) ==
    /\ edit[r].phase = "saved"
    /\ edit[r].order = o
    /\ Writes(edit[r])

Swept(o) == sweep # NoSweep /\ o \in sweep.held

InUse(o) == row[o] = "inserted" \/ \E r \in Requests : edit[r] # NoEdit /\ HoldsRow(r, o)

Locked(o) == InUse(o) \/ Swept(o)

-----------------------------------------------------------------------------
(* createOrder: one transaction, then the commit callback.                 *)

\* Mutant: the owner is told inside the transaction, not in the commit hook.
createOrder_toldEarly(o) ==
    /\ row[o] = "unplaced"
    /\ row' = [row EXCEPT ![o] = "inserted"]
    /\ notice' = [notice EXCEPT ![o] = "sent"]
    /\ UNCHANGED <<status, driver, stale, edit, sweep, told, seen, stripped>>

\* The order and its items go into the table in one cascaded save.
createOrder(o) ==
    /\ row[o] = "unplaced"
    /\ ~Swept(o)
    /\ row' = [row EXCEPT ![o] = "inserted"]
    /\ UNCHANGED <<status, driver, stale, notice, edit, sweep, told, seen, stripped>>

\* Mutant: the hook is never registered.
commitOrder_noHook(o) ==
    /\ row[o] = "inserted"
    /\ row' = [row EXCEPT ![o] = "placed"]
    /\ seen' = [seen EXCEPT ![o] = {"Pending"}]
    /\ UNCHANGED <<status, driver, stale, notice, edit, sweep, told, stripped>>

\* The outer decorator commits and queues the runOnTransactionCommit hook.
commitOrder(o) ==
    /\ row[o] = "inserted"
    /\ row' = [row EXCEPT ![o] = "placed"]
    /\ notice' = [notice EXCEPT ![o] = "queued"]
    /\ seen' = [seen EXCEPT ![o] = {"Pending"}]
    /\ UNCHANGED <<status, driver, stale, edit, sweep, told, stripped>>

\* An error, a lost connection or the end of the process rolls back.
abortOrder(o) ==
    /\ row[o] = "inserted"
    /\ row' = [row EXCEPT ![o] = "unplaced"]
    /\ UNCHANGED <<status, driver, stale, notice, edit, sweep, told, seen, stripped>>

\* The hook emits newPendingOrder to the owner's room.
sendNotice(o) ==
    /\ notice[o] = "queued"
    /\ notice' = [notice EXCEPT ![o] = "sent"]
    /\ UNCHANGED <<row, status, driver, stale, edit, sweep, told, seen, stripped>>

\* The process ends between the commit and the hook: nobody retries it.
loseNotice(o) ==
    /\ notice[o] = "queued"
    /\ notice' = [notice EXCEPT ![o] = "lost"]
    /\ UNCHANGED <<row, status, driver, stale, edit, sweep, told, seen, stripped>>

-----------------------------------------------------------------------------
(* getOrders and getOrderById: which orders a user is shown.               *)

Listed(u) ==
    {o \in Orders :
        /\ row[o] = "placed"
        /\ \/ u = CustomerOf[o]
           \/ u = OwnerOf[o]
           \/ u \in Drivers /\ status[o] = "Cooked"
           \/ u \in Drivers /\ status[o] = "PickedUp" /\ driver[o] = u}

MayOpen(u, o) ==
    /\ row[o] = "placed"
    /\ \/ u = CustomerOf[o]
       \/ u = OwnerOf[o]
       \/ u \in Drivers /\ (status[o] = "Cooked" \/ driver[o] = u)

-----------------------------------------------------------------------------
(* editOrderStatus: read and check, save and emit, commit or roll back.    *)

\* Mutant: any driver may mark any order Delivered.
MayEdit_anyDriver(u, o, target) ==
    \/ u \in Owners /\ u = OwnerOf[o] /\ target \in {"Cooking", "Cooked"}
    \/ u \in Drivers /\ target \in {"PickedUp", "Delivered"}

\* The checks on role, ownership and target; none looks at the present status.
MayEdit(u, o, target) ==
    \/ u \in Owners /\ u = OwnerOf[o] /\ target \in {"Cooking", "Cooked"}
    \/ u \in Drivers /\ target = "PickedUp"
    \/ u \in Drivers /\ target = "Delivered" /\ driver[o] = u

openEdit(r, u, o, target) ==
    /\ edit[r] = NoEdit
    /\ row[o] = "placed"
    /\ MayEdit(u, o, target)
    /\ edit' = [edit EXCEPT ![r] =
                  [phase |-> "read", order |-> o, user |-> u, target |-> target,
                   snapStatus |-> status[o], snapDriver |-> driver[o]]]
    /\ UNCHANGED <<row, status, driver, stale, notice, sweep, told, seen, stripped>>

\* Mutant: the events are left to a hook after the commit, which a crash loses.
saveEdit_silent(r) ==
    /\ edit[r] # NoEdit
    /\ edit[r].phase = "read"
    /\ Writes(edit[r]) /\ row[edit[r].order] = "placed" => ~Locked(edit[r].order)
    /\ edit' = [edit EXCEPT ![r] = [edit[r] EXCEPT !.phase = "saved"]]
    /\ UNCHANGED <<row, status, driver, stale, notice, sweep, told, seen, stripped>>

\* The UPDATE waits for the row lock; a row deleted since matches nothing and
\* locks nothing.  Then orderUpdate goes out (and newCookedOrder, for Cooked).
saveEdit(r) ==
    /\ edit[r] # NoEdit
    /\ edit[r].phase = "read"
    /\ Writes(edit[r]) /\ row[edit[r].order] = "placed" => ~Locked(edit[r].order)
    /\ edit' = [edit EXCEPT ![r] = [edit[r] EXCEPT !.phase = "saved"]]
    /\ told' = [told EXCEPT ![edit[r].order] = @ \cup {edit[r].target}]
    /\ UNCHANGED <<row, status, driver, stale, notice, sweep, seen, stripped>>

\* The columns the UPDATE wrote become visible, all at once.
commitEdit(r) ==
    LET e == edit[r]
        o == e.order
    IN  /\ e # NoEdit
        /\ e.phase = "saved"
        /\ edit' = [edit EXCEPT ![r] = NoEdit]
        /\ IF row[o] = "placed"
           THEN /\ status' = [status EXCEPT ![o] = IF WritesStatus(e) THEN e.target ELSE @]
                /\ driver' = [driver EXCEPT ![o] = IF WritesDriver(e) THEN EntityDriver(e) ELSE @]
                /\ seen' = [seen EXCEPT ![o] = @ \cup {status'[o]}]
                /\ stripped' = IF EntityDriver(e) = NoDriver /\ driver[o] # NoDriver
                               THEN stripped \cup {o}
                               ELSE IF driver'[o] # NoDriver THEN stripped \ {o} ELSE stripped
           ELSE UNCHANGED <<status, driver, seen, stripped>>
        /\ UNCHANGED <<row, stale, notice, sweep, told>>

\* An error, a lock wait timeout, a failed commit or a crash; events stay sent.
abortEdit(r) ==
    /\ edit[r] # NoEdit
    /\ edit' = [edit EXCEPT ![r] = NoEdit]
    /\ UNCHANGED <<row, status, driver, stale, notice, sweep, told, seen, stripped>>

-----------------------------------------------------------------------------
(* handleCron and the clock it looks at.                                   *)

\* 24 hours have passed since the order was created.
turnStale(o) ==
    /\ row[o] = "placed"
    /\ stale' = stale \cup {o}
    /\ UNCHANGED <<row, status, driver, notice, edit, sweep, told, seen, stripped>>

StalePending == {o \in Orders : row[o] = "placed" /\ status[o] = "Pending" /\ o \in stale}

\* At 04:00 the cutoff is computed and the DELETE statement sent.
startCron ==
    /\ sweep = NoSweep
    /\ sweep' = [due |-> stale, held |-> {}]
    /\ UNCHANGED <<row, status, driver, stale, notice, edit, told, seen, stripped>>

\* There is no index on status or createdAt: the scan locks row after row and
\* waits for the lock of each.
scanRow(o) ==
    /\ sweep # NoSweep
    /\ o \notin sweep.held
    /\ ~InUse(o)
    /\ sweep' = [sweep EXCEPT !.held = @ \cup {o}]
    /\ UNCHANGED <<row, status, driver, stale, notice, edit, told, seen, stripped>>

\* Mutant: the DELETE looks at the age of the orders only.
Doomed_anyStatus == {o \in sweep.due : row[o] = "placed"}

Doomed == {o \in sweep.due : row[o] = "placed" /\ status[o] = "Pending"}

\* The statement ends: it deletes every row it selects, or, if a payment refers
\* to one of them, fails and deletes none.
deleteDue(referenced) ==
    /\ sweep # NoSweep
    /\ sweep.held = Orders
    /\ IF Doomed \cap referenced = {}
       THEN row' = [o \in Orders |-> IF o \in Doomed THEN "deleted" ELSE row[o]]
       ELSE UNCHANGED row
    /\ sweep' = NoSweep
    /\ UNCHANGED <<status, driver, stale, notice, edit, told, seen, stripped>>

\* A lock wait timeout or the end of the process: the statement is undone, as
\* if it had not begun (cut off with every lock held, it leaves the same rows).
abortCron ==
    /\ sweep # NoSweep
    /\ sweep.held # Orders
    /\ sweep' = NoSweep
    /\ UNCHANGED <<row, status, driver, stale, notice, edit, told, seen, stripped>>

-----------------------------------------------------------------------------
OrderStep(o) ==
    \/ createOrder(o)
    \/ commitOrder(o)
    \/ abortOrder(o)
    \/ sendNotice(o)
    \/ loseNotice(o)
    \/ turnStale(o)

EditStep(r) ==
    \/ \E u \in Users, o \in Orders, target \in OrderStatus : openEdit(r, u, o, target)
    \/ saveEdit(r)
    \/ commitEdit(r)
    \/ abortEdit(r)

CronStep ==
    \/ startCron
    \/ \E o \in Orders : scanRow(o)
    \/ abortCron

\* Payments live in another module: here any set of orders may be referenced.
Next ==
    \/ \E o \in Orders : OrderStep(o)
    \/ \E r \in Requests : EditStep(r)
    \/ CronStep
    \/ \E referenced \in SUBSET Orders : deleteDue(referenced)

Spec == Init /\ [][Next]_vars

-----------------------------------------------------------------------------
(* Safety.                                                                 *)

\* An order on the road is on the list (getOrders) of exactly one driver, who
\* may also open it (getOrderById), however the edits of drivers and owner
\* interleave.  One race breaks this, and only that one: an edit that read no
\* driver commits after a pick-up and takes the driver off.  Then the order is on
\* nobody's list until somebody picks it up again.
RoadListedToOneDriver ==
    \A o \in Orders :
        row[o] = "placed" /\ status[o] = "PickedUp" =>
            IF o \in stripped
            THEN \A u \in Drivers : o \notin Listed(u)
            ELSE \E d \in Drivers : /\ {u \in Drivers : o \in Listed(u)} = {d}
                                    /\ MayOpen(d, o)

\* No status reaches the database in silence: orderUpdate was emitted for it
\* to the order's room before the commit, so no crash can lose it (and for
\* Cooked the drivers were called).
StatusWasTold ==
    \A o \in Orders :
        row[o] = "placed" /\ status[o] # "Pending" => status[o] \in told[o]

\* An order becomes Delivered only if a driver picked it up at some earlier
\* time, though editOrderStatus never looks at the present status.
DeliveredWasPickedUp ==
    \A o \in Orders : "Delivered" \in seen[o] => "PickedUp" \in seen[o]

\* No ghost newPendingOrder: an owner is told of committed orders only.
AnnouncedWasPlaced ==
    \A o \in Orders : notice[o] # "none" => row[o] \in {"placed", "deleted"}

\* The committed rows, whatever the transactions in flight, obey OrderRecord:
\* a deleted order never comes back, Pending is never written again, only
\* untouched orders are deleted, only a pick-up gives an order a driver or puts it
\* on the road, and only an edit begun while it had none takes the driver off.
Taken == {o \in Orders : "PickedUp" \in seen[o]}

Undriven ==
    {o \in Orders : \E r \in Requests : /\ edit[r] # NoEdit
                                        /\ edit[r].order = o
                                        /\ EntityDriver(edit[r]) = NoDriver}

Record == INSTANCE OrderRecord
            WITH row <- [o \in Orders |-> IF row[o] = "inserted" THEN "unplaced" ELSE row[o]],
                 taken <- Taken,
                 undriven <- Undriven

ImplementsOrderRecord == Record!Spec

-----------------------------------------------------------------------------
(* Liveness.                                                               *)

\* Every edit that was accepted ends, also when others compete for the row.
EditsEnd == \A r \in Requests : (edit[r] # NoEdit) ~> (edit[r] = NoEdit)

\* Every placed order is announced to its owner, or its process has ended.
PlacedIsAnnounced ==
    \A o \in Orders : (row[o] = "placed") ~> (notice[o] \in {"sent", "lost"})

-----------------------------------------------------------------------------
(* What the documents say and the code does not do (see README, Findings). *)

\* 'Not your delivery': the order a driver marks Delivered is that driver's.
DeliveredByItsDriver ==
    [][\A r \in Requests :
          commitEdit(r) /\ edit[r].target = "Delivered" => driver'[edit[r].order] = edit[r].user]_vars
=============================================================================
