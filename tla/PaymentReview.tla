--------------------------- MODULE PaymentReview ----------------------------
(***************************************************************************)
(* PaymentService and ReviewService on top of OrderLifecycle.  Neither is  *)
(* transactional: each method is a chain of awaited queries, and edits,    *)
(* the nightly clean-up and other calls come between any two of them.      *)
(* What their checks miss is left to the schema: the unique indexes on     *)
(* payment.order_id and reviews.order_id and the foreign keys to "order".  *)
(*                                                                         *)
(* The bodies of createPayment and updateReview go into their entities     *)
(* whole; they are taken to carry the columns their DTOs declare, and no   *)
(* other.                                                                  *)
(***************************************************************************)
EXTENDS OrderLifecycle

CONSTANT Calls      \* slots for the payment and review requests in flight

VARIABLES
    payments,   \* payments[o] : number of payment rows of order o
    reviews,    \* reviews[o] : number of review rows of order o, deleted or not
    removed,    \* orders whose review has its deletedAt column set
    call        \* call[c] : where the request of slot c stands, or NoCall

tables == <<payments, reviews, removed, call>>

shopVars == <<vars, tables>>

Stages == {"pay.loaded", "pay.checked", "review.loaded", "review.checked",
           "revise.loaded", "remove.loaded"}

NoCall == [stage |-> "idle"]

ShopTypeOK ==
    /\ TypeOK
    /\ payments \in [Orders -> 0..2]
    /\ reviews \in [Orders -> 0..2]
    /\ removed \subseteq Orders
    /\ call \in [Calls -> [stage : Stages, order : Orders] \cup {NoCall}]

ShopInit ==
    /\ Init
    /\ payments = [o \in Orders |-> 0]
    /\ reviews = [o \in Orders |-> 0]
    /\ removed = {}
    /\ call = [c \in Calls |-> NoCall]

Paid == {o \in Orders : payments[o] > 0}

\* Soft-deleted reviews are invisible to every find.
Reviewed == {o \in Orders : reviews[o] > 0} \ removed

At(c, o, stage) == call[c] = [stage |-> stage, order |-> o]

\* The request of slot c goes on to the next stage, or answers and is gone.
Moves(c, o, stage) == call' = [call EXCEPT ![c] = [stage |-> stage, order |-> o]]
Answers(c)         == call' = [call EXCEPT ![c] = NoCall]

-----------------------------------------------------------------------------
(* processPayment                                                          *)

\* Steps 1 and 2: the order is there and the user is its customer.
loadOrderToPay(c, u, o) ==
    /\ call[c] = NoCall
    /\ row[o] = "placed"
    /\ u = CustomerOf[o]
    /\ Moves(c, o, "pay.loaded")
    /\ UNCHANGED <<vars, payments, reviews, removed>>

\* Step 3: is there a payment yet?  Then 400 and nothing else.
checkPayment(c, o) ==
    /\ At(c, o, "pay.loaded")
    /\ IF o \in Paid THEN Answers(c) ELSE Moves(c, o, "pay.checked")
    /\ UNCHANGED <<vars, payments, reviews, removed>>

\* Mutants: payment.order_id has no unique index; it has no foreign key.
AcceptsPayment_noIndex(o) == payments[o] < 2 /\ row[o] = "placed"
AcceptsPayment_noKey(o)   == o \notin Paid

\* The INSERT is accepted by the unique index and by the foreign key, which
\* reads the order's row and so waits for its lock.
AcceptsPayment(o) == o \notin Paid /\ row[o] = "placed"

\* Step 4: one INSERT; if the schema refuses it the client gets a 500.
savePayment(c, o) ==
    /\ At(c, o, "pay.checked")
    /\ ~Locked(o)
    /\ payments' = [payments EXCEPT ![o] = IF AcceptsPayment(o) THEN @ + 1 ELSE @]
    /\ Answers(c)
    /\ UNCHANGED <<vars, reviews, removed>>

-----------------------------------------------------------------------------
(* createReview                                                            *)

\* Mutant: the status is not looked at.
loadOrderToReview_early(c, u, o) ==
    /\ call[c] = NoCall
    /\ row[o] = "placed"
    /\ u = CustomerOf[o]
    /\ Moves(c, o, "review.loaded")
    /\ UNCHANGED <<vars, payments, reviews, removed>>

\* Steps 1 and 2: own order, matching restaurant, Delivered at this moment.
loadOrderToReview(c, u, o) ==
    /\ call[c] = NoCall
    /\ row[o] = "placed"
    /\ u = CustomerOf[o]
    /\ status[o] = "Delivered"
    /\ Moves(c, o, "review.loaded")
    /\ UNCHANGED <<vars, payments, reviews, removed>>

\* Step 3: a visible review means 409.
checkReview(c, o) ==
    /\ At(c, o, "review.loaded")
    /\ IF o \in Reviewed THEN Answers(c) ELSE Moves(c, o, "review.checked")
    /\ UNCHANGED <<vars, payments, reviews, removed>>

\* Mutant: the index is left out and the check alone guards the INSERT.
AcceptsReview_noIndex(o) == reviews[o] < 2 /\ row[o] = "placed"

\* The unique index counts deleted reviews too.
AcceptsReview(o) == reviews[o] = 0 /\ row[o] = "placed"

\* Step 4: one INSERT, or a 500.
saveReview(c, o) ==
    /\ At(c, o, "review.checked")
    /\ ~Locked(o)
    /\ reviews' = [reviews EXCEPT ![o] = IF AcceptsReview(o) THEN @ + 1 ELSE @]
    /\ Answers(c)
    /\ UNCHANGED <<vars, payments, removed>>

-----------------------------------------------------------------------------
(* updateReview and deleteReview, by the client who wrote the review.      *)

loadReview(c, u, o, stage) ==
    /\ call[c] = NoCall
    /\ o \in Reviewed
    /\ u = CustomerOf[o]
    /\ Moves(c, o, stage)
    /\ UNCHANGED <<vars, payments, reviews, removed>>

\* save() of the merged entity: the copy loaded before has deletedAt = null, and
\* every column that differs from the row as it is now is written.
saveRevision(c, o) ==
    /\ At(c, o, "revise.loaded")
    /\ removed' = removed \ {o}
    /\ Answers(c)
    /\ UNCHANGED <<vars, payments, reviews>>

\* Mutant: the row is deleted, not its deletedAt column set.
softDelete_hard(c, o) ==
    /\ At(c, o, "remove.loaded")
    /\ reviews' = [reviews EXCEPT ![o] = 0]
    /\ Answers(c)
    /\ UNCHANGED <<vars, payments, removed>>

softDelete(c, o) ==
    /\ At(c, o, "remove.loaded")
    /\ removed' = removed \cup {o}
    /\ Answers(c)
    /\ UNCHANGED <<vars, payments, reviews>>

-----------------------------------------------------------------------------
\* Mutant: the comparison of createdAt points the other way (MoreThan).
cleanUp_fresh ==
    /\ sweep # NoSweep
    /\ sweep.held = Orders
    /\ row' = [o \in Orders |->
                  IF row[o] = "placed" /\ status[o] = "Pending" /\ o \notin sweep.due \cup Paid
                  THEN "deleted" ELSE row[o]]
    /\ sweep' = NoSweep
    /\ UNCHANGED <<status, driver, stale, notice, edit, told, seen, stripped, tables>>

\* The end of the nightly DELETE, with the payments that now exist.
cleanUp ==
    /\ deleteDue(Paid)
    /\ UNCHANGED tables

Serve(c, o) ==
    \/ \E u \in Users : \/ loadOrderToPay(c, u, o)
                        \/ loadOrderToReview(c, u, o)
                        \/ loadReview(c, u, o, "revise.loaded")
                        \/ loadReview(c, u, o, "remove.loaded")
    \/ checkPayment(c, o)
    \/ savePayment(c, o)
    \/ checkReview(c, o)
    \/ saveReview(c, o)
    \/ saveRevision(c, o)
    \/ softDelete(c, o)

\* The process ends, or a query fails, before the request has answered.
dropCall(c) ==
    /\ call[c] # NoCall
    /\ Answers(c)
    /\ UNCHANGED <<vars, payments, reviews, removed>>

ShopNext ==
    \/ (\E o \in Orders : OrderStep(o)) /\ UNCHANGED tables
    \/ (\E r \in Requests : EditStep(r)) /\ UNCHANGED tables
    \/ CronStep /\ UNCHANGED tables
    \/ cleanUp
    \/ \E c \in Calls, o \in Orders : Serve(c, o)
    \/ \E c \in Calls : dropCall(c)

(***************************************************************************)
(* The event loop runs a request's next step and the commit hook as long   *)
(* as the process lives; InnoDB queues the waiters of a row lock in order, *)
(* so a waiter is served if the lock is released again and again; the      *)
(* clean-up is scheduled every day.  Nothing has to fail: no abort and no  *)
(* loss is fair.                                                           *)
(***************************************************************************)
ShopFairness ==
    /\ \A r \in Requests : /\ SF_shopVars(saveEdit(r) /\ UNCHANGED tables)
                           /\ WF_shopVars(commitEdit(r) /\ UNCHANGED tables)
    /\ \A o \in Orders : /\ WF_shopVars(commitOrder(o) /\ UNCHANGED tables)
                         /\ WF_shopVars(sendNotice(o) /\ UNCHANGED tables)
                         /\ SF_shopVars(scanRow(o) /\ UNCHANGED tables)
    /\ WF_shopVars(startCron /\ UNCHANGED tables)
    /\ WF_shopVars(cleanUp)
    /\ \A c \in Calls, o \in Orders :
          /\ WF_shopVars(checkPayment(c, o))
          /\ SF_shopVars(savePayment(c, o))
          /\ WF_shopVars(checkReview(c, o))
          /\ SF_shopVars(saveReview(c, o))
          /\ WF_shopVars(saveRevision(c, o))
          /\ WF_shopVars(softDelete(c, o))

ShopSpec == ShopInit /\ [][ShopNext]_shopVars

FairShopSpec == ShopSpec /\ ShopFairness

-----------------------------------------------------------------------------
(* Safety.                                                                 *)

\* doc/5: one order has only one payment, although two requests may both pass
\* the check before either saves.
OnePaymentPerOrder == \A o \in Orders : payments[o] <= 1

\* doc/11: one order has only one review, deleted ones included.
OneReviewPerOrder == \A o \in Orders : reviews[o] <= 1

\* A payment's order is never deleted, neither before the payment is saved nor
\* by a later clean-up.
PaidOrderStays == \A o \in Paid : row[o] = "placed"

\* A reviewed order has been Delivered and is never deleted, although its
\* status may change between the check and the INSERT and after it.
ReviewedWasDelivered ==
    \A o \in Orders : reviews[o] > 0 => row[o] = "placed" /\ "Delivered" \in seen[o]

\* The edit of slot r and the payment or review of slot c wait for a row lock.
EditWaits(r) ==
    /\ edit[r].phase = "read"
    /\ Writes(edit[r])
    /\ row[edit[r].order] = "placed"
    /\ Locked(edit[r].order)

CallWaits(c) == call[c].stage \in {"pay.checked", "review.checked"} /\ Locked(call[c].order)

\* No deadlock: as long as anything is in flight, something of it waits for no
\* lock, although edits, payments and reviews wait for edits, for INSERTs and for
\* the scan of the clean-up, and that scan for them.
NobodyIsStuck ==
    (\E r \in Requests : edit[r] # NoEdit) \/ (\E c \in Calls : call[c] # NoCall) \/ sweep # NoSweep =>
        \/ \E o \in Orders : row[o] = "inserted"
        \/ \E r \in Requests : edit[r] # NoEdit /\ ~EditWaits(r)
        \/ \E c \in Calls : call[c] # NoCall /\ ~CallWaits(c)
        \/ sweep # NoSweep /\ (sweep.held = Orders \/ \E o \in Orders \ sweep.held : ~InUse(o))

\* Orders, payments and reviews together obey ShopRecord, whatever requests are
\* between their checks and their INSERTs: nothing that is paid or reviewed is
\* ever lost, replaced or written for an order that may not have it.
Shop == INSTANCE ShopRecord
            WITH row <- [o \in Orders |-> IF row[o] = "inserted" THEN "unplaced" ELSE row[o]],
                 taken <- Taken,
                 undriven <- Undriven,
                 delivered <- {o \in Orders : "Delivered" \in seen[o]},
                 paid <- Paid,
                 reviewed <- {o \in Orders : reviews[o] > 0}

ImplementsShopRecord == Shop!ShopSpec

-----------------------------------------------------------------------------
(* Liveness.                                                               *)

\* A stale Pending order goes, unless some stale Pending order has been paid
\* (that one makes the whole DELETE fail) or the DELETE is cut off every time.
SweptUnlessOnePaid ==
    \/ []<><<abortCron>>_shopVars
    \/ \A o \in Orders :
          (o \in StalePending) ~> (o \notin StalePending \/ StalePending \cap Paid # {})

-----------------------------------------------------------------------------
(* What the documents say and the code does not do (see README, Findings). *)

\* doc/5: Pending orders left unpaid for 24 hours are deleted, if the DELETE is
\* not cut off every time.
UnpaidIsSwept ==
    \/ []<><<abortCron>>_shopVars
    \/ \A o \in Orders : (o \in StalePending) ~> (o \notin StalePending \/ o \in Paid)

\* A review that was deleted stays deleted.
DeletedReviewStaysDeleted == [][removed \subseteq removed']_shopVars
=============================================================================
