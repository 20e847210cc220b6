----------------------- MODULE PaymentReview_proofs ------------------------
(***************************************************************************)
(* Proofs about PaymentReview for every set of orders, users and slots.    *)
(* Every step of the shop is a step of OrderLifecycle or leaves its        *)
(* variables alone, so the invariants proved there carry over; what is new *)
(* is that being Delivered once protects an order from the clean-up.       *)
(***************************************************************************)
EXTENDS PaymentReview, OrderLifecycle_proofs

\* Once Delivered an order is there for good and never Pending again.
DeliveredStays(o) ==
    "Delivered" \in seen[o] => row[o] = "placed" /\ status[o] # "Pending"

\* The rows of payment and reviews that refer to order o.
TablesOK(o) ==
    /\ payments[o] \in {0, 1}
    /\ reviews[o] \in {0, 1}
    /\ payments[o] = 1 => row[o] = "placed"
    /\ reviews[o] = 1 => "Delivered" \in seen[o]

\* A review on its way was begun when the order was Delivered; an edit or a
\* removal of one on its way has found its row, which is never taken out.
CallOK(c) ==
    \A o \in Orders :
        /\ At(c, o, "review.loaded") \/ At(c, o, "review.checked") => "Delivered" \in seen[o]
        /\ At(c, o, "revise.loaded") \/ At(c, o, "remove.loaded") => reviews[o] = 1

CallType == call \in [Calls -> [stage : Stages, order : Orders] \cup {NoCall}]

ShopIInv ==
    /\ IInv
    /\ payments \in [Orders -> 0..1]
    /\ reviews \in [Orders -> 0..1]
    /\ removed \subseteq Orders
    /\ CallType
    /\ \A o \in Orders : DeliveredStays(o)
    /\ \A o \in Orders : TablesOK(o)
    /\ \A c \in Calls : CallOK(c)

\* Payments and reviews never touch the order: each step of the shop is one of
\* OrderLifecycle, or a stutter.
LEMMA ShopStepIsOrderStep == [ShopNext]_shopVars => [Next]_vars
<1> SUFFICES ASSUME [ShopNext]_shopVars PROVE [Next]_vars
    OBVIOUS
<1>1. CASE UNCHANGED shopVars
  BY <1>1 DEF shopVars
<1>2. ASSUME NEW c \in Calls, NEW o \in Orders, Serve(c, o) PROVE UNCHANGED vars
  BY <1>2 DEF Serve, loadOrderToPay, loadOrderToReview, loadReview, checkPayment, savePayment,
              checkReview, saveReview, saveRevision, softDelete
<1>3. ASSUME NEW c \in Calls, dropCall(c) PROVE UNCHANGED vars
  BY <1>3 DEF dropCall
<1>4. CASE cleanUp
  BY <1>4 DEF cleanUp, Next, Paid
<1>. QED  BY <1>1, <1>2, <1>3, <1>4 DEF ShopNext, Next

\* No edit takes a Delivered order back to Pending and no clean-up deletes it.
LEMMA DeliveredStep ==
    ASSUME IInv, [Next]_vars, NEW p \in Orders, DeliveredStays(p)
    PROVE  DeliveredStays(p)'
<1>0. TypeOK /\ RowOK(p)
  BY DEF IInv
<1>1. ASSUME NEW o \in Orders, OrderStep(o) PROVE DeliveredStays(p)'
  BY <1>0, <1>1 DEF OrderStep, createOrder, commitOrder, abortOrder, sendNotice, loseNotice,
                    turnStale, TypeOK, RowOK, DeliveredStays
<1>2. ASSUME NEW r \in Requests, EditStep(r), ~commitEdit(r) PROVE DeliveredStays(p)'
  BY <1>2 DEF EditStep, openEdit, saveEdit, abortEdit, DeliveredStays
<1>3. ASSUME NEW r \in Requests, commitEdit(r) PROVE DeliveredStays(p)'
  <2> DEFINE e == edit[r]
  <2>1. EditOK(e) /\ e.order \in Orders /\ row' = row
    BY <1>3, CommitFacts DEF commitEdit
  <2>2. CASE p # e.order \/ row[p] # "placed"
    <3>1. status'[p] = status[p] /\ seen'[p] = seen[p]
      BY <1>0, <1>3, <2>1, <2>2 DEF commitEdit, TypeOK
    <3>. QED  BY <2>1, <3>1 DEF DeliveredStays
  <2>3. CASE p = e.order /\ row[p] = "placed"
    <3>1. status'[p] = IF e.target # e.snapStatus THEN e.target ELSE status[p]
      BY <1>0, <1>3, <2>1, <2>3 DEF commitEdit, TypeOK, WritesStatus
    <3>. QED  BY <2>1, <2>3, <3>1 DEF EditOK, DeliveredStays
  <2>. QED  BY <2>2, <2>3
<1>4. CASE CronStep
  BY <1>4 DEF CronStep, startCron, scanRow, abortCron, DeliveredStays
<1>5. ASSUME NEW referenced \in SUBSET Orders, deleteDue(referenced) PROVE DeliveredStays(p)'
  BY <1>0, <1>5 DEF deleteDue, Doomed, TypeOK, DeliveredStays
<1>6. CASE UNCHANGED vars
  BY <1>6 DEF vars, DeliveredStays
<1>. QED  BY <1>1, <1>2, <1>3, <1>4, <1>5, <1>6 DEF Next

\* A step of the order alone keeps what the tables and the calls rely on.
LEMMA SeenGrows ==
    ASSUME ShopIInv, [Next]_vars, NEW p \in Orders, "Delivered" \in seen[p]
    PROVE  "Delivered" \in seen'[p]
<1>1. row[p] \in {"placed", "deleted"}
  BY DEF ShopIInv, DeliveredStays
<1>. QED  BY <1>1, RowsOnlyGrow DEF ShopIInv

\* A paid order survives every step: the foreign key refuses the DELETE.
LEMMA PaidSurvives ==
    ASSUME ShopIInv, [ShopNext]_shopVars, NEW p \in Orders, payments[p] = 1
    PROVE  row'[p] = "placed"
<1>0. TypeOK /\ row[p] = "placed" /\ p \in Paid
  BY DEF ShopIInv, IInv, TablesOK, Paid
<1>1. ASSUME NEW o \in Orders, OrderStep(o) PROVE row'[p] = "placed"
  BY <1>0, <1>1 DEF OrderStep, createOrder, commitOrder, abortOrder, sendNotice, loseNotice,
                    turnStale, TypeOK
<1>2. ASSUME NEW r \in Requests, EditStep(r) PROVE row'[p] = "placed"
  BY <1>0, <1>2 DEF EditStep, openEdit, saveEdit, commitEdit, abortEdit
<1>3. CASE CronStep
  BY <1>0, <1>3 DEF CronStep, startCron, scanRow, abortCron
<1>4. CASE cleanUp
  BY <1>0, <1>4 DEF cleanUp, deleteDue, TypeOK
<1>5. ASSUME NEW c \in Calls, NEW o \in Orders, Serve(c, o) PROVE row'[p] = "placed"
  BY <1>0, <1>5 DEF Serve, loadOrderToPay, loadOrderToReview, loadReview, checkPayment,
                    savePayment, checkReview, saveReview, saveRevision, softDelete, vars
<1>6. ASSUME NEW c \in Calls, dropCall(c) PROVE row'[p] = "placed"
  BY <1>0, <1>6 DEF dropCall, vars
<1>7. CASE UNCHANGED shopVars
  BY <1>0, <1>7 DEF shopVars, vars
<1>. QED  BY <1>1, <1>2, <1>3, <1>4, <1>5, <1>6, <1>7 DEF ShopNext

-----------------------------------------------------------------------------
\* The steps of PaymentService and ReviewService keep tables and calls good.
LEMMA ServeStep ==
    ASSUME ShopIInv, NEW c \in Calls, NEW o \in Orders, Serve(c, o)
    PROVE  /\ payments' \in [Orders -> 0..1]
           /\ reviews' \in [Orders -> 0..1]
           /\ removed' \subseteq Orders
           /\ CallType'
           /\ \A p \in Orders : TablesOK(p)'
           /\ \A d \in Calls : CallOK(d)'
<1>0. /\ payments \in [Orders -> 0..1]
      /\ reviews \in [Orders -> 0..1]
      /\ removed \subseteq Orders
      /\ call \in [Calls -> [stage : Stages, order : Orders] \cup {NoCall}]
      /\ \A p \in Orders : TablesOK(p)
      /\ \A d \in Calls : CallOK(d)
  BY DEF ShopIInv, CallType
<1> DEFINE Same == UNCHANGED vars
<1>1. Same
  BY DEF Serve, loadOrderToPay, loadOrderToReview, loadReview, checkPayment, savePayment,
         checkReview, saveReview, saveRevision, softDelete
<1>2. UNCHANGED <<row, status, seen>>
  BY <1>1 DEF vars
<1>r. \A p \in Orders : reviews[p] = 1 => reviews'[p] = 1
  BY <1>0 DEF Serve, loadOrderToPay, loadOrderToReview, loadReview, checkPayment, savePayment,
              checkReview, saveReview, AcceptsReview, saveRevision, softDelete
<1>3. ASSUME Answers(c) PROVE CallType' /\ \A d \in Calls : CallOK(d)'
  <2>1. NoCall \notin [stage : Stages, order : Orders]
    BY DEF NoCall, Stages
  <2>2. \A d \in Calls : call'[d] = call[d] \/ call'[d] = NoCall
    BY <1>0, <1>3 DEF Answers
  <2>3. \A d \in Calls, p \in Orders, s \in Stages : At(d, p, s)' => At(d, p, s)
    BY <2>1, <2>2 DEF At
  <2>4. {"review.loaded", "review.checked", "revise.loaded", "remove.loaded"} \subseteq Stages
    BY DEF Stages
  <2>5. \A d \in Calls : CallOK(d)'
    BY <1>0, <1>2, <1>r, <2>3, <2>4 DEF CallOK
  <2>. QED  BY <1>0, <1>3, <2>5 DEF Answers, CallType
<1>4. ASSUME NEW s \in Stages, Moves(c, o, s),
             s \in {"review.loaded", "review.checked"} => "Delivered" \in seen[o],
             s \in {"revise.loaded", "remove.loaded"} => reviews[o] = 1
      PROVE  CallType' /\ \A d \in Calls : CallOK(d)'
  <2>1. \A d \in Calls : call'[d] = call[d] \/ call'[d] = [stage |-> s, order |-> o]
    BY <1>0, <1>4 DEF Moves
  <2>2. \A d \in Calls : CallOK(d)'
    BY <1>0, <1>2, <1>r, <1>4, <2>1 DEF CallOK, At
  <2>3. [stage |-> s, order |-> o] \in [stage : Stages, order : Orders]
    OBVIOUS
  <2>. QED  BY <1>0, <1>4, <2>2, <2>3 DEF Moves, CallType
<1>5. ASSUME UNCHANGED <<payments, reviews>> PROVE \A p \in Orders : TablesOK(p)'
  BY <1>0, <1>2, <1>5 DEF TablesOK
<1>6. ASSUME NEW u \in Users, loadOrderToPay(c, u, o) PROVE Moves(c, o, "pay.loaded")
  BY <1>6 DEF loadOrderToPay
<1>7. ASSUME NEW u \in Users, loadOrderToReview(c, u, o)
      PROVE  Moves(c, o, "review.loaded") /\ "Delivered" \in seen[o]
  BY <1>7 DEF loadOrderToReview, ShopIInv, IInv, RowOK
<1>8. CASE savePayment(c, o)
  <2>1. payments' = [payments EXCEPT ![o] = IF AcceptsPayment(o) THEN payments[o] + 1 ELSE payments[o]]
    BY <1>8 DEF savePayment
  <2>2. AcceptsPayment(o) => payments[o] = 0 /\ row[o] = "placed"
    BY <1>0 DEF AcceptsPayment, Paid
  <2>3. payments' \in [Orders -> 0..1]
    BY <1>0, <2>1, <2>2
  <2>4. \A p \in Orders : TablesOK(p)'
    BY <1>0, <1>2, <1>8, <2>1, <2>2 DEF TablesOK, savePayment
  <2>. QED  BY <1>0, <1>3, <1>8, <2>3, <2>4 DEF savePayment
<1>9. CASE saveReview(c, o)
  <2>1. reviews' = [reviews EXCEPT ![o] = IF AcceptsReview(o) THEN reviews[o] + 1 ELSE reviews[o]]
    BY <1>9 DEF saveReview
  <2>2. AcceptsReview(o) => reviews[o] = 0
    BY DEF AcceptsReview
  <2>3. "Delivered" \in seen[o]
    BY <1>0, <1>9 DEF CallOK, saveReview
  <2>4. reviews' \in [Orders -> 0..1]
    BY <1>0, <2>1, <2>2
  <2>5. \A p \in Orders : TablesOK(p)'
    BY <1>0, <1>2, <1>9, <2>1, <2>2, <2>3 DEF TablesOK, saveReview
  <2>. QED  BY <1>0, <1>3, <1>9, <2>4, <2>5 DEF saveReview
<1>10. CASE checkReview(c, o)
  <2>1. "Delivered" \in seen[o]
    BY <1>0, <1>10 DEF checkReview, CallOK
  <2>. QED  BY <1>0, <1>3, <1>4, <1>5, <1>10, <2>1 DEF checkReview, Stages
<1>11. CASE checkPayment(c, o)
  BY <1>0, <1>3, <1>4, <1>5, <1>11 DEF checkPayment, Stages
<1>12. CASE saveRevision(c, o) \/ softDelete(c, o)
  BY <1>0, <1>3, <1>5, <1>12 DEF saveRevision, softDelete
<1>13. ASSUME NEW u \in Users,
              \/ loadOrderToPay(c, u, o)
              \/ loadOrderToReview(c, u, o)
              \/ loadReview(c, u, o, "revise.loaded")
              \/ loadReview(c, u, o, "remove.loaded")
       PROVE  /\ UNCHANGED <<payments, reviews, removed>>
              /\ CallType' /\ \A d \in Calls : CallOK(d)'
  <2>1. UNCHANGED <<payments, reviews, removed>>
    BY <1>13 DEF loadOrderToPay, loadOrderToReview, loadReview
  <2>2. \E s \in Stages : /\ Moves(c, o, s)
                          /\ s \in {"review.loaded", "review.checked"} => "Delivered" \in seen[o]
                          /\ s \in {"revise.loaded", "remove.loaded"} => reviews[o] = 1
    BY <1>0, <1>6, <1>7, <1>13 DEF loadReview, Reviewed, TablesOK, Stages
  <2>. QED  BY <1>4, <2>1, <2>2
<1>. QED  BY <1>0, <1>5, <1>8, <1>9, <1>10, <1>11, <1>12, <1>13 DEF Serve

LEMMA ShopInvariantStep == ShopIInv /\ [ShopNext]_shopVars => ShopIInv'
<1> SUFFICES ASSUME ShopIInv, [ShopNext]_shopVars PROVE ShopIInv'
    OBVIOUS
<1>1. [Next]_vars
  BY ShopStepIsOrderStep
<1>2. IInv'
  <2>1. TypeOK'
    BY <1>1, TypeStep DEF ShopIInv
  <2>2. \A o \in Orders : RowOK(o)'
    BY <1>1, RowStep DEF ShopIInv
  <2>3. \A r \in Requests : edit'[r] # NoEdit => EditOK(edit[r])'
    BY <1>1, SlotStep DEF ShopIInv
  <2>. QED  BY <2>1, <2>2, <2>3 DEF IInv
<1>3. \A o \in Orders : DeliveredStays(o)'
  BY <1>1, DeliveredStep DEF ShopIInv
<1>4. ASSUME UNCHANGED <<payments, reviews, removed>>, UNCHANGED call \/ \E c \in Calls : Answers(c)
      PROVE  ShopIInv'
  <2>1. NoCall \notin [stage : Stages, order : Orders]
    BY DEF NoCall, Stages
  <2>2. \A d \in Calls : call'[d] = call[d] \/ call'[d] = NoCall
    BY <1>4 DEF Answers, ShopIInv, CallType
  <2>3. CallType'
    BY <1>4 DEF Answers, ShopIInv, CallType
  <2>4. \A p \in Orders : TablesOK(p)'
    BY <1>1, <1>4, PaidSurvives, SeenGrows DEF ShopIInv, TablesOK
  <2>5. \A d \in Calls, p \in Orders, s \in Stages : At(d, p, s)' => At(d, p, s)
    BY <2>1, <2>2 DEF At
  <2>6. {"review.loaded", "review.checked", "revise.loaded", "remove.loaded"} \subseteq Stages
    BY DEF Stages
  <2>7. \A d \in Calls : CallOK(d)'
    BY <1>1, <1>4, <2>5, <2>6, SeenGrows DEF ShopIInv, CallOK
  <2>. QED  BY <1>2, <1>3, <1>4, <2>3, <2>4, <2>7 DEF ShopIInv
<1>5. ASSUME NEW c \in Calls, NEW o \in Orders, Serve(c, o) PROVE ShopIInv'
  BY <1>2, <1>3, <1>5, ServeStep DEF ShopIInv
<1>6. ASSUME NEW c \in Calls, dropCall(c) PROVE ShopIInv'
  BY <1>4, <1>6 DEF dropCall
<1>7. CASE UNCHANGED tables
  BY <1>4, <1>7 DEF tables
<1>. QED  BY <1>5, <1>6, <1>7 DEF ShopNext, cleanUp, shopVars

-----------------------------------------------------------------------------
(* The theorems.                                                           *)

\* The inductive invariant holds of every interleaving of payments, reviews, edits
\* and clean-ups.
THEOREM ShopInvariant == ShopSpec => []ShopIInv
<1>1. ASSUME ShopInit PROVE ShopIInv
  <2>1. IInv
    BY <1>1, InitIsGood DEF ShopInit
  <2>2. /\ \A o \in Orders : seen[o] = {} /\ payments[o] = 0 /\ reviews[o] = 0
        /\ \A c \in Calls : call[c] = NoCall
    BY <1>1 DEF ShopInit, Init
  <2>3. ASSUME NEW o \in Orders PROVE DeliveredStays(o) /\ TablesOK(o)
    <3>1. DeliveredStays(o)
      BY <2>2 DEF DeliveredStays
    <3>2. payments[o] = 0 /\ reviews[o] = 0
      BY <2>2
    <3>. QED  BY <3>1, <3>2 DEF TablesOK
  <2>4. \A c \in Calls : CallOK(c)
    <3>1. \A o \in Orders, s \in Stages : NoCall # [stage |-> s, order |-> o]
      BY DEF NoCall, Stages
    <3>. QED  BY <2>2, <3>1 DEF CallOK, At, Stages
  <2>. QED  BY <1>1, <2>1, <2>3, <2>4 DEF ShopInit, ShopIInv, CallType
<1>. QED  BY <1>1, ShopInvariantStep, PTL DEF ShopSpec

\* Every variable of the shop keeps its type.
THEOREM ShopTypeCorrect == ShopSpec => []ShopTypeOK
<1>1. ShopIInv => ShopTypeOK
  <2> SUFFICES ASSUME ShopIInv PROVE ShopTypeOK
      OBVIOUS
  <2>1. TypeOK
    BY DEF ShopIInv, IInv
  <2>2. payments \in [Orders -> 0..2] /\ reviews \in [Orders -> 0..2]
    BY DEF ShopIInv
  <2>. QED  BY <2>1, <2>2 DEF ShopIInv, ShopTypeOK, CallType
<1>. QED  BY <1>1, ShopInvariant, PTL

\* The whole shop is still an OrderLifecycle: its theorems hold here too.
THEOREM ShopImplementsOrderLifecycle == ShopSpec => Spec
<1>1. ShopInit => Init
  BY DEF ShopInit
<1>. QED  BY <1>1, ShopStepIsOrderStep, PTL DEF ShopSpec, Spec

\* At most one payment row per order, however requests interleave.
THEOREM PaidOnce == ShopSpec => []OnePaymentPerOrder
<1>1. ShopIInv => OnePaymentPerOrder
  <2> SUFFICES ASSUME NEW o \in Orders, TablesOK(o) PROVE payments[o] <= 1
      BY DEF ShopIInv, OnePaymentPerOrder
  <2>. QED  BY DEF TablesOK
<1>. QED  BY <1>1, ShopInvariant, PTL

\* At most one review row per order, soft-deleted reviews included.
THEOREM ReviewedOnce == ShopSpec => []OneReviewPerOrder
<1>1. ShopIInv => OneReviewPerOrder
  <2> SUFFICES ASSUME NEW o \in Orders, TablesOK(o) PROVE reviews[o] <= 1
      BY DEF ShopIInv, OneReviewPerOrder
  <2>. QED  BY DEF TablesOK
<1>. QED  BY <1>1, ShopInvariant, PTL

\* The nightly clean-up never deletes a paid order.
THEOREM PaidOrderIsKept == ShopSpec => []PaidOrderStays
<1>1. ShopIInv => PaidOrderStays
  <2> SUFFICES ASSUME NEW o \in Orders, TablesOK(o), payments[o] > 0 PROVE row[o] = "placed"
      BY DEF ShopIInv, PaidOrderStays, Paid
  <2>. QED  BY DEF TablesOK
<1>. QED  BY <1>1, ShopInvariant, PTL

\* Every review belongs to an order that was Delivered and is still there.
THEOREM ReviewedIsDelivered == ShopSpec => []ReviewedWasDelivered
<1>1. ShopIInv => ReviewedWasDelivered
  BY DEF ShopIInv, TablesOK, DeliveredStays, ReviewedWasDelivered
<1>. QED  BY <1>1, ShopInvariant, PTL

\* Locks never make everybody wait: who holds one has its last step before it,
\* except the scan of the clean-up, which waits for such holders only.
THEOREM ShopNeverDeadlocks == ShopSpec => []NobodyIsStuck
<1>1. ShopIInv => NobodyIsStuck
  <2> SUFFICES ASSUME ShopIInv,
                      \A o \in Orders : row[o] # "inserted",
                      \A r \in Requests : edit[r] # NoEdit => EditWaits(r),
                      \A c \in Calls : call[c] # NoCall => CallWaits(c),
                      sweep # NoSweep => sweep.held # Orders /\ \A o \in Orders \ sweep.held : InUse(o)
               PROVE  /\ \A r \in Requests : edit[r] = NoEdit
                      /\ \A c \in Calls : call[c] = NoCall
                      /\ sweep = NoSweep
      BY DEF NobodyIsStuck
  <2>0. TypeOK
    BY DEF ShopIInv, IInv
  <2>1. \A o \in Orders : ~InUse(o)
    BY DEF InUse, HoldsRow, EditWaits
  <2>2. sweep = NoSweep
    BY <2>0, <2>1 DEF TypeOK, Sweeps
  <2>3. \A o \in Orders : ~Locked(o)
    BY <2>1, <2>2 DEF Locked, Swept
  <2>4. ASSUME NEW r \in Requests, edit[r] # NoEdit PROVE FALSE
    <3>1. edit[r].order \in Orders
      BY <2>0, <2>4 DEF TypeOK, Edits
    <3>. QED  BY <2>3, <2>4, <3>1 DEF EditWaits
  <2>5. ASSUME NEW c \in Calls, call[c] # NoCall PROVE FALSE
    <3>1. call[c].order \in Orders
      BY <2>5 DEF ShopIInv, CallType
    <3>. QED  BY <2>3, <2>5, <3>1 DEF CallWaits
  <2>. QED  BY <2>2, <2>4, <2>5
<1>. QED  BY <1>1, ShopInvariant, PTL

-----------------------------------------------------------------------------
(* Refinement: orders, payments and reviews together obey ShopRecord.      *)

DeliveredOnce == {o \in Orders : "Delivered" \in seen[o]}

ReviewRows == {o \in Orders : reviews[o] > 0}

\* What ShopRecord sees of a state.
Ledger == <<Columns, DeliveredOnce, Paid, ReviewRows, removed>>

\* A commit of createOrder sells an order nobody has delivered yet.
LEMMA SellRefines ==
    ASSUME IInv, NEW o \in Orders, commitOrder(o), UNCHANGED tables
    PROVE  Shop!Trade
<1>1. TypeOK /\ RowOK(o)
  BY DEF IInv
<1>2. UNCHANGED <<Taken, Undriven, DeliveredOnce>>
  BY <1>1 DEF commitOrder, TypeOK, RowOK, Taken, Undriven, DeliveredOnce
<1>3. Shop!Place(o)
  BY <1>1, <1>2 DEF commitOrder, TypeOK, Shop!Place, Taken, Undriven
<1>4. UNCHANGED <<Paid, ReviewRows, removed>>
  BY DEF tables, Paid, ReviewRows
<1>5. Shop!Sell(o)
  BY <1>2, <1>3, <1>4 DEF Shop!Sell, Shop!tables, DeliveredOnce, ReviewRows
<1>. QED  BY <1>5 DEF Shop!Trade

\* A commit of editOrderStatus handles an order; Delivered is remembered.
LEMMA HandleRefines ==
    ASSUME IInv, NEW r \in Requests, commitEdit(r), UNCHANGED tables
    PROVE  Shop!Trade \/ UNCHANGED Ledger
<1>1. UNCHANGED <<Visible, Paid, ReviewRows, removed>>
  BY DEF commitEdit, tables, Visible, Paid, ReviewRows
<1>2. /\ edit[r].order \in Orders
      /\ Undriven' \in {Undriven, Undriven \ {edit[r].order}}
  BY UndrivenShrinks DEF commitEdit
<1>3. CASE row[edit[r].order] # "placed"
  <2>1. UNCHANGED <<Visible, status, driver, Taken, DeliveredOnce>>
    BY <1>1, <1>3 DEF commitEdit, Taken, DeliveredOnce
  <2>2. UNCHANGED Columns \/ Shop!End(edit[r].order)
    BY <1>2, <2>1 DEF Columns, Shop!End, Visible, Taken, Undriven
  <2>3. UNCHANGED Columns \/ Shop!Attend(edit[r].order)
    BY <1>1, <2>1, <2>2 DEF Shop!Attend, Shop!tables, DeliveredOnce, ReviewRows
  <2>. QED  BY <1>1, <1>2, <2>1, <2>3 DEF Shop!Trade, Ledger
<1>4. CASE row[edit[r].order] = "placed"
  <2>1. PICK o \in Orders : o = edit[r].order
    BY <1>2
  <2>2. PICK s \in OrderStatus, d \in Drivers \cup {NoDriver} :
            /\ status' = [status EXCEPT ![o] = s]
            /\ driver' = [driver EXCEPT ![o] = d]
            /\ seen' = [seen EXCEPT ![o] = @ \cup {s}]
            /\ s # "Pending"
            /\ "PickedUp" \notin seen[o] => Record!FirstHand(s, d)
            /\ d = NoDriver /\ driver[o] # NoDriver => o \in Undriven
    BY <1>4, <2>1, CommitEffect
  <2>3. Visible[o] = "placed"
    BY <1>4, <2>1 DEF Visible
  <2>4. Taken' = IF s = "PickedUp" THEN Taken \cup {o} ELSE Taken
    BY <2>2 DEF Taken, IInv, TypeOK
  <2>5. Shop!Edit(o, s, d)
    BY <1>1, <1>2, <2>1, <2>2, <2>3, <2>4
       DEF Shop!Edit, Shop!FirstHand, Record!FirstHand, Visible, Taken, Undriven
  <2>6. DeliveredOnce' = IF s = "Delivered" THEN DeliveredOnce \cup {o} ELSE DeliveredOnce
    BY <2>2 DEF DeliveredOnce, IInv, TypeOK
  <2>7. Shop!Handle(o, s, d)
    BY <1>1, <2>5, <2>6 DEF Shop!Handle, Shop!tables, DeliveredOnce, ReviewRows
  <2>. QED  BY <2>7 DEF Shop!Trade, Shop!OrderStatus, OrderStatus
<1>. QED  BY <1>3, <1>4

\* An edit that begins, saves or rolls back is at most an Attend of the record.
LEMMA AttendRefines ==
    ASSUME IInv, NEW r \in Requests, EditStep(r), ~commitEdit(r), UNCHANGED tables
    PROVE  Shop!Trade \/ UNCHANGED Ledger
<1>1. UNCHANGED <<DeliveredOnce, Paid, ReviewRows, removed>>
  BY DEF EditStep, openEdit, saveEdit, abortEdit, tables, DeliveredOnce, Paid, ReviewRows
<1>2. ASSUME NEW o \in Orders, Record!Begin(o) \/ Record!End(o) PROVE Shop!Attend(o)
  BY <1>1, <1>2 DEF Record!Begin, Record!End, Shop!Attend, Shop!Begin, Shop!End, Shop!tables,
                    DeliveredOnce, ReviewRows
<1>. QED  BY <1>1, <1>2, EditRefines DEF Shop!Trade, Ledger

\* The clean-up discards untouched orders, none of them paid for, or fails.
LEMMA DiscardRefines ==
    ASSUME IInv, cleanUp
    PROVE  Shop!Trade \/ UNCHANGED Ledger
<1>1. UNCHANGED <<status, driver, Taken, Undriven, DeliveredOnce, Paid, ReviewRows, removed>>
  BY DEF cleanUp, deleteDue, tables, Taken, Undriven, DeliveredOnce, Paid, ReviewRows
<1>2. CASE UNCHANGED row
  BY <1>1, <1>2 DEF Ledger, Columns, Visible
<1>3. CASE /\ Doomed \cap Paid = {}
           /\ row' = [o \in Orders |-> IF o \in Doomed THEN "deleted" ELSE row[o]]
  <2>1. PICK gone \in SUBSET Orders : gone = Doomed
    BY DEF Doomed, cleanUp, deleteDue, IInv, TypeOK, Sweeps
  <2>2. \A o \in gone : Visible[o] = "placed" /\ status[o] = "Pending" /\ driver[o] = NoDriver
    BY <2>1 DEF Doomed, Visible, IInv, RowOK
  <2>3. Visible' = [o \in Orders |-> IF o \in gone THEN "deleted" ELSE Visible[o]]
    BY <1>3, <2>1 DEF Visible, Doomed
  <2>4. Shop!Remove(gone)
    BY <1>1, <2>2, <2>3 DEF Shop!Remove, Shop!Untouched, Visible, Taken, Undriven
  <2>5. Shop!Discard(gone)
    BY <1>1, <1>3, <2>1, <2>4 DEF Shop!Discard, Shop!tables, DeliveredOnce, ReviewRows
  <2>. QED  BY <2>5 DEF Shop!Trade
<1>. QED  BY <1>2, <1>3 DEF cleanUp, deleteDue

\* A step of a payment or of a review writes at most what its table may take.
LEMMA ServeRefines ==
    ASSUME ShopIInv, NEW c \in Calls, NEW o \in Orders, Serve(c, o)
    PROVE  Shop!Trade \/ UNCHANGED Ledger
<1>0. /\ payments \in [Orders -> 0..1]
      /\ reviews \in [Orders -> 0..1]
      /\ TablesOK(o)
      /\ CallOK(c)
  BY DEF ShopIInv
<1>1. UNCHANGED <<vars, Columns, DeliveredOnce>>
  BY DEF Serve, loadOrderToPay, loadOrderToReview, loadReview, checkPayment, savePayment,
         checkReview, saveReview, saveRevision, softDelete, vars, Columns, Visible, Taken, Undriven, DeliveredOnce
<1>v. UNCHANGED Shop!vars
  BY <1>1 DEF Columns, Visible, Taken, Undriven, Shop!vars
<1>2. CASE UNCHANGED <<payments, reviews, removed>>
  BY <1>1, <1>2 DEF Ledger, Paid, ReviewRows
<1>3. CASE savePayment(c, o)
  <2>1. CASE ~AcceptsPayment(o)
    <3>1. UNCHANGED <<payments, reviews, removed>>
      BY <1>0, <1>3, <2>1 DEF savePayment
    <3>. QED  BY <1>2, <3>1
  <2>2. CASE AcceptsPayment(o)
    <3>1. Visible[o] = "placed" /\ o \notin Paid
      BY <2>2 DEF AcceptsPayment, Visible
    <3>2. Paid' = Paid \cup {o}
      BY <1>0, <1>3, <2>2 DEF savePayment, AcceptsPayment, Paid
    <3>3. UNCHANGED <<ReviewRows, removed>>
      BY <1>3 DEF savePayment, ReviewRows
    <3>4. Shop!Pay(o)
      BY <1>1, <1>v, <3>1, <3>2, <3>3 DEF Shop!Pay, Visible, DeliveredOnce, ReviewRows
    <3>. QED  BY <3>4 DEF Shop!Trade
  <2>. QED  BY <2>1, <2>2
<1>4. CASE saveReview(c, o)
  <2>1. CASE ~AcceptsReview(o)
    <3>1. UNCHANGED <<payments, reviews, removed>>
      BY <1>0, <1>4, <2>1 DEF saveReview
    <3>. QED  BY <1>2, <3>1
  <2>2. CASE AcceptsReview(o)
    <3>1. Visible[o] = "placed" /\ o \in DeliveredOnce \ ReviewRows
      BY <1>0, <1>4, <2>2 DEF saveReview, AcceptsReview, CallOK, Visible, DeliveredOnce, ReviewRows
    <3>2. ReviewRows' = ReviewRows \cup {o}
      BY <1>0, <1>4, <2>2 DEF saveReview, AcceptsReview, ReviewRows
    <3>3. UNCHANGED <<Paid, removed>>
      BY <1>4 DEF saveReview, Paid
    <3>4. Shop!Review(o)
      BY <1>1, <1>v, <3>1, <3>2, <3>3 DEF Shop!Review, Visible, DeliveredOnce, ReviewRows
    <3>. QED  BY <3>4 DEF Shop!Trade
  <2>. QED  BY <2>1, <2>2
<1>5. CASE saveRevision(c, o) \/ softDelete(c, o)
  <2>1. o \in ReviewRows
    BY <1>0, <1>5 DEF CallOK, saveRevision, softDelete, ReviewRows
  <2>2. UNCHANGED <<Paid, ReviewRows>>
    BY <1>5 DEF saveRevision, softDelete, Paid, ReviewRows
  <2>3. Shop!PutUp(o) \/ Shop!TakeDown(o)
    BY <1>1, <1>v, <1>5, <2>1, <2>2
       DEF saveRevision, softDelete, Shop!PutUp, Shop!TakeDown, DeliveredOnce, ReviewRows
  <2>. QED  BY <2>3 DEF Shop!Trade
<1>. QED  BY <1>2, <1>3, <1>4, <1>5 DEF Serve, loadOrderToPay, loadOrderToReview, loadReview,
                                       checkPayment, checkReview

\* Orders, payments and reviews implement ShopRecord: what is paid or reviewed is
\* there for good, paid and reviewed once, and reviewed after it was Delivered.
THEOREM ShopRefines == ShopSpec => ImplementsShopRecord
<1>1. ShopInit => Shop!Start
  BY DEF ShopInit, Init, Paid, Taken, Undriven, Shop!Start, Shop!Init
<1>2. ShopIInv /\ [ShopNext]_shopVars => Shop!Trade \/ UNCHANGED Ledger
  <2> SUFFICES ASSUME ShopIInv, [ShopNext]_shopVars PROVE Shop!Trade \/ UNCHANGED Ledger
      OBVIOUS
  <2>0. IInv /\ TypeOK
    BY DEF ShopIInv, IInv
  <2>1. ASSUME UNCHANGED tables, UNCHANGED <<Columns, seen>>
        PROVE  UNCHANGED Ledger
    BY <2>1 DEF Ledger, tables, DeliveredOnce, Paid, ReviewRows
  <2>2. ASSUME NEW o \in Orders, OrderStep(o), ~commitOrder(o)
        PROVE  UNCHANGED <<Columns, seen>>
    BY <2>0, <2>2 DEF OrderStep, createOrder, abortOrder, sendNotice, loseNotice, turnStale,
                      TypeOK, Columns, Visible, Taken, Undriven
  <2>3. CASE CronStep /\ UNCHANGED tables
    BY <2>1, <2>3 DEF CronStep, startCron, scanRow, abortCron, Columns, Visible, Taken, Undriven
  <2>4. CASE UNCHANGED shopVars
    BY <2>1, <2>4 DEF shopVars, vars, Columns, Visible, Taken, Undriven
  <2>5. ASSUME NEW c \in Calls, dropCall(c) PROVE UNCHANGED Ledger
    BY <2>5 DEF dropCall, vars, Columns, Visible, Taken, Undriven, Ledger, DeliveredOnce,
                Paid, ReviewRows
  <2>. QED  BY <2>0, <2>1, <2>2, <2>3, <2>4, <2>5, SellRefines, HandleRefines, AttendRefines,
               DiscardRefines, ServeRefines DEF ShopNext
<1>3. ShopIInv /\ [ShopNext]_shopVars => [Shop!Trade]_Shop!shopVars
  BY <1>2 DEF Ledger, Columns, Visible, Taken, Undriven, DeliveredOnce, ReviewRows, Shop!shopVars, Shop!vars, Shop!tables
<1>. QED  BY <1>1, <1>3, ShopInvariant, PTL DEF ShopSpec, ImplementsShopRecord, Shop!ShopSpec

\* ShopRecord adds to OrderRecord and takes nothing back.
THEOREM ShopRecordKeepsOrderRecord == ImplementsShopRecord => ImplementsOrderRecord
<1>1. Shop!Start => Record!Init
  BY DEF Shop!Start, Shop!Init, Record!Init
<1>2. [Shop!Trade]_Shop!shopVars => [Record!Next]_Record!vars
  <2> SUFFICES ASSUME [Shop!Trade]_Shop!shopVars PROVE [Record!Next]_Record!vars
      OBVIOUS
  <2>1. ASSUME NEW o \in Orders, Shop!Sell(o) PROVE Record!Next
    BY <2>1 DEF Shop!Sell, Shop!Place, Record!Place, Record!Next
  <2>2. ASSUME NEW o \in Orders, NEW s \in Shop!OrderStatus, NEW d \in Drivers \cup {NoDriver},
               Shop!Handle(o, s, d)
        PROVE  Record!Next
    BY <2>2 DEF Shop!Handle, Shop!Edit, Shop!FirstHand, Shop!OrderStatus, Record!Edit,
                Record!FirstHand, Record!OrderStatus, Record!Next
  <2>3. ASSUME NEW gone \in SUBSET Orders, Shop!Discard(gone) PROVE Record!Next
    BY <2>3 DEF Shop!Discard, Shop!Remove, Shop!Untouched, Record!Remove, Record!Untouched,
                Record!Next
  <2>4. ASSUME NEW o \in Orders,
               Shop!Pay(o) \/ Shop!Review(o) \/ Shop!TakeDown(o) \/ Shop!PutUp(o)
        PROVE  UNCHANGED Record!vars
    BY <2>4 DEF Shop!Pay, Shop!Review, Shop!TakeDown, Shop!PutUp, Shop!vars, Record!vars
  <2>5. ASSUME NEW o \in Orders, Shop!Attend(o) PROVE Record!Next
    BY <2>5 DEF Shop!Attend, Shop!Begin, Shop!End, Record!Begin, Record!End, Record!Next
  <2>. QED  BY <2>1, <2>2, <2>3, <2>4, <2>5 DEF Shop!Trade, Shop!shopVars, Shop!vars, Record!vars
<1>. QED  BY <1>1, <1>2, PTL DEF ImplementsShopRecord, ImplementsOrderRecord, Shop!ShopSpec, Record!Spec
=============================================================================
