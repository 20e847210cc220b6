----------------------- MODULE OrderLifecycle_proofs -----------------------
(***************************************************************************)
(* Proofs about OrderLifecycle for every set of orders, users and request  *)
(* slots.  The heart is what an edit in flight may still assume about the  *)
(* row it read, however many other edits have committed since: EditOK.     *)
(***************************************************************************)
EXTENDS OrderLifecycle, TLAPS

WithDriver == {"PickedUp", "Delivered"}

\* What is always true of the row of order o, its history and its events.
RowOK(o) ==
    /\ row[o] \in {"unplaced", "inserted"} => notice[o] = "none"
    /\ row[o] \in {"unplaced", "inserted"} => status[o] = "Pending" /\ seen[o] = {}
    /\ status[o] = "Pending" => driver[o] = NoDriver
    /\ status[o] \in WithDriver => driver[o] # NoDriver \/ o \in stripped
    /\ o \in stripped => driver[o] = NoDriver
    /\ driver[o] # NoDriver => "PickedUp" \in seen[o]
    /\ "Delivered" \in seen[o] => "PickedUp" \in seen[o]
    /\ row[o] = "placed" => status[o] \in seen[o]
    /\ status[o] # "Pending" => status[o] \in told[o]

\* What a transaction in flight knows: its target passed the checks, and what
\* its snapshot showed has left its mark on the row, unless the driver it showed
\* has been taken off since.
EditOK(e) ==
    /\ row[e.order] \in {"placed", "deleted"}
    /\ e.target # "Pending"
    /\ e.target \in WithDriver => e.user \in Drivers
    /\ e.target = "Delivered" => e.snapDriver = e.user
    /\ e.snapStatus \in seen[e.order]
    /\ e.snapStatus # "Pending" => status[e.order] # "Pending"
    /\ e.snapDriver # NoDriver => "PickedUp" \in seen[e.order]
    /\ e.snapDriver # NoDriver => driver[e.order] # NoDriver \/ e.order \in stripped
    /\ e.phase = "saved" => e.target \in told[e.order]

IInv ==
    /\ TypeOK
    /\ \A o \in Orders : RowOK(o)
    /\ \A r \in Requests : edit[r] # NoEdit => EditOK(edit[r])

-----------------------------------------------------------------------------
(* Type correctness.                                                       *)

\* The type of the driver column needs EditOK: only a driver's edit writes it.
LEMMA TypeStep == IInv /\ [Next]_vars => TypeOK'
<1> SUFFICES ASSUME IInv, [Next]_vars PROVE TypeOK'
    OBVIOUS
<1>0. TypeOK
    BY DEF IInv
<1> USE <1>0 DEF TypeOK
<1>1. ASSUME NEW o \in Orders, OrderStep(o) PROVE TypeOK'
  <2>1. CASE createOrder(o)  BY <2>1 DEF createOrder
  <2>2. CASE commitOrder(o)  BY <2>2 DEF commitOrder, OrderStatus
  <2>3. CASE abortOrder(o)   BY <2>3 DEF abortOrder
  <2>4. CASE sendNotice(o)   BY <2>4 DEF sendNotice
  <2>5. CASE loseNotice(o)   BY <2>5 DEF loseNotice
  <2>6. CASE turnStale(o)    BY <2>6 DEF turnStale
  <2>. QED  BY <1>1, <2>1, <2>2, <2>3, <2>4, <2>5, <2>6 DEF OrderStep
<1>2. ASSUME NEW r \in Requests, EditStep(r) PROVE TypeOK'
  <2>1. ASSUME NEW u \in Users, NEW o \in Orders, NEW t \in OrderStatus, openEdit(r, u, o, t)
        PROVE TypeOK'
    <3>1. u \in Owners \cup Drivers
      BY <2>1 DEF openEdit, MayEdit
    <3>. QED  BY <2>1, <3>1 DEF openEdit, Edits
  <2>2. CASE saveEdit(r)
    <3>1. edit[r] \in Edits
      BY <2>2 DEF saveEdit
    <3>2. /\ [edit[r] EXCEPT !.phase = "saved"] \in Edits
          /\ edit[r].order \in Orders
          /\ edit[r].target \in OrderStatus
      BY <3>1 DEF Edits
    <3>. QED  BY <2>2, <3>2 DEF saveEdit
  <2>3. CASE commitEdit(r)
    <3>1. edit[r] \in Edits
      BY <2>3 DEF commitEdit
    <3>2. /\ edit[r].order \in Orders
          /\ edit[r].target \in OrderStatus
          /\ EntityDriver(edit[r]) \in Drivers \cup {NoDriver}
      BY <2>3, <3>1 DEF Edits, IInv, EditOK, EntityDriver, commitEdit, WithDriver
    <3>. QED  BY <2>3, <3>2 DEF commitEdit
  <2>4. CASE abortEdit(r)    BY <2>4 DEF abortEdit
  <2>. QED  BY <1>2, <2>1, <2>2, <2>3, <2>4 DEF EditStep
<1>3. CASE CronStep
  BY <1>3 DEF CronStep, startCron, scanRow, abortCron, Sweeps
<1>4. ASSUME NEW referenced \in SUBSET Orders, deleteDue(referenced) PROVE TypeOK'
  BY <1>4 DEF deleteDue
<1>5. CASE UNCHANGED vars
  BY <1>5 DEF vars
<1>. QED  BY <1>1, <1>2, <1>3, <1>4, <1>5 DEF Next

-----------------------------------------------------------------------------
(* The rows.                                                               *)

\* What a commit does to the row of its order, with the snapshot facts used up.
LEMMA CommitFacts ==
    ASSUME IInv, NEW r \in Requests, commitEdit(r)
    PROVE  /\ edit[r] \in Edits
           /\ EditOK(edit[r])
           /\ edit[r].order \in Orders
           /\ RowOK(edit[r].order)
           /\ edit[r].target = "PickedUp" => edit[r].user # NoDriver
  BY RolesAssumption DEF IInv, TypeOK, commitEdit, Edits, EditOK, WithDriver

\* The row a commit leaves behind is a good one.
LEMMA CommitRow ==
    ASSUME IInv, NEW r \in Requests, commitEdit(r), NEW o \in Orders
    PROVE  RowOK(o)'
<1> DEFINE e == edit[r]
<1>1. /\ e \in Edits
      /\ EditOK(e)
      /\ e.order \in Orders
      /\ RowOK(e.order)
      /\ RowOK(o)
  BY CommitFacts DEF IInv
<1>2. TypeOK
  BY DEF IInv
<1>3. CASE o # e.order \/ row[o] # "placed"
  <2>1. /\ status'[o] = status[o]
        /\ driver'[o] = driver[o]
        /\ seen'[o] = seen[o]
        /\ o \in stripped' <=> o \in stripped
    BY <1>1, <1>2, <1>3 DEF commitEdit, TypeOK
  <2>. QED  BY <2>1, <1>1 DEF commitEdit, RowOK
<1>4. CASE o = e.order /\ row[o] = "placed"
  <2>1. /\ status'[o] = IF e.target # e.snapStatus THEN e.target ELSE status[o]
        /\ driver'[o] = IF WritesDriver(e) THEN EntityDriver(e) ELSE driver[o]
        /\ seen'[o] = seen[o] \cup {status'[o]}
        /\ row'[o] = row[o] /\ told'[o] = told[o] /\ notice'[o] = notice[o]
    BY <1>1, <1>2, <1>4 DEF commitEdit, TypeOK, WritesStatus
  <2>2. e.target \in told[o]
    BY <1>1, <1>4 DEF EditOK, commitEdit
  <2>3. status'[o] # "Pending" /\ status'[o] \in told'[o]
    BY <1>1, <1>4, <2>1, <2>2 DEF EditOK, RowOK
  <2>4. o \in stripped' <=> \/ EntityDriver(e) = NoDriver /\ driver[o] # NoDriver
                            \/ o \in stripped /\ driver'[o] = NoDriver
    BY <1>1, <1>4, <2>1 DEF commitEdit, WritesDriver
  <2>5. (driver[o] # NoDriver \/ o \in stripped) => (driver'[o] # NoDriver \/ o \in stripped')
    BY <1>1, <1>4, <2>1, <2>4 DEF RowOK
  <2>6. status'[o] \in WithDriver => driver'[o] # NoDriver \/ o \in stripped'
    <3>1. CASE e.target \in WithDriver
      BY <3>1, <1>1, <1>4, <2>1, <2>5, RolesAssumption
         DEF EditOK, WithDriver, WritesDriver, EntityDriver
    <3>2. CASE e.target \notin WithDriver
      BY <3>2, <1>1, <1>4, <2>1, <2>5 DEF RowOK
    <3>. QED  BY <3>1, <3>2
  <2>7. o \in stripped' => driver'[o] = NoDriver
    BY <1>1, <1>4, <2>1, <2>4 DEF WritesDriver, RowOK
  <2>8. driver'[o] # NoDriver => "PickedUp" \in seen'[o]
    BY <1>1, <1>4, <2>1 DEF EditOK, RowOK, WritesDriver, EntityDriver
  <2>9. "Delivered" \in seen'[o] => "PickedUp" \in seen'[o]
    <3>1. CASE "Delivered" \in seen[o] \/ status'[o] = status[o]
      BY <3>1, <1>1, <1>4, <2>1 DEF RowOK
    <3>2. CASE e.target = "Delivered"
      BY <3>2, <1>1, <1>4, <2>1, RolesAssumption DEF EditOK, WithDriver
    <3>. QED  BY <2>1, <3>1, <3>2
  <2>. QED  BY <1>4, <2>1, <2>3, <2>6, <2>7, <2>8, <2>9 DEF RowOK
<1>. QED  BY <1>3, <1>4

\* Every other step leaves status, driver and seen of a placed row alone.
LEMMA RowStep == IInv /\ [Next]_vars => \A o \in Orders : RowOK(o)'
<1> SUFFICES ASSUME IInv, [Next]_vars, NEW p \in Orders PROVE RowOK(p)'
    OBVIOUS
<1>0. TypeOK /\ RowOK(p)
  BY DEF IInv
<1>1. ASSUME NEW o \in Orders, OrderStep(o) PROVE RowOK(p)'
  <2>1. CASE createOrder(o)  BY <2>1, <1>0 DEF createOrder, TypeOK, RowOK
  <2>2. CASE commitOrder(o)
    <3>0. RowOK(o)
      BY DEF IInv
    <3>. QED  BY <2>2, <3>0, <1>0 DEF commitOrder, TypeOK, RowOK, WithDriver
  <2>3. CASE abortOrder(o)   BY <2>3, <1>0 DEF abortOrder, TypeOK, RowOK
  <2>4. CASE sendNotice(o)   BY <2>4, <1>0 DEF sendNotice, TypeOK, RowOK
  <2>5. CASE loseNotice(o)   BY <2>5, <1>0 DEF loseNotice, TypeOK, RowOK
  <2>6. CASE turnStale(o)    BY <2>6, <1>0 DEF turnStale, TypeOK, RowOK
  <2>. QED  BY <1>1, <2>1, <2>2, <2>3, <2>4, <2>5, <2>6 DEF OrderStep
<1>2. ASSUME NEW r \in Requests, EditStep(r) PROVE RowOK(p)'
  <2>1. ASSUME NEW u \in Users, NEW o \in Orders, NEW t \in OrderStatus, openEdit(r, u, o, t)
        PROVE RowOK(p)'
    BY <2>1, <1>0 DEF openEdit, RowOK
  <2>2. CASE saveEdit(r)
    <3>1. told[p] \subseteq told'[p]
      BY <2>2, <1>0 DEF saveEdit, TypeOK
    <3>. QED  BY <2>2, <3>1, <1>0 DEF saveEdit, RowOK
  <2>3. CASE commitEdit(r)   BY <2>3, CommitRow
  <2>4. CASE abortEdit(r)    BY <2>4, <1>0 DEF abortEdit, RowOK
  <2>. QED  BY <1>2, <2>1, <2>2, <2>3, <2>4 DEF EditStep
<1>3. CASE CronStep
  BY <1>3, <1>0 DEF CronStep, startCron, scanRow, abortCron, RowOK
<1>4. ASSUME NEW referenced \in SUBSET Orders, deleteDue(referenced) PROVE RowOK(p)'
  BY <1>4, <1>0 DEF deleteDue, TypeOK, RowOK, Doomed
<1>5. CASE UNCHANGED vars
  BY <1>5, <1>0 DEF vars, RowOK
<1>. QED  BY <1>1, <1>2, <1>3, <1>4, <1>5 DEF Next

-----------------------------------------------------------------------------
(* The transactions in flight.                                             *)

\* A step that lets no row of the snapshot's order lose its marks keeps EditOK.
LEMMA EditOKStable ==
    ASSUME TypeOK, NEW e \in Edits, EditOK(e),
           row'[e.order] \in {"placed", "deleted"},
           seen[e.order] \subseteq seen'[e.order],
           told[e.order] \subseteq told'[e.order],
           status[e.order] # "Pending" => status'[e.order] # "Pending",
           driver[e.order] # NoDriver \/ e.order \in stripped =>
               driver'[e.order] # NoDriver \/ e.order \in stripped'
    PROVE  /\ row'[e.order] \in {"placed", "deleted"}
           /\ e.target # "Pending"
           /\ e.target \in WithDriver => e.user \in Drivers
           /\ e.target = "Delivered" => e.snapDriver = e.user
           /\ e.snapStatus \in seen'[e.order]
           /\ e.snapStatus # "Pending" => status'[e.order] # "Pending"
           /\ e.snapDriver # NoDriver => "PickedUp" \in seen'[e.order]
           /\ e.snapDriver # NoDriver => driver'[e.order] # NoDriver \/ e.order \in stripped'
           /\ e.phase = "saved" => e.target \in told'[e.order]
  BY DEF EditOK

\* What every step does to the row of an order an edit in flight refers to.
LEMMA RowsOnlyGrow ==
    ASSUME IInv, [Next]_vars, NEW p \in Orders, row[p] \in {"placed", "deleted"}
    PROVE  /\ row'[p] \in {"placed", "deleted"}
           /\ seen[p] \subseteq seen'[p]
           /\ told[p] \subseteq told'[p]
           /\ status[p] # "Pending" => status'[p] # "Pending"
           /\ driver[p] # NoDriver \/ p \in stripped => driver'[p] # NoDriver \/ p \in stripped'
<1>0. TypeOK
  BY DEF IInv
<1> USE <1>0 DEF TypeOK
<1>1. ASSUME NEW o \in Orders, OrderStep(o)
      PROVE  /\ row'[p] \in {"placed", "deleted"}
             /\ UNCHANGED <<status, driver, told, stripped>>
             /\ seen'[p] = seen[p]
  BY <1>1 DEF OrderStep, createOrder, commitOrder, abortOrder, sendNotice, loseNotice, turnStale
<1>2. ASSUME NEW r \in Requests, EditStep(r), ~commitEdit(r)
      PROVE  /\ UNCHANGED <<row, status, driver, seen, stripped>>
             /\ told[p] \subseteq told'[p]
  BY <1>2 DEF EditStep, openEdit, saveEdit, abortEdit
<1>3. ASSUME NEW r \in Requests, commitEdit(r)
      PROVE  /\ UNCHANGED <<row, told>>
             /\ seen[p] \subseteq seen'[p]
             /\ status[p] # "Pending" => status'[p] # "Pending"
             /\ driver[p] # NoDriver \/ p \in stripped => driver'[p] # NoDriver \/ p \in stripped'
  <2> DEFINE e == edit[r]
  <2>1. /\ e \in Edits
        /\ e.order \in Orders
        /\ EditOK(e)
    BY <1>3, CommitFacts
  <2>2. UNCHANGED <<row, told>>
    BY <1>3 DEF commitEdit
  <2>3. CASE p # e.order \/ row[p] # "placed"
    BY <1>3, <2>1, <2>2, <2>3 DEF commitEdit
  <2>4. CASE p = e.order /\ row[p] = "placed"
    <3>1. /\ status'[p] = e.target \/ status'[p] = status[p]
          /\ driver'[p] # NoDriver => driver'[p] = EntityDriver(e) \/ driver'[p] = driver[p]
          /\ seen[p] \subseteq seen'[p]
      BY <1>3, <2>1, <2>4 DEF commitEdit, WritesStatus
    <3>2. driver[p] # NoDriver \/ p \in stripped => driver'[p] # NoDriver \/ p \in stripped'
      BY <1>3, <2>1, <2>4 DEF commitEdit, WritesDriver
    <3>. QED  BY <2>1, <2>2, <3>1, <3>2 DEF EditOK
  <2>. QED  BY <2>3, <2>4
<1>4. ASSUME CronStep \/ \E referenced \in SUBSET Orders : deleteDue(referenced)
      PROVE  /\ row'[p] \in {"placed", "deleted"}
             /\ UNCHANGED <<status, driver, seen, told, stripped>>
  BY <1>4 DEF CronStep, startCron, scanRow, abortCron, deleteDue
<1>5. CASE UNCHANGED vars
  BY <1>5 DEF vars
<1>. QED  BY <1>1, <1>2, <1>3, <1>4, <1>5 DEF Next

\* A slot keeps its edit, saves it, clears it, or opens one on a placed row.
LEMMA SlotStep ==
    ASSUME IInv, [Next]_vars, NEW q \in Requests, edit'[q] # NoEdit
    PROVE  EditOK(edit[q])'
<1>0. TypeOK
  BY DEF IInv
<1>1. CASE edit'[q] = edit[q]
  <2>1. edit[q] \in Edits /\ EditOK(edit[q]) /\ edit[q].order \in Orders
    BY <1>0, <1>1 DEF IInv, TypeOK, Edits
  <2>2. row[edit[q].order] \in {"placed", "deleted"}
    BY <2>1 DEF EditOK
  <2>. QED  BY <1>0, <1>1, <2>1, <2>2, RowsOnlyGrow, EditOKStable DEF EditOK
<1>2. ASSUME NEW u \in Users, NEW o \in Orders, NEW t \in OrderStatus, openEdit(q, u, o, t)
      PROVE  EditOK(edit[q])'
  <2>1. edit'[q] = [phase |-> "read", order |-> o, user |-> u, target |-> t,
                    snapStatus |-> status[o], snapDriver |-> driver[o]]
    BY <1>0, <1>2 DEF openEdit, TypeOK
  <2>2. RowOK(o) /\ row[o] = "placed"
    BY <1>2 DEF IInv, openEdit
  <2>3. UNCHANGED <<row, status, driver, told, seen, stripped>>
    BY <1>2 DEF openEdit
  <2>4. /\ t # "Pending"
        /\ t \in WithDriver => u \in Drivers
        /\ t = "Delivered" => driver[o] = u
    BY <1>2 DEF openEdit, MayEdit, WithDriver
  <2>. QED  BY <2>1, <2>2, <2>3, <2>4 DEF EditOK, RowOK, WithDriver
<1>3. CASE saveEdit(q)
  <2>1. /\ edit[q] \in Edits
        /\ EditOK(edit[q])
        /\ edit[q].order \in Orders
    BY <1>0, <1>3 DEF IInv, saveEdit, TypeOK, Edits
  <2>2. /\ edit'[q] = [edit[q] EXCEPT !.phase = "saved"]
        /\ told'[edit[q].order] = told[edit[q].order] \cup {edit[q].target}
        /\ UNCHANGED <<row, status, driver, seen, stripped>>
    BY <1>0, <1>3, <2>1 DEF saveEdit, TypeOK
  <2>. QED  BY <2>1, <2>2 DEF EditOK, Edits
<1>4. CASE commitEdit(q) \/ abortEdit(q)
  BY <1>0, <1>4 DEF commitEdit, abortEdit, TypeOK
<1>5. CASE /\ edit'[q] # edit[q]
           /\ \A u \in Users, o \in Orders, t \in OrderStatus : ~openEdit(q, u, o, t)
           /\ ~saveEdit(q) /\ ~commitEdit(q) /\ ~abortEdit(q)
  <2>1. \A o \in Orders : ~OrderStep(o)
    BY <1>5 DEF OrderStep, createOrder, commitOrder, abortOrder, sendNotice, loseNotice, turnStale
  <2>2. \A r \in Requests : ~EditStep(r)
    <3> SUFFICES ASSUME NEW r \in Requests, EditStep(r) PROVE r = q \/ edit'[q] = edit[q]
        BY <1>5 DEF EditStep
    <3>. QED  BY <1>0 DEF EditStep, openEdit, saveEdit, commitEdit, abortEdit, TypeOK
  <2>3. ~CronStep /\ \A referenced \in SUBSET Orders : ~deleteDue(referenced)
    BY <1>5 DEF CronStep, startCron, scanRow, abortCron, deleteDue
  <2>. QED  BY <1>5, <2>1, <2>2, <2>3 DEF Next, vars
<1>. QED  BY <1>1, <1>2, <1>3, <1>4, <1>5

-----------------------------------------------------------------------------
(* The theorems.                                                           *)

\* The empty table satisfies the invariant.
LEMMA InitIsGood == Init => IInv
  BY RolesAssumption DEF Init, IInv, TypeOK, RowOK, OrderStatus, WithDriver

\* The inductive invariant holds of every behaviour of createOrder,
\* editOrderStatus and handleCron.
THEOREM InductiveInvariant == Spec => []IInv
<1>1. Init => IInv
  BY InitIsGood
<1>2. IInv /\ [Next]_vars => IInv'
  <2> SUFFICES ASSUME IInv, [Next]_vars PROVE IInv'
      OBVIOUS
  <2>1. TypeOK'
    BY TypeStep
  <2>2. \A o \in Orders : RowOK(o)'
    BY RowStep
  <2>3. \A r \in Requests : edit'[r] # NoEdit => EditOK(edit[r])'
    BY SlotStep
  <2>. QED  BY <2>1, <2>2, <2>3 DEF IInv
<1>. QED  BY <1>1, <1>2, PTL DEF Spec

\* Every variable keeps its type; in particular only drivers end up in driver_id.
THEOREM TypeCorrect == Spec => []TypeOK
<1>1. IInv => TypeOK
  BY DEF IInv
<1>. QED  BY <1>1, InductiveInvariant, PTL

\* getOrders puts an order on the road on the list of exactly one driver, whom
\* getOrderById lets open it; on nobody's after the one race that takes the driver
\* off: an editOrderStatus that read no driver commits after a pick-up.
THEOREM RoadIsListedToOneDriver == Spec => []RoadListedToOneDriver
<1>1. IInv => RoadListedToOneDriver
  <2> SUFFICES ASSUME IInv, NEW o \in Orders, row[o] = "placed", status[o] = "PickedUp"
               PROVE  IF o \in stripped
                      THEN \A u \in Drivers : o \notin Listed(u)
                      ELSE \E d \in Drivers : /\ {u \in Drivers : o \in Listed(u)} = {d}
                                              /\ MayOpen(d, o)
      BY DEF RoadListedToOneDriver
  <2>1. \A u \in Drivers : u # CustomerOf[o] /\ u # OwnerOf[o]
    BY RolesAssumption, PartiesAssumption
  <2>2. \A u \in Drivers : o \in Listed(u) <=> driver[o] = u
    BY <2>1 DEF Listed
  <2>3. CASE o \in stripped
    BY <2>2, <2>3, RolesAssumption DEF IInv, RowOK
  <2>4. CASE o \notin stripped
    <3>1. driver[o] \in Drivers
      BY <2>4 DEF IInv, TypeOK, RowOK, WithDriver
    <3>2. {u \in Drivers : o \in Listed(u)} = {driver[o]}
      BY <2>2, <3>1
    <3>3. MayOpen(driver[o], o)
      BY <3>1 DEF MayOpen
    <3>. QED  BY <2>4, <3>1, <3>2, <3>3
  <2>. QED  BY <2>3, <2>4
<1>. QED  BY <1>1, InductiveInvariant, PTL

\* No committed status is silent: orderUpdate went to the order's room first.
THEOREM StatusIsTold == Spec => []StatusWasTold
<1>1. IInv => StatusWasTold
  BY DEF IInv, RowOK, StatusWasTold
<1>. QED  BY <1>1, InductiveInvariant, PTL

\* editOrderStatus delivers only orders that a driver has picked up before.
THEOREM DeliveredIsPickedUp == Spec => []DeliveredWasPickedUp
<1>1. IInv => DeliveredWasPickedUp
  BY DEF IInv, RowOK, DeliveredWasPickedUp
<1>. QED  BY <1>1, InductiveInvariant, PTL

\* The commit hook of createOrder announces committed orders only.
THEOREM AnnouncedIsPlaced == Spec => []AnnouncedWasPlaced
<1>1. IInv => AnnouncedWasPlaced
  BY DEF IInv, TypeOK, RowOK, AnnouncedWasPlaced
<1>. QED  BY <1>1, InductiveInvariant, PTL

-----------------------------------------------------------------------------
(* Refinement: the committed rows obey OrderRecord.                        *)

\* The refinement mapping of row: an uncommitted insert is not there yet.
Visible == [o \in Orders |-> IF row[o] = "inserted" THEN "unplaced" ELSE row[o]]

\* What OrderRecord sees of a state.
Columns == <<Visible, status, driver, Taken, Undriven>>

\* The orders with an edit under way that found no driver, at an edit's end:
\* its own order may drop out, no other.
LEMMA UndrivenShrinks ==
    ASSUME IInv, NEW r \in Requests, edit[r] # NoEdit, edit' = [edit EXCEPT ![r] = NoEdit]
    PROVE  /\ edit[r].order \in Orders
           /\ Undriven' \in {Undriven, Undriven \ {edit[r].order}}
<1>1. TypeOK /\ edit[r] \in Edits
  BY DEF IInv, TypeOK
<1>2. edit[r].order \in Orders
  BY <1>1 DEF Edits
<1>3. \A q \in Requests : edit'[q] = IF q = r THEN NoEdit ELSE edit[q]
  BY <1>1 DEF TypeOK
<1>4. \A o \in Orders : o # edit[r].order => (o \in Undriven' <=> o \in Undriven)
  BY <1>3 DEF Undriven
<1>5. Undriven' \subseteq Undriven
  BY <1>3 DEF Undriven
<1>6. Undriven \subseteq Orders
  BY DEF Undriven
<1>. QED  BY <1>2, <1>4, <1>5, <1>6

\* What the commit of editOrderStatus leaves in a row that is still there: a status
\* and a driver that the checks, or the row as it was, vouch for.
LEMMA CommitEffect ==
    ASSUME IInv, NEW r \in Requests, commitEdit(r), row[edit[r].order] = "placed"
    PROVE  \E s \in OrderStatus, d \in Drivers \cup {NoDriver} :
              /\ status' = [status EXCEPT ![edit[r].order] = s]
              /\ driver' = [driver EXCEPT ![edit[r].order] = d]
              /\ seen' = [seen EXCEPT ![edit[r].order] = @ \cup {s}]
              /\ s # "Pending"
              /\ "PickedUp" \notin seen[edit[r].order] => Record!FirstHand(s, d)
              /\ d = NoDriver /\ driver[edit[r].order] # NoDriver => edit[r].order \in Undriven
<1> DEFINE e == edit[r]
           o == e.order
           s == IF WritesStatus(e) THEN e.target ELSE status[o]
           d == IF WritesDriver(e) THEN EntityDriver(e) ELSE driver[o]
<1>1. /\ e \in Edits
      /\ EditOK(e)
      /\ o \in Orders
      /\ RowOK(o)
      /\ e.target = "PickedUp" => e.user # NoDriver
  BY CommitFacts
<1>2. TypeOK
  BY DEF IInv
<1>3. /\ status' = [status EXCEPT ![o] = s]
      /\ driver' = [driver EXCEPT ![o] = d]
      /\ seen' = [seen EXCEPT ![o] = @ \cup {status'[o]}]
  BY DEF commitEdit
<1>4. status'[o] = s
  BY <1>1, <1>2, <1>3 DEF TypeOK
<1>5. /\ s \in OrderStatus
      /\ d \in Drivers \cup {NoDriver}
  BY <1>1, <1>2 DEF TypeOK, Edits, EditOK, WithDriver, EntityDriver
<1>6. s # "Pending"
  BY <1>1 DEF EditOK, WritesStatus
<1>7. ASSUME "PickedUp" \notin seen[o] PROVE Record!FirstHand(s, d)
  <2>1. e.snapDriver = NoDriver /\ driver[o] = NoDriver /\ e.target # "Delivered"
    BY <1>1, <1>7, RolesAssumption DEF EditOK, RowOK, WithDriver
  <2>2. status[o] \notin {"PickedUp", "Delivered"} /\ e.snapStatus # "PickedUp"
    BY <1>1, <1>7 DEF EditOK, RowOK, commitEdit
  <2>3. e.target \in {"Cooking", "Cooked", "PickedUp"}
    BY <1>1, <2>1 DEF Edits, OrderStatus, EditOK
  <2>4. CASE e.target = "PickedUp"
    BY <1>1, <2>1, <2>2, <2>4 DEF WritesStatus, WritesDriver, EntityDriver, Record!FirstHand
  <2>5. CASE e.target # "PickedUp"
    <3>1. d = NoDriver
      BY <2>1, <2>5 DEF WritesDriver, EntityDriver
    <3>2. s \in {"Cooking", "Cooked"}
      BY <1>2, <1>1, <1>5, <1>6, <2>2, <2>3, <2>5 DEF OrderStatus
    <3>. QED  BY <3>1, <3>2 DEF Record!FirstHand
  <2>. QED  BY <2>4, <2>5
<1>8. ASSUME d = NoDriver, driver[o] # NoDriver PROVE o \in Undriven
  BY <1>1, <1>8 DEF Undriven, WritesDriver, commitEdit
<1> HIDE DEF s, d
<1>. QED  BY <1>3, <1>4, <1>5, <1>6, <1>7, <1>8

\* A commit of editOrderStatus is an Edit of the record, or at most an End when
\* the order has been deleted.
LEMMA CommitRefines ==
    ASSUME IInv, NEW r \in Requests, commitEdit(r)
    PROVE  Record!Next \/ UNCHANGED Columns
<1>1. /\ edit[r].order \in Orders
      /\ Undriven' \in {Undriven, Undriven \ {edit[r].order}}
  BY UndrivenShrinks DEF commitEdit
<1>2. Visible' = Visible /\ row' = row
  BY DEF commitEdit, Visible
<1>3. CASE row[edit[r].order] # "placed"
  <2>1. UNCHANGED <<Visible, status, driver, Taken>>
    BY <1>2, <1>3 DEF commitEdit, Taken
  <2>2. UNCHANGED Columns \/ Record!End(edit[r].order)
    BY <1>1, <2>1 DEF Columns, Record!End, Visible
  <2>. QED  BY <1>1, <2>2 DEF Record!Next
<1>4. CASE row[edit[r].order] = "placed"
  <2>1. PICK o \in Orders : o = edit[r].order
    BY <1>1
  <2>2. PICK s \in OrderStatus, d \in Drivers \cup {NoDriver} :
            /\ status' = [status EXCEPT ![o] = s]
            /\ driver' = [driver EXCEPT ![o] = d]
            /\ seen' = [seen EXCEPT ![o] = @ \cup {s}]
            /\ s # "Pending"
            /\ "PickedUp" \notin seen[o] => Record!FirstHand(s, d)
            /\ d = NoDriver /\ driver[o] # NoDriver => o \in Undriven
    BY <1>4, <2>1, CommitEffect
  <2>3. Visible[o] = "placed"
    BY <1>4, <2>1 DEF Visible
  <2>4. Taken' = IF s = "PickedUp" THEN Taken \cup {o} ELSE Taken
    BY <2>2 DEF Taken, IInv, TypeOK
  <2>5. Record!Edit(o, s, d)
    BY <1>1, <1>2, <2>1, <2>2, <2>3, <2>4 DEF Record!Edit, Visible, Taken
  <2>. QED  BY <2>5 DEF Record!Next, Record!OrderStatus, OrderStatus
<1>. QED  BY <1>3, <1>4

\* An edit that opens on a placed row without a driver is a Begin of the record,
\* one that rolls back an End, and one that saves leaves the record alone.
LEMMA EditRefines ==
    ASSUME IInv, NEW r \in Requests, EditStep(r), ~commitEdit(r)
    PROVE  \/ UNCHANGED Columns
           \/ \E o \in Orders : Record!Begin(o) \/ Record!End(o)
<1>0. TypeOK
  BY DEF IInv
<1>1. UNCHANGED <<Visible, status, driver, Taken>>
  BY DEF EditStep, openEdit, saveEdit, abortEdit, Visible, Taken
<1>2. ASSUME NEW u \in Users, NEW o \in Orders, NEW t \in OrderStatus, openEdit(r, u, o, t)
      PROVE  UNCHANGED Columns \/ Record!Begin(o)
  <2>1. \A q \in Requests :
            edit'[q] = IF q = r THEN [phase |-> "read", order |-> o, user |-> u, target |-> t,
                                      snapStatus |-> status[o], snapDriver |-> driver[o]]
                       ELSE edit[q]
    BY <1>0, <1>2 DEF openEdit, TypeOK
  <2>2. /\ edit[r] = NoEdit
        /\ edit'[r] # NoEdit
        /\ edit'[r].order = o
        /\ EntityDriver(edit'[r]) = IF t = "PickedUp" THEN u ELSE driver[o]
    BY <1>2, <2>1 DEF openEdit, NoEdit, EntityDriver
  <2>3. t = "PickedUp" => u # NoDriver
    BY <1>2, RolesAssumption DEF openEdit, MayEdit
  <2>4. \A p \in Orders : p # o => (p \in Undriven' <=> p \in Undriven)
    BY <2>1, <2>2 DEF Undriven, EntityDriver
  <2>5. Undriven \subseteq Undriven'
    BY <2>1, <2>2 DEF Undriven, EntityDriver
  <2>6. Undriven' # Undriven => o \in Undriven' /\ o \notin Undriven
    BY <2>4, <2>5 DEF Undriven
  <2>7. o \in Undriven' => o \in Undriven \/ driver[o] = NoDriver
    BY <2>1, <2>2, <2>3 DEF Undriven, EntityDriver
  <2>8. Undriven' # Undriven => driver[o] = NoDriver /\ Undriven' = Undriven \cup {o}
    <3>1. Undriven' \subseteq Orders
      BY DEF Undriven
    <3>. QED  BY <2>4, <2>5, <2>6, <2>7, <3>1
  <2>9. Visible[o] = "placed"
    BY <1>2 DEF openEdit, Visible
  <2>. QED  BY <1>1, <2>8, <2>9 DEF Columns, Record!Begin, Visible, Taken
<1>3. CASE saveEdit(r)
  <2>1. \A q \in Requests : /\ edit'[q] # NoEdit <=> edit[q] # NoEdit
                            /\ edit[q] # NoEdit => /\ edit'[q].order = edit[q].order
                                                   /\ EntityDriver(edit'[q]) = EntityDriver(edit[q])
    <3>1. edit[r] \in Edits /\ edit' = [edit EXCEPT ![r] = [edit[r] EXCEPT !.phase = "saved"]]
      BY <1>0, <1>3 DEF saveEdit, TypeOK
    <3>. QED  BY <1>0, <1>3, <3>1 DEF TypeOK, Edits, NoEdit, EntityDriver, saveEdit
  <2>2. Undriven' = Undriven
    BY <2>1 DEF Undriven, EntityDriver
  <2>. QED  BY <1>1, <2>2 DEF Columns
<1>4. CASE abortEdit(r)
  <2>1. /\ edit[r].order \in Orders
        /\ Undriven' \in {Undriven, Undriven \ {edit[r].order}}
    BY <1>4, UndrivenShrinks DEF abortEdit
  <2>2. UNCHANGED Columns \/ Record!End(edit[r].order)
    BY <1>1, <2>1 DEF Columns, Record!End, Visible, Taken
  <2>. QED  BY <2>1, <2>2
<1>. QED  BY <1>2, <1>3, <1>4 DEF EditStep

\* The one DELETE of handleCron is a Remove of the record, or fails.
LEMMA DeleteRefines ==
    ASSUME IInv, NEW referenced \in SUBSET Orders, deleteDue(referenced)
    PROVE  Record!Next \/ UNCHANGED Columns
<1>1. CASE UNCHANGED row
  BY <1>1 DEF deleteDue, Columns, Visible, Taken, Undriven
<1>2. CASE row' = [o \in Orders |-> IF o \in Doomed THEN "deleted" ELSE row[o]]
  <2>1. PICK gone \in SUBSET Orders : gone = Doomed
    BY DEF Doomed, deleteDue, IInv, TypeOK, Sweeps
  <2>2. \A o \in gone : Visible[o] = "placed" /\ status[o] = "Pending" /\ driver[o] = NoDriver
    BY <2>1 DEF Doomed, Visible, IInv, RowOK
  <2>3. Visible' = [o \in Orders |-> IF o \in gone THEN "deleted" ELSE Visible[o]]
    BY <1>2, <2>1 DEF Visible, Doomed
  <2>4. Record!Remove(gone)
    BY <2>2, <2>3 DEF Record!Remove, Record!Untouched, Visible, deleteDue, Taken, Undriven
  <2>. QED  BY <2>4 DEF Record!Next
<1>. QED  BY <1>1, <1>2 DEF deleteDue

\* OrderLifecycle implements OrderRecord: a deleted order never comes back,
\* Pending is never written again, handleCron removes untouched orders only, and
\* only an edit begun while the order had no driver takes its driver off.
THEOREM Refinement == Spec => ImplementsOrderRecord
<1>1. Init => Record!Init
  BY DEF Init, Record!Init, Taken, Undriven
<1>2. IInv /\ [Next]_vars => Record!Next \/ UNCHANGED Columns
  <2> SUFFICES ASSUME IInv, [Next]_vars
               PROVE  Record!Next \/ UNCHANGED Columns
      OBVIOUS
  <2>0. TypeOK
    BY DEF IInv
  <2>1. ASSUME NEW o \in Orders, commitOrder(o)
        PROVE  Record!Next
    <3>1. RowOK(o)
      BY DEF IInv
    <3>2. UNCHANGED <<Taken, Undriven>>
      BY <2>0, <2>1, <3>1 DEF commitOrder, TypeOK, RowOK, Taken, Undriven
    <3>3. Record!Place(o)
      BY <2>0, <2>1, <3>2 DEF commitOrder, TypeOK, Record!Place, Taken, Undriven
    <3>. QED  BY <3>3 DEF Record!Next
  <2>2. ASSUME NEW o \in Orders, OrderStep(o), ~commitOrder(o)
        PROVE  UNCHANGED Columns
    BY <2>0, <2>2 DEF OrderStep, createOrder, abortOrder, sendNotice, loseNotice, turnStale,
                      TypeOK, Columns, Visible, Taken, Undriven
  <2>3. ASSUME NEW r \in Requests, EditStep(r), ~commitEdit(r)
        PROVE  Record!Next \/ UNCHANGED Columns
    BY <2>3, EditRefines DEF Record!Next
  <2>4. CASE CronStep
    BY <2>4 DEF CronStep, startCron, scanRow, abortCron, Columns, Visible, Taken, Undriven
  <2>5. CASE UNCHANGED vars
    BY <2>5 DEF vars, Columns, Visible, Taken, Undriven
  <2>. QED  BY <2>1, <2>2, <2>3, <2>4, <2>5, CommitRefines, DeleteRefines DEF Next
<1>3. IInv /\ [Next]_vars => [Record!Next]_Record!vars
  BY <1>2 DEF Record!vars, Columns, Visible, Taken, Undriven
<1>. QED  BY <1>1, <1>3, InductiveInvariant, PTL DEF Spec, ImplementsOrderRecord, Record!Spec
=============================================================================
