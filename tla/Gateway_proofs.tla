--------------------------- MODULE Gateway_proofs ----------------------------
(***************************************************************************)
(* Proofs about Gateway for every set of sockets, orders, users and        *)
(* request slots.  The sockets only watch: every step is one of the orders *)
(* or leaves them alone, so what OrderLifecycle_proofs shows of the orders *)
(* holds here too.                                                         *)
(***************************************************************************)
EXTENDS Gateway, OrderLifecycle_proofs

-----------------------------------------------------------------------------
(* The orders are not disturbed                                            *)

LEMMA GatewayStep == [GatewayNext]_gatewayVars => [Next]_vars
<1> SUFFICES ASSUME [GatewayNext]_gatewayVars PROVE [Next]_vars
    OBVIOUS
<1>1. CASE Unheard
    BY <1>1, Zenon DEF Unheard, Next, OrderStep, EditStep
<1>2. ASSUME NEW o \in Orders, newPendingOrder(o) PROVE Next
    BY <1>2, Zenon DEF newPendingOrder, Next, OrderStep
<1>3. ASSUME NEW r \in Requests, orderUpdate(r) PROVE Next
    BY <1>3, Zenon DEF orderUpdate, Next, EditStep
<1>4. ASSUME NEW r \in Requests, rollBack(r) PROVE Next
    BY <1>4, Zenon DEF rollBack, Next, EditStep
<1>5. ASSUME NEW s \in Sockets, NEW u \in Owners, joinUserRoom(s, u) PROVE UNCHANGED vars
    BY <1>5, Zenon DEF joinUserRoom
<1>6. ASSUME NEW s \in Sockets, NEW o \in Orders,
             joinOrderRoom(s, o) \/ getOrderById(s, o) \/ sendAnswer(s, o)
      PROVE  UNCHANGED vars
    BY <1>6, Zenon DEF joinOrderRoom, getOrderById, sendAnswer
<1>7. ASSUME NEW s \in Sockets, handleDisconnect(s) \/ getOrders(s) PROVE UNCHANGED vars
    BY <1>7, Zenon DEF handleDisconnect, getOrders
<1>8. CASE UNCHANGED gatewayVars
    BY <1>8 DEF gatewayVars
<1>. QED  BY <1>1, <1>2, <1>3, <1>4, <1>5, <1>6, <1>7, <1>8, Zenon DEF GatewayNext

\* Whatever the sockets do, the orders live as OrderLifecycle says.
THEOREM SocketsOnlyWatch == GatewaySpec => Spec
<1>1. GatewayInit => Init
    BY DEF GatewayInit
<1>. QED  BY <1>1, GatewayStep, PTL DEF GatewaySpec, Spec

-----------------------------------------------------------------------------
(* Row locks                                                               *)

Holder(r, o) == edit[r] # NoEdit /\ HoldsRow(r, o)

\* One edit at a time holds the row of an order.
OneHolder ==
    \A q \in Requests, r \in Requests, o \in Orders :
        row[o] = "placed" /\ Holder(q, o) /\ Holder(r, o) => q = r

\* The hook of a committed order has been queued.
HookQueued == \A o \in Orders : row[o] = "placed" => notice[o] # "none"

LockInv == IInv /\ OneHolder /\ HookQueued

LEMMA InvariantStep == IInv /\ [Next]_vars => IInv'
<1>1. IInv /\ [Next]_vars => TypeOK'
    BY TypeStep
<1>2. IInv /\ [Next]_vars => \A o \in Orders : RowOK(o)'
    BY RowStep
<1>3. IInv /\ [Next]_vars => \A r \in Requests : (edit[r] # NoEdit => EditOK(edit[r]))'
    BY SlotStep
<1>. QED  BY <1>1, <1>2, <1>3 DEF IInv

\* What an edit of one slot leaves of the others.
LEMMA SlotOfEdit ==
    ASSUME TypeOK, NEW r \in Requests,
           \/ saveEdit(r)
           \/ commitEdit(r)
           \/ abortEdit(r)
           \/ \E u \in Users, o \in Orders, target \in OrderStatus : openEdit(r, u, o, target)
    PROVE  \A q \in Requests \ {r} : edit'[q] = edit[q]
<1>1. \E e : edit' = [edit EXCEPT ![r] = e]
    BY Zenon DEF saveEdit, commitEdit, abortEdit, openEdit
<1>. QED  BY <1>1 DEF TypeOK

\* A lock is taken by a save only.
LEMMA NewHolder ==
    ASSUME IInv, [Next]_vars, NEW r \in Requests, NEW o \in Orders,
           Holder(r, o)', ~Holder(r, o)
    PROVE  saveEdit(r) /\ o = edit[r].order /\ Writes(edit[r])
<1>0. TypeOK
    BY DEF IInv
<1>1. edit'[r] # edit[r]
    BY Zenon DEF Holder, HoldsRow, Writes, WritesStatus, WritesDriver, EntityDriver
<1>2. ASSUME NEW p \in Orders, OrderStep(p) PROVE edit' = edit
    BY <1>2 DEF OrderStep, createOrder, commitOrder, abortOrder, sendNotice, loseNotice, turnStale
<1>3. ASSUME CronStep \/ (\E s \in SUBSET Orders : deleteDue(s)) \/ UNCHANGED vars
      PROVE  edit' = edit
    BY <1>3 DEF CronStep, startCron, scanRow, abortCron, deleteDue, vars
<1>4. PICK q \in Requests : EditStep(q)
    BY <1>1, <1>2, <1>3 DEF Next
<1>5. q = r
    BY <1>0, <1>1, <1>4, SlotOfEdit DEF EditStep
<1>6. edit'[r] # NoEdit /\ edit'[r].phase = "saved"
    BY DEF Holder, HoldsRow
<1>7. ASSUME NEW u \in Users, NEW p \in Orders, NEW target \in OrderStatus,
             openEdit(r, u, p, target)
      PROVE  FALSE
    BY <1>0, <1>6, <1>7 DEF openEdit, TypeOK
<1>8. ~commitEdit(r) /\ ~abortEdit(r)
    BY <1>0, <1>6 DEF commitEdit, abortEdit, TypeOK
<1>9. saveEdit(r)
    BY <1>4, <1>5, <1>7, <1>8 DEF EditStep
<1>10. edit[r] \in Edits /\ edit'[r] = [edit[r] EXCEPT !.phase = "saved"]
    BY <1>0, <1>9 DEF saveEdit, TypeOK
<1>11. /\ edit'[r].order = edit[r].order
       /\ edit'[r].target = edit[r].target
       /\ edit'[r].user = edit[r].user
       /\ edit'[r].snapStatus = edit[r].snapStatus
       /\ edit'[r].snapDriver = edit[r].snapDriver
    BY <1>10 DEF Edits
<1>. QED  BY <1>9, <1>11 DEF Holder, HoldsRow, Writes, WritesStatus, WritesDriver, EntityDriver

LEMMA PlacedBefore ==
    ASSUME IInv, [Next]_vars, NEW o \in Orders, row'[o] = "placed"
    PROVE  row[o] = "placed" \/ commitOrder(o)
<1>0. TypeOK
    BY DEF IInv
<1>1. ASSUME NEW p \in Orders, OrderStep(p) PROVE row[o] = "placed" \/ commitOrder(o)
    BY <1>0, <1>1 DEF OrderStep, createOrder, commitOrder, abortOrder, sendNotice, loseNotice,
                      turnStale, TypeOK
<1>2. ASSUME NEW r \in Requests, EditStep(r) PROVE row[o] = "placed"
    BY <1>2 DEF EditStep, openEdit, saveEdit, commitEdit, abortEdit
<1>3. ASSUME NEW s \in SUBSET Orders, deleteDue(s) PROVE row[o] = "placed"
    BY <1>0, <1>3 DEF deleteDue, TypeOK
<1>4. ASSUME CronStep \/ UNCHANGED vars PROVE row[o] = "placed"
    BY <1>4 DEF CronStep, startCron, scanRow, abortCron, vars
<1>. QED  BY <1>1, <1>2, <1>3, <1>4 DEF Next

LEMMA LocksKept == LockInv /\ [Next]_vars => LockInv'
<1> SUFFICES ASSUME LockInv, [Next]_vars PROVE LockInv'
    OBVIOUS
<1>0. IInv /\ IInv' /\ TypeOK
    BY InvariantStep DEF LockInv, IInv
<1>1. ASSUME NEW q \in Requests, NEW r \in Requests, NEW o \in Orders,
             row'[o] = "placed", Holder(q, o)', Holder(r, o)', q # r
      PROVE  FALSE
  <2>1. ASSUME NEW s \in Requests, Holder(s, o) PROVE row[o] \in {"placed", "deleted"}
      BY <1>0, <2>1 DEF IInv, EditOK, Holder, HoldsRow
  <2>2. ASSUME NEW s \in Requests, NEW t \in Requests, s # t,
               saveEdit(s), o = edit[s].order, Writes(edit[s]), Holder(t, o)'
        PROVE  FALSE
    <3>1. row[o] = "placed"
        BY <1>1, <2>2 DEF saveEdit
    <3>2. ~Locked(o)
        BY <2>2, <3>1 DEF saveEdit
    <3>3. edit'[t] = edit[t]
        BY <1>0, <2>2, SlotOfEdit
    <3>4. Holder(t, o)
        BY <2>2, <3>3, Zenon DEF Holder, HoldsRow, Writes, WritesStatus, WritesDriver, EntityDriver
    <3>. QED  BY <3>2, <3>4 DEF Locked, InUse, Holder
  <2>3. CASE Holder(q, o) /\ Holder(r, o)
    <3>1. ~commitOrder(o)
        BY <2>1, <2>3 DEF commitOrder
    <3>2. row[o] = "placed"
        BY <1>0, <1>1, <3>1, PlacedBefore
    <3>. QED  BY <1>1, <2>3, <3>2 DEF LockInv, OneHolder
  <2>4. CASE ~Holder(q, o)
      BY <1>0, <1>1, <2>2, <2>4, NewHolder
  <2>5. CASE ~Holder(r, o)
      BY <1>0, <1>1, <2>2, <2>5, NewHolder
  <2>. QED  BY <2>3, <2>4, <2>5
<1>2. OneHolder'
    BY <1>1, Zenon DEF OneHolder
<1>3. HookQueued'
  <2> SUFFICES ASSUME NEW o \in Orders, row'[o] = "placed" PROVE notice'[o] # "none"
      BY DEF HookQueued
  <2>1. CASE commitOrder(o)
      BY <1>0, <2>1 DEF commitOrder, TypeOK
  <2>2. CASE row[o] = "placed"
    <3>1. notice[o] # "none"
        BY <2>2 DEF LockInv, HookQueued
    <3>2. ASSUME NEW p \in Orders, OrderStep(p) PROVE notice'[o] # "none"
        BY <1>0, <3>1, <3>2 DEF OrderStep, createOrder, commitOrder, abortOrder, sendNotice,
                                loseNotice, turnStale, TypeOK
    <3>3. ASSUME NEW r \in Requests, EditStep(r) PROVE notice' = notice
        BY <3>3 DEF EditStep, openEdit, saveEdit, commitEdit, abortEdit
    <3>4. ASSUME CronStep \/ (\E s \in SUBSET Orders : deleteDue(s)) \/ UNCHANGED vars
          PROVE  notice' = notice
        BY <3>4 DEF CronStep, startCron, scanRow, abortCron, deleteDue, vars
    <3>. QED  BY <3>1, <3>2, <3>3, <3>4 DEF Next
  <2>. QED  BY <1>0, <2>1, <2>2, PlacedBefore
<1>. QED  BY <1>0, <1>2, <1>3 DEF LockInv

-----------------------------------------------------------------------------
(* The invariant of the sockets                                            *)

ListsOK ==
    /\ \A s \in listed : UserOf[s] \in Owners /\ s \in ownerRoom[UserOf[s]]
    /\ OwnerMissesNoOrder

\* What a firm page goes by: its answer, while one is on the way; the event of the
\* edit that holds the row; else the row.
PageOK(o, s) ==
    /\ row[o] \in {"placed", "deleted"}
    /\ row[o] = "placed" =>
        /\ s \in orderRoom[o]
        /\ answer[o][s] # NoAnswer => answer[o][s] = status[o] /\ ~InWindow(o)
        /\ answer[o][s] = NoAnswer =>
            /\ \A r \in Requests : TellsAhead(r, o) => shown[o][s] = edit[r].target
            /\ ~InWindow(o) => shown[o][s] = status[o]

PagesOK == \A o \in Orders : \A s \in firm[o] : PageOK(o, s)

GInv ==
    /\ LockInv
    /\ GatewayTypeOK
    /\ ListsOK
    /\ PagesOK

LEMMA GatewayInitOK == GatewayInit => GInv
<1> SUFFICES ASSUME GatewayInit PROVE GInv
    OBVIOUS
<1>1. Init
    BY DEF GatewayInit
<1>2. LockInv
  <2>1. IInv
      BY <1>1, InitIsGood
  <2>2. OneHolder /\ HookQueued
      BY <1>1 DEF Init, OneHolder, HookQueued
  <2>. QED  BY <2>1, <2>2 DEF LockInv
<1>3. GatewayTypeOK /\ ListsOK /\ PagesOK
    BY DEF GatewayInit, GatewayTypeOK, ListsOK, PagesOK, OwnerMissesNoOrder
<1>. QED  BY <1>2, <1>3 DEF GInv

LEMMA GatewayTypes ==
    ASSUME GInv, [GatewayNext]_gatewayVars
    PROVE  GatewayTypeOK'
<1>0. GatewayTypeOK /\ TypeOK
    BY DEF GInv, LockInv, IInv
<1> USE <1>0 DEF GatewayTypeOK
<1>1. ASSUME UNCHANGED <<ownerVars, pageVars>> PROVE GatewayTypeOK'
    BY <1>1 DEF ownerVars, pageVars
<1>2. ASSUME NEW o \in Orders, newPendingOrder(o) PROVE GatewayTypeOK'
    BY <1>2 DEF newPendingOrder, pageVars
<1>3. ASSUME NEW r \in Requests, orderUpdate(r) PROVE GatewayTypeOK'
  <2>1. edit[r] \in Edits
      BY <1>3 DEF orderUpdate, saveEdit, TypeOK
  <2>2. edit[r].order \in Orders /\ edit[r].target \in OrderStatus
      BY <2>1 DEF Edits
  <2>3. Tell(edit[r].order, edit[r].target) \in [Sockets -> OrderStatus \cup {NothingShown}]
      BY <2>2 DEF Tell
  <2>. QED  BY <1>3, <2>2, <2>3 DEF orderUpdate, ownerVars
<1>4. ASSUME NEW r \in Requests, rollBack(r) PROVE GatewayTypeOK'
    BY <1>4 DEF rollBack, ownerVars
<1>5. ASSUME NEW s \in Sockets, NEW u \in Owners, joinUserRoom(s, u) PROVE GatewayTypeOK'
    BY <1>5 DEF joinUserRoom, pageVars
<1>6. ASSUME NEW s \in Sockets, NEW o \in Orders, joinOrderRoom(s, o) PROVE GatewayTypeOK'
    BY <1>6 DEF joinOrderRoom, ownerVars
<1>7. ASSUME NEW s \in Sockets, handleDisconnect(s) PROVE GatewayTypeOK'
    BY <1>7 DEF handleDisconnect
<1>8. ASSUME NEW s \in Sockets, getOrders(s) PROVE GatewayTypeOK'
    BY <1>8 DEF getOrders, pageVars, Listed
<1>9. ASSUME NEW s \in Sockets, NEW o \in Orders, getOrderById(s, o) PROVE GatewayTypeOK'
  <2>1. status[o] \in OrderStatus
      BY DEF TypeOK
  <2>. QED  BY <1>9, <2>1 DEF getOrderById, ownerVars
<1>10. ASSUME NEW s \in Sockets, NEW o \in Orders, sendAnswer(s, o) PROVE GatewayTypeOK'
    BY <1>10 DEF sendAnswer, ownerVars
<1>. QED
  BY <1>1, <1>2, <1>3, <1>4, <1>5, <1>6, <1>7, <1>8, <1>9, <1>10 DEF GatewayNext, gatewayVars

\* The answers and events of the owners' lists.
LEMMA ListsKept ==
    ASSUME GInv, [GatewayNext]_gatewayVars, LockInv'
    PROVE  ListsOK'
<1>0. /\ GatewayTypeOK /\ TypeOK /\ IInv /\ [Next]_vars
      /\ \A s \in listed : UserOf[s] \in Owners /\ s \in ownerRoom[UserOf[s]]
      /\ \A s \in listed, o \in Orders : OwnerOf[o] = UserOf[s] /\ row[o] = "placed" =>
            o \in heard[s] \/ notice[o] \in {"queued", "lost"}
    BY GatewayStep DEF GInv, LockInv, IInv, ListsOK, OwnerMissesNoOrder
<1>1. SUFFICES
        /\ \A s \in listed' : UserOf[s] \in Owners /\ s \in ownerRoom'[UserOf[s]]
        /\ \A s \in listed', o \in Orders : OwnerOf[o] = UserOf[s] /\ row'[o] = "placed" =>
              o \in heard'[s] \/ notice'[o] \in {"queued", "lost"}
    BY Zenon DEF ListsOK, OwnerMissesNoOrder
<1>2. ASSUME UNCHANGED <<ownerRoom, heard, listed>>, NEW s \in listed, NEW o \in Orders,
             row'[o] = "placed", OwnerOf[o] = UserOf[s], ~(\E p \in Orders : sendNotice(p))
      PROVE  o \in heard[s] \/ notice'[o] \in {"queued", "lost"}
  <2>1. CASE commitOrder(o)
      BY <1>0, <2>1 DEF commitOrder, TypeOK
  <2>2. CASE row[o] = "placed"
    <3>1. o \in heard[s] \/ notice[o] \in {"queued", "lost"}
        BY <1>0, <1>2, <2>2
    <3>2. ASSUME NEW p \in Orders, OrderStep(p)
          PROVE  notice'[o] = notice[o] \/ notice'[o] \in {"queued", "lost"}
        BY <1>0, <1>2, <3>2 DEF OrderStep, createOrder, commitOrder, abortOrder,
                                loseNotice, turnStale, TypeOK
    <3>3. ASSUME NEW r \in Requests, EditStep(r) PROVE notice' = notice
        BY <3>3 DEF EditStep, openEdit, saveEdit, commitEdit, abortEdit
    <3>4. ASSUME CronStep \/ (\E t \in SUBSET Orders : deleteDue(t)) \/ UNCHANGED vars
          PROVE  notice' = notice
        BY <3>4 DEF CronStep, startCron, scanRow, abortCron, deleteDue, vars
    <3>. QED  BY <1>0, <3>1, <3>2, <3>3, <3>4 DEF Next
  <2>. QED  BY <1>0, <1>2, <2>1, <2>2, PlacedBefore
<1>3. ASSUME UNCHANGED <<ownerRoom, heard, listed>>, ~(\E p \in Orders : sendNotice(p))
      PROVE  /\ \A s \in listed' : UserOf[s] \in Owners /\ s \in ownerRoom'[UserOf[s]]
             /\ \A s \in listed', o \in Orders : OwnerOf[o] = UserOf[s] /\ row'[o] = "placed" =>
                    o \in heard'[s] \/ notice'[o] \in {"queued", "lost"}
    BY <1>0, <1>2, <1>3, Zenon
<1>4. ASSUME NEW o \in Orders, newPendingOrder(o)
      PROVE  /\ \A s \in listed' : UserOf[s] \in Owners /\ s \in ownerRoom'[UserOf[s]]
             /\ \A s \in listed', p \in Orders : OwnerOf[p] = UserOf[s] /\ row'[p] = "placed" =>
                    p \in heard'[s] \/ notice'[p] \in {"queued", "lost"}
  <2>1. /\ UNCHANGED <<ownerRoom, listed, row>>
        /\ heard' = [s \in Sockets |->
                        IF s \in ownerRoom[OwnerOf[o]] THEN heard[s] \cup {o} ELSE heard[s]]
        /\ \A p \in Orders : p # o => notice'[p] = notice[p]
      BY <1>0, <1>4 DEF newPendingOrder, sendNotice, TypeOK
  <2>2. \A s \in listed : s \in Sockets /\ heard[s] \subseteq heard'[s]
      BY <1>0, <2>1 DEF GatewayTypeOK
  <2>3. \A s \in listed : OwnerOf[o] = UserOf[s] => o \in heard'[s]
      BY <1>0, <2>1, <2>2
  <2>. QED  BY <1>0, <2>1, <2>2, <2>3
<1>5. ASSUME UNCHANGED vars
      PROVE  ~(\E p \in Orders : sendNotice(p))
    BY <1>0, <1>5 DEF vars, sendNotice, TypeOK
<1>6. ASSUME Unheard PROVE ~(\E p \in Orders : sendNotice(p))
  <2> SUFFICES ASSUME NEW p \in Orders, sendNotice(p) PROVE FALSE
      OBVIOUS
  <2>1. notice[p] = "queued" /\ notice'[p] = "sent" /\ UNCHANGED <<row, edit, sweep, stale, seen>>
      BY <1>0 DEF sendNotice, TypeOK
  <2>2. ASSUME NEW o \in Orders,
               createOrder(o) \/ commitOrder(o) \/ abortOrder(o) \/ loseNotice(o) \/ turnStale(o)
        PROVE  FALSE
      BY <1>0, <2>1, <2>2 DEF createOrder, commitOrder, abortOrder, loseNotice, turnStale, TypeOK
  <2>3. ASSUME NEW r \in Requests, NEW u \in Users, NEW o \in Orders, NEW target \in OrderStatus,
               openEdit(r, u, o, target)
        PROVE  FALSE
      BY <2>1, <2>3 DEF openEdit
  <2>4. ASSUME NEW r \in Requests, commitEdit(r) PROVE FALSE
      BY <2>1, <2>4 DEF commitEdit
  <2>5. ASSUME CronStep \/ \E t \in SUBSET Orders : deleteDue(t) PROVE FALSE
      BY <2>1, <2>5 DEF CronStep, startCron, scanRow, abortCron, deleteDue
  <2>. QED  BY <1>6, <2>2, <2>3, <2>4, <2>5, Zenon DEF Unheard
<1>7. ASSUME NEW r \in Requests, saveEdit(r) \/ abortEdit(r)
      PROVE  ~(\E p \in Orders : sendNotice(p))
    BY <1>0, <1>7 DEF saveEdit, abortEdit, sendNotice, TypeOK
<1>8. ASSUME UNCHANGED vars, NEW s \in Sockets, NEW u \in Owners, joinUserRoom(s, u)
      PROVE  /\ \A t \in listed' : UserOf[t] \in Owners /\ t \in ownerRoom'[UserOf[t]]
             /\ \A t \in listed', p \in Orders : OwnerOf[p] = UserOf[t] /\ row'[p] = "placed" =>
                    p \in heard'[t] \/ notice'[p] \in {"queued", "lost"}
  <2>1. UNCHANGED <<listed, heard, row, notice>> /\ \A w \in Owners : ownerRoom[w] \subseteq ownerRoom'[w]
      BY <1>0, <1>8 DEF joinUserRoom, vars, GatewayTypeOK
  <2>. QED  BY <1>0, <2>1
<1>9. ASSUME UNCHANGED vars, NEW s \in Sockets, handleDisconnect(s)
      PROVE  /\ \A t \in listed' : UserOf[t] \in Owners /\ t \in ownerRoom'[UserOf[t]]
             /\ \A t \in listed', p \in Orders : OwnerOf[p] = UserOf[t] /\ row'[p] = "placed" =>
                    p \in heard'[t] \/ notice'[p] \in {"queued", "lost"}
  <2>1. /\ UNCHANGED <<row, notice>>
        /\ listed' = listed \ {s}
        /\ ownerRoom' = [w \in Owners |-> ownerRoom[w] \ {s}]
        /\ \A t \in Sockets \ {s} : heard'[t] = heard[t]
      BY <1>0, <1>9 DEF handleDisconnect, vars, GatewayTypeOK
  <2>2. listed \subseteq Sockets
      BY <1>0 DEF GatewayTypeOK
  <2>. QED  BY <1>0, <2>1, <2>2
<1>10. ASSUME UNCHANGED vars, NEW s \in Sockets, getOrders(s)
      PROVE  /\ \A t \in listed' : UserOf[t] \in Owners /\ t \in ownerRoom'[UserOf[t]]
             /\ \A t \in listed', p \in Orders : OwnerOf[p] = UserOf[t] /\ row'[p] = "placed" =>
                    p \in heard'[t] \/ notice'[p] \in {"queued", "lost"}
  <2>1. /\ UNCHANGED <<row, notice, ownerRoom>>
        /\ UserOf[s] \in Owners
        /\ heard'[s] = heard[s] \cup Listed(UserOf[s])
        /\ \A t \in Sockets \ {s} : heard'[t] = heard[t]
        /\ listed' = IF s \in ownerRoom[UserOf[s]] THEN listed \cup {s} ELSE listed
      BY <1>0, <1>10 DEF getOrders, vars, GatewayTypeOK
  <2>2. \A p \in Orders : OwnerOf[p] = UserOf[s] /\ row[p] = "placed" => p \in Listed(UserOf[s])
      BY DEF Listed
  <2>3. listed \subseteq Sockets
      BY <1>0 DEF GatewayTypeOK
  <2>4. \A t \in listed' : UserOf[t] \in Owners /\ t \in ownerRoom[UserOf[t]]
      BY <1>0, <2>1
  <2>5. ASSUME NEW t \in listed', NEW p \in Orders, OwnerOf[p] = UserOf[t], row[p] = "placed"
        PROVE  p \in heard'[t] \/ notice[p] \in {"queued", "lost"}
    <3>1. CASE t = s
        BY <2>1, <2>2, <2>5, <3>1
    <3>2. CASE t # s
      <4>1. t \in listed /\ heard'[t] = heard[t]
          BY <2>1, <2>3, <3>2
      <4>. QED  BY <1>0, <2>5, <4>1
    <3>. QED  BY <3>1, <3>2
  <2>. QED  BY <2>1, <2>4, <2>5
<1>11. CASE Unheard /\ UNCHANGED <<ownerVars, pageVars>>
    BY <1>3, <1>6, <1>11 DEF ownerVars
<1>12. CASE \E r \in Requests : orderUpdate(r) \/ rollBack(r)
    BY <1>3, <1>7, <1>12 DEF ownerVars, orderUpdate, rollBack
<1>13. CASE \E s \in Sockets, o \in Orders :
                joinOrderRoom(s, o) \/ getOrderById(s, o) \/ sendAnswer(s, o)
    BY <1>3, <1>5, <1>13 DEF ownerVars, joinOrderRoom, getOrderById, sendAnswer
<1>14. CASE UNCHANGED gatewayVars
    BY <1>3, <1>5, <1>14 DEF gatewayVars, ownerVars
<1>15. CASE \E s \in Sockets, u \in Owners : joinUserRoom(s, u)
    BY <1>8, <1>15, Zenon DEF joinUserRoom
<1>16. CASE \E s \in Sockets : handleDisconnect(s)
    BY <1>9, <1>16, Zenon DEF handleDisconnect
<1>17. CASE \E s \in Sockets : getOrders(s)
    BY <1>10, <1>17, Zenon DEF getOrders
<1>. QED
  BY <1>4, <1>11, <1>12, <1>13, <1>14, <1>15, <1>16, <1>17, Zenon DEF GatewayNext

-----------------------------------------------------------------------------
(* The pages of the orders                                                 *)

\* A page keeps its promise as long as the row, the edits and the page do.
LEMMA PageFrame ==
    ASSUME NEW o \in Orders, NEW s \in Sockets, PageOK(o, s),
           row'[o] = row[o] \/ row'[o] = "deleted",
           status'[o] = status[o],
           \A r \in Requests : TellsAhead(r, o)' <=> TellsAhead(r, o),
           \A r \in Requests : TellsAhead(r, o) => edit'[r].target = edit[r].target,
           s \in orderRoom[o] => s \in orderRoom'[o],
           answer'[o][s] = answer[o][s],
           shown'[o][s] = shown[o][s]
    PROVE  PageOK(o, s)'
<1>1. InWindow(o)' <=> InWindow(o)
    BY Zenon DEF InWindow
<1>. QED  BY <1>1 DEF PageOK

\* A slot whose edit stays what it was tells what it told.
LEMMA SameEdit ==
    ASSUME NEW r \in Requests, edit'[r] = edit[r], NEW o
    PROVE  /\ TellsAhead(r, o)' <=> TellsAhead(r, o)
           /\ edit'[r].target = edit[r].target
BY Zenon DEF TellsAhead, HoldsRow, Writes, WritesStatus, WritesDriver

\* The steps of the orders that leave edits and statuses alone.
LEMMA PagesInStillRows ==
    ASSUME GInv, UNCHANGED <<edit, status, pageVars>>,
           \A o \in Orders : row[o] \in {"placed", "deleted"} =>
                row'[o] = row[o] \/ row'[o] = "deleted"
    PROVE  PagesOK'
<1> SUFFICES ASSUME NEW o \in Orders, NEW s \in firm[o] PROVE PageOK(o, s)'
    BY DEF PagesOK, pageVars
<1>1. PageOK(o, s) /\ s \in Sockets
    BY DEF GInv, PagesOK, GatewayTypeOK
<1>2. row'[o] = row[o] \/ row'[o] = "deleted"
    BY <1>1 DEF PageOK
<1>3. \A r \in Requests : /\ TellsAhead(r, o)' <=> TellsAhead(r, o)
                          /\ TellsAhead(r, o) => edit'[r].target = edit[r].target
    BY SameEdit
<1>. QED  BY <1>1, <1>2, <1>3, PageFrame DEF pageVars

LEMMA PagesUnheard ==
    ASSUME GInv, Unheard, UNCHANGED pageVars
    PROVE  PagesOK'
<1>0. TypeOK /\ IInv /\ LockInv
    BY DEF GInv, LockInv, IInv
<1>1. ASSUME NEW p \in Orders,
             createOrder(p) \/ commitOrder(p) \/ abortOrder(p) \/ loseNotice(p) \/ turnStale(p)
      PROVE  PagesOK'
  <2>1. /\ UNCHANGED <<edit, status>>
        /\ \A o \in Orders : row[o] \in {"placed", "deleted"} => row'[o] = row[o]
      BY <1>0, <1>1 DEF createOrder, commitOrder, abortOrder, loseNotice, turnStale, TypeOK
  <2>. QED  BY <2>1, PagesInStillRows
<1>2. ASSUME CronStep \/ \E t \in SUBSET Orders : deleteDue(t) PROVE PagesOK'
  <2>1. /\ UNCHANGED <<edit, status>>
        /\ \A o \in Orders : row'[o] = row[o] \/ row'[o] = "deleted"
      BY <1>0, <1>2 DEF CronStep, startCron, scanRow, abortCron, deleteDue, TypeOK
  <2>. QED  BY <2>1, PagesInStillRows
<1>3. ASSUME NEW r \in Requests, NEW u \in Users, NEW p \in Orders, NEW target \in OrderStatus,
             openEdit(r, u, p, target)
      PROVE  PagesOK'
  <2> SUFFICES ASSUME NEW o \in Orders, NEW s \in firm[o] PROVE PageOK(o, s)'
      BY DEF PagesOK, pageVars
  <2>1. PageOK(o, s) /\ s \in Sockets
      BY DEF GInv, PagesOK, GatewayTypeOK
  <2>2. \A q \in Requests \ {r} : edit'[q] = edit[q]
      BY <1>0, <1>3, SlotOfEdit
  <2>3. edit[r] = NoEdit /\ edit'[r].phase = "read"
      BY <1>0, <1>3 DEF openEdit, TypeOK
  <2>4. ~TellsAhead(r, o) /\ ~TellsAhead(r, o)'
      BY <2>3 DEF TellsAhead, HoldsRow
  <2>5. \A q \in Requests : /\ TellsAhead(q, o)' <=> TellsAhead(q, o)
                            /\ TellsAhead(q, o) => edit'[q].target = edit[q].target
      BY <2>2, <2>4, SameEdit
  <2>6. UNCHANGED <<row, status>>
      BY <1>3 DEF openEdit
  <2>. QED  BY <2>1, <2>5, <2>6, PageFrame DEF pageVars
<1>4. ASSUME NEW r \in Requests, commitEdit(r) PROVE PagesOK'
  <2> DEFINE e == edit[r]
  <2> SUFFICES ASSUME NEW o \in Orders, NEW s \in firm[o] PROVE PageOK(o, s)'
      BY DEF PagesOK, pageVars
  <2>1. PageOK(o, s) /\ s \in Sockets
      BY DEF GInv, PagesOK, GatewayTypeOK
  <2>2. \A q \in Requests \ {r} : edit'[q] = edit[q]
      BY <1>0, <1>4, SlotOfEdit
  <2>3. /\ e # NoEdit /\ e.phase = "saved" /\ e.order \in Orders
        /\ edit'[r] = NoEdit /\ UNCHANGED row
      BY <1>0, <1>4, CommitFacts DEF commitEdit, TypeOK, Edits
  <2>4. ~TellsAhead(r, o)'
      BY <2>3 DEF TellsAhead
  <2>5. CASE ~TellsAhead(r, o)
    <3>1. \A q \in Requests : /\ TellsAhead(q, o)' <=> TellsAhead(q, o)
                              /\ TellsAhead(q, o) => edit'[q].target = edit[q].target
        BY <2>2, <2>4, <2>5, SameEdit
    <3>2. o = e.order => ~WritesStatus(e)
        BY <2>3, <2>5, Zenon DEF TellsAhead, HoldsRow, Writes
    <3>3. status'[o] = status[o]
        BY <1>0, <1>4, <2>3, <3>2 DEF commitEdit, TypeOK
    <3>. QED  BY <2>1, <2>3, <3>1, <3>3, PageFrame DEF pageVars
  <2>6. CASE TellsAhead(r, o)
    <3>1. o = e.order /\ WritesStatus(e) /\ Holder(r, o)
        BY <2>6 DEF TellsAhead, HoldsRow, Holder
    <3>2. CASE row[o] = "placed"
      <4>1. status'[o] = e.target
          BY <1>0, <1>4, <2>3, <3>1, <3>2 DEF commitEdit, TypeOK
      <4>2. \A q \in Requests \ {r} : ~TellsAhead(q, o)
          BY <1>0, <3>1, <3>2, Zenon DEF LockInv, OneHolder, Holder, TellsAhead
      <4>3. \A q \in Requests : ~TellsAhead(q, o)'
          BY <2>2, <2>4, <4>2, SameEdit
      <4>4. ~InWindow(o)' /\ InWindow(o)
          BY <2>6, <4>3, Zenon DEF InWindow
      <4>5. /\ s \in orderRoom[o] /\ answer[o][s] = NoAnswer
            /\ shown[o][s] = e.target
          BY <2>1, <2>6, <3>2, <4>4 DEF PageOK
      <4>. QED  BY <2>3, <3>2, <4>1, <4>3, <4>5 DEF PageOK, pageVars
    <3>3. CASE row[o] # "placed"
        BY <2>1, <2>3, <3>3 DEF PageOK
    <3>. QED  BY <3>2, <3>3
  <2>. QED  BY <2>5, <2>6
<1>. QED  BY <1>1, <1>2, <1>3, <1>4, Zenon DEF Unheard

LEMMA PagesTold ==
    ASSUME GInv, NEW r \in Requests, orderUpdate(r)
    PROVE  PagesOK'
<1> DEFINE e == edit[r]
<1>0. TypeOK /\ IInv /\ LockInv /\ GatewayTypeOK
    BY DEF GInv, LockInv, IInv
<1>1. /\ e \in Edits /\ e # NoEdit /\ e.phase = "read" /\ e.order \in Orders
      /\ saveEdit(r)
      /\ UNCHANGED <<row, status, orderRoom, answer>>
    BY <1>0 DEF orderUpdate, saveEdit, TypeOK, Edits
<1>2. \A q \in Requests \ {r} : edit'[q] = edit[q]
    BY <1>0, <1>1, SlotOfEdit
<1>3. /\ edit'[r].phase = "saved" /\ edit'[r].order = e.order /\ edit'[r].target = e.target
      /\ edit'[r].snapStatus = e.snapStatus
      /\ edit'[r] # NoEdit
    BY <1>0, <1>1 DEF saveEdit, TypeOK, Edits, NoEdit
<1>4. ~TellsAhead(r, e.order)
    BY <1>1 DEF TellsAhead, HoldsRow
<1> SUFFICES ASSUME NEW o \in Orders, NEW s \in firm'[o] PROVE PageOK(o, s)'
    BY DEF PagesOK
<1>5. /\ s \in firm[o] /\ s \in Sockets
      /\ o = e.order => answer[o][s] = NoAnswer /\ ~TellsOldStatus(e)
      /\ shown'[o] = IF o = e.order THEN Tell(o, e.target) ELSE shown[o]
    BY <1>0, <1>1 DEF orderUpdate, GatewayTypeOK
<1>6. PageOK(o, s)
    BY <1>5 DEF GInv, PagesOK
<1>7. CASE o # e.order
  <2>1. ~TellsAhead(r, o) /\ ~TellsAhead(r, o)'
      BY <1>1, <1>3, <1>7 DEF TellsAhead, HoldsRow
  <2>2. \A q \in Requests : /\ TellsAhead(q, o)' <=> TellsAhead(q, o)
                            /\ TellsAhead(q, o) => edit'[q].target = edit[q].target
      BY <1>2, <2>1, SameEdit
  <2>. QED  BY <1>1, <1>5, <1>6, <1>7, <2>2, PageFrame
<1>8. CASE o = e.order /\ row[o] # "placed"
    BY <1>1, <1>6, <1>8 DEF PageOK
<1>9. CASE o = e.order /\ row[o] = "placed"
  <2>1. s \in orderRoom[o] /\ shown'[o][s] = e.target /\ answer[o][s] = NoAnswer
      BY <1>5, <1>6, <1>9 DEF PageOK, Tell
  <2>2. CASE WritesStatus(e)
    <3>1. ~Locked(o)
        BY <1>1, <1>9, <2>2 DEF saveEdit, Writes
    <3>2. \A q \in Requests \ {r} : ~TellsAhead(q, o)
        BY <3>1, Zenon DEF Locked, InUse, TellsAhead
    <3>3. \A q \in Requests \ {r} : ~TellsAhead(q, o)'
        BY <1>2, <3>2, SameEdit
    <3>4. TellsAhead(r, o)'
        BY <1>3, <1>9, <2>2 DEF TellsAhead, HoldsRow, Writes, WritesStatus
    <3>5. InWindow(o)'
        BY <3>4, Zenon DEF InWindow
    <3>. QED  BY <1>1, <1>3, <1>9, <2>1, <3>3, <3>5 DEF PageOK
  <2>3. CASE ~WritesStatus(e)
    <3>1. e.target = status[o] /\ ~InWindow(o)
        BY <1>5, <1>9, <2>3 DEF TellsOldStatus
    <3>2. ~TellsAhead(r, o)'
        BY <1>3, <2>3 DEF TellsAhead, WritesStatus
    <3>3. \A q \in Requests : ~TellsAhead(q, o)'
        BY <1>2, <3>1, <3>2, SameEdit DEF InWindow
    <3>. QED  BY <1>1, <1>9, <2>1, <3>1, <3>3 DEF PageOK
  <2>. QED  BY <2>2, <2>3
<1>. QED  BY <1>7, <1>8, <1>9

LEMMA PagesRolledBack ==
    ASSUME GInv, NEW r \in Requests, rollBack(r)
    PROVE  PagesOK'
<1> DEFINE e == edit[r]
<1>0. TypeOK /\ GatewayTypeOK
    BY DEF GInv, LockInv, IInv
<1>1. /\ e \in Edits /\ e # NoEdit /\ e.order \in Orders
      /\ abortEdit(r) /\ edit'[r] = NoEdit
      /\ UNCHANGED <<row, status, orderRoom, answer, shown>>
    BY <1>0 DEF rollBack, abortEdit, TypeOK, Edits
<1>2. \A q \in Requests \ {r} : edit'[q] = edit[q]
    BY <1>0, <1>1, SlotOfEdit
<1> SUFFICES ASSUME NEW o \in Orders, NEW s \in firm'[o] PROVE PageOK(o, s)'
    BY DEF PagesOK
<1>3. /\ s \in firm[o] /\ s \in Sockets
      /\ o = e.order => ~(e.phase = "saved" /\ WritesStatus(e))
    BY <1>0, <1>1 DEF rollBack, GatewayTypeOK
<1>4. PageOK(o, s)
    BY <1>3 DEF GInv, PagesOK
<1>5. ~TellsAhead(r, o) /\ ~TellsAhead(r, o)'
    BY <1>1, <1>3 DEF TellsAhead, HoldsRow
<1>6. \A q \in Requests : /\ TellsAhead(q, o)' <=> TellsAhead(q, o)
                          /\ TellsAhead(q, o) => edit'[q].target = edit[q].target
    BY <1>2, <1>5, SameEdit
<1>. QED  BY <1>1, <1>3, <1>4, <1>6, PageFrame

\* The requests and rooms of the pages themselves.
LEMMA PagesWatched ==
    ASSUME GInv, UNCHANGED vars,
           \/ \E s \in Sockets, o \in Orders :
                joinOrderRoom(s, o) \/ getOrderById(s, o) \/ sendAnswer(s, o)
           \/ \E s \in Sockets : handleDisconnect(s)
           \/ UNCHANGED pageVars
    PROVE  PagesOK'
<1>0. GatewayTypeOK /\ UNCHANGED <<row, status, edit>>
    BY DEF GInv, vars
<1>1. ASSUME NEW o \in Orders, NEW s \in firm[o],
             s \in orderRoom[o] => s \in orderRoom'[o],
             answer'[o][s] = answer[o][s],
             shown'[o][s] = shown[o][s]
      PROVE  PageOK(o, s)'
  <2>1. PageOK(o, s) /\ s \in Sockets
      BY <1>0 DEF GInv, PagesOK, GatewayTypeOK
  <2>2. \A r \in Requests : /\ TellsAhead(r, o)' <=> TellsAhead(r, o)
                            /\ TellsAhead(r, o) => edit'[r].target = edit[r].target
      BY <1>0, SameEdit
  <2>. QED  BY <1>0, <1>1, <2>1, <2>2, PageFrame
<1>2. \A o \in Orders : InWindow(o)' <=> InWindow(o)
    BY <1>0, SameEdit DEF InWindow
<1>3. ASSUME NEW s \in Sockets, NEW p \in Orders, joinOrderRoom(s, p) PROVE PagesOK'
  <2>1. /\ UNCHANGED <<answer, shown, firm>>
        /\ \A o \in Orders : orderRoom[o] \subseteq orderRoom'[o]
      BY <1>0, <1>3 DEF joinOrderRoom, GatewayTypeOK
  <2>. QED  BY <1>1, <2>1 DEF PagesOK
<1>4. ASSUME NEW t \in Sockets, NEW p \in Orders, getOrderById(t, p) PROVE PagesOK'
  <2> SUFFICES ASSUME NEW o \in Orders, NEW s \in firm'[o] PROVE PageOK(o, s)'
      BY DEF PagesOK
  <2>1. /\ UNCHANGED <<orderRoom, shown>>
        /\ row[p] = "placed"
        /\ s \in Sockets
        /\ answer' = [answer EXCEPT ![p][t] = status[p]]
        /\ firm' = [firm EXCEPT ![p] = IF t \in orderRoom[p] /\ ~InWindow(p)
                                       THEN @ \cup {t} ELSE @ \ {t}]
      BY <1>0, <1>4 DEF getOrderById, MayOpen, GatewayTypeOK
  <2>2. CASE o = p /\ s = t
    <3>1. t \in orderRoom[p] /\ ~InWindow(p)
        BY <1>0, <2>1, <2>2 DEF GatewayTypeOK
    <3>2. answer'[p][t] = status[p]
        BY <1>0, <2>1 DEF GatewayTypeOK
    <3>3. status[p] # NoAnswer
        BY SocketsAssumption DEF GInv, LockInv, IInv, TypeOK
    <3>. QED  BY <1>0, <1>2, <2>1, <2>2, <3>1, <3>2, <3>3 DEF PageOK
  <2>3. CASE ~(o = p /\ s = t)
    <3>1. s \in firm[o] /\ answer'[o][s] = answer[o][s]
        BY <1>0, <2>1, <2>3 DEF GatewayTypeOK
    <3>. QED  BY <1>1, <2>1, <3>1
  <2>. QED  BY <2>2, <2>3
<1>5. ASSUME NEW t \in Sockets, NEW p \in Orders, sendAnswer(t, p) PROVE PagesOK'
  <2> SUFFICES ASSUME NEW o \in Orders, NEW s \in firm[o] PROVE PageOK(o, s)'
      BY <1>5 DEF PagesOK, sendAnswer
  <2>1. /\ UNCHANGED <<orderRoom, firm>>
        /\ answer[p][t] # NoAnswer
        /\ s \in Sockets
        /\ shown' = [shown EXCEPT ![p][t] = answer[p][t]]
        /\ answer' = [answer EXCEPT ![p][t] = NoAnswer]
      BY <1>0, <1>5 DEF sendAnswer, GatewayTypeOK
  <2>2. CASE o = p /\ s = t
    <3>1. PageOK(p, t)
        BY <2>2 DEF GInv, PagesOK
    <3>2. shown'[p][t] = answer[p][t] /\ answer'[p][t] = NoAnswer
        BY <1>0, <2>1 DEF GatewayTypeOK
    <3>3. row[p] = "placed" => \A r \in Requests : ~TellsAhead(r, p)'
        BY <1>2, <2>1, <3>1 DEF PageOK, InWindow
    <3>. QED  BY <1>0, <1>2, <2>1, <2>2, <3>1, <3>2, <3>3 DEF PageOK
  <2>3. CASE ~(o = p /\ s = t)
    <3>1. answer'[o][s] = answer[o][s] /\ shown'[o][s] = shown[o][s]
        BY <1>0, <2>1, <2>3 DEF GatewayTypeOK
    <3>. QED  BY <1>1, <2>1, <3>1
  <2>. QED  BY <2>2, <2>3
<1>6. ASSUME NEW t \in Sockets, handleDisconnect(t) PROVE PagesOK'
  <2> SUFFICES ASSUME NEW o \in Orders, NEW s \in firm'[o] PROVE PageOK(o, s)'
      BY DEF PagesOK
  <2>1. s \in firm[o] /\ s # t /\ s \in Sockets
      BY <1>0, <1>6 DEF handleDisconnect, GatewayTypeOK
  <2>2. /\ s \in orderRoom[o] => s \in orderRoom'[o]
        /\ answer'[o][s] = answer[o][s]
        /\ shown'[o][s] = shown[o][s]
      BY <1>0, <1>6, <2>1 DEF handleDisconnect, GatewayTypeOK
  <2>. QED  BY <1>1, <2>1, <2>2
<1>7. ASSUME UNCHANGED pageVars PROVE PagesOK'
    BY <1>1, <1>7 DEF PagesOK, pageVars
<1>. QED  BY <1>3, <1>4, <1>5, <1>6, <1>7

LEMMA GatewayInvariant == GatewaySpec => []GInv
<1>1. GatewayInit => GInv
    BY GatewayInitOK
<1>2. GInv /\ [GatewayNext]_gatewayVars => GInv'
  <2> SUFFICES ASSUME GInv, [GatewayNext]_gatewayVars PROVE GInv'
      OBVIOUS
  <2>1. LockInv'
      BY GatewayStep, LocksKept DEF GInv
  <2>2. GatewayTypeOK' /\ ListsOK'
      BY <2>1, GatewayTypes, ListsKept
  <2>3. ASSUME Unheard, UNCHANGED <<ownerVars, pageVars>> PROVE PagesOK'
      BY <2>3, PagesUnheard, Zenon
  <2>4. ASSUME NEW r \in Requests, orderUpdate(r) \/ rollBack(r) PROVE PagesOK'
      BY <2>4, PagesTold, PagesRolledBack
  <2>5. ASSUME NEW o \in Orders, newPendingOrder(o) PROVE PagesOK'
    <3>1. UNCHANGED <<edit, status, row, pageVars>>
        BY <2>5 DEF newPendingOrder, sendNotice
    <3>. QED  BY <3>1, PagesInStillRows
  <2>6. ASSUME NEW s \in Sockets, NEW u \in Owners, joinUserRoom(s, u) PROVE PagesOK'
      BY <2>6, PagesWatched DEF joinUserRoom
  <2>7. ASSUME NEW s \in Sockets, getOrders(s) PROVE PagesOK'
      BY <2>7, PagesWatched DEF getOrders
  <2>8. ASSUME NEW s \in Sockets, NEW o \in Orders,
               joinOrderRoom(s, o) \/ getOrderById(s, o) \/ sendAnswer(s, o)
        PROVE  PagesOK'
    <3>1. UNCHANGED vars
        BY <2>8 DEF joinOrderRoom, getOrderById, sendAnswer
    <3>. QED  BY <2>8, <3>1, PagesWatched
  <2>9. ASSUME NEW s \in Sockets, handleDisconnect(s) PROVE PagesOK'
    <3>1. UNCHANGED vars
        BY <2>9 DEF handleDisconnect
    <3>. QED  BY <2>9, <3>1, PagesWatched
  <2>10. ASSUME UNCHANGED gatewayVars PROVE PagesOK'
      BY <2>10, PagesWatched DEF gatewayVars
  <2>11. PagesOK'
      BY <2>3, <2>4, <2>5, <2>6, <2>7, <2>8, <2>9, <2>10, Zenon DEF GatewayNext
  <2>. QED  BY <2>1, <2>2, <2>11 DEF GInv
<1>. QED  BY <1>1, <1>2, PTL DEF GatewaySpec

-----------------------------------------------------------------------------
(* Ghosts: what has been shown was committed and stays so                   *)

\* What of an order nothing takes back: that it was committed, and what its room
\* was told.
LEMMA NothingUntold ==
    ASSUME IInv, [Next]_vars, NEW o \in Orders
    PROVE  /\ row[o] \in {"placed", "deleted"} => row'[o] \in {"placed", "deleted"}
           /\ told[o] \subseteq told'[o]
<1>0. TypeOK
    BY DEF IInv
<1>1. ASSUME NEW p \in Orders, OrderStep(p)
      PROVE  /\ row[o] \in {"placed", "deleted"} => row'[o] \in {"placed", "deleted"}
             /\ told' = told
    BY <1>0, <1>1 DEF OrderStep, createOrder, commitOrder, abortOrder, sendNotice, loseNotice,
                      turnStale, TypeOK
<1>2. ASSUME NEW r \in Requests, EditStep(r) PROVE row' = row /\ told[o] \subseteq told'[o]
    BY <1>0, <1>2 DEF EditStep, openEdit, saveEdit, commitEdit, abortEdit, TypeOK
<1>3. ASSUME NEW s \in SUBSET Orders, deleteDue(s)
      PROVE  /\ row[o] \in {"placed", "deleted"} => row'[o] \in {"placed", "deleted"}
             /\ told' = told
    BY <1>0, <1>3 DEF deleteDue, TypeOK
<1>4. ASSUME CronStep \/ UNCHANGED vars PROVE row' = row /\ told' = told
    BY <1>4 DEF CronStep, startCron, scanRow, abortCron, vars
<1>. QED  BY <1>1, <1>2, <1>3, <1>4 DEF Next

\* What may be shown of order o: its status x.
MayShow(o, x) == row[o] \in {"placed", "deleted"} /\ x \in told[o] \cup {"Pending"}

\* A step shows no more of the lists and pages than it was allowed to.
LEMMA NoNewGhost ==
    ASSUME NoGhostOnScreen, IInv, [Next]_vars,
           \A s \in Sockets, o \in Orders :
              /\ o \in heard'[s] => o \in heard[s] \/ row'[o] \in {"placed", "deleted"}
              /\ \A x \in {answer'[o][s], shown'[o][s]} \ {NoAnswer, NothingShown} :
                    x \in {answer[o][s], shown[o][s]} \/ MayShow(o, x)'
    PROVE  NoGhostOnScreen'
<1> SUFFICES ASSUME NEW s \in Sockets, NEW o \in Orders
             PROVE  /\ o \in heard'[s] => row'[o] \in {"placed", "deleted"}
                    /\ \A x \in {answer'[o][s], shown'[o][s]} \ {NoAnswer, NothingShown} :
                          MayShow(o, x)'
    BY DEF NoGhostOnScreen, MayShow
<1>1. o \in heard[s] => row[o] \in {"placed", "deleted"}
    BY DEF NoGhostOnScreen
<1>2. ASSUME NEW x \in {answer[o][s], shown[o][s]} \ {NoAnswer, NothingShown}
      PROVE  MayShow(o, x)
    BY <1>2 DEF NoGhostOnScreen, MayShow
<1>3. ASSUME NEW x, MayShow(o, x) PROVE MayShow(o, x)'
    BY <1>3, NothingUntold DEF MayShow
<1>. QED  BY <1>1, <1>2, <1>3, NothingUntold

LEMMA GhostStep ==
    ASSUME GInv, NoGhostOnScreen, [GatewayNext]_gatewayVars
    PROVE  NoGhostOnScreen'
<1>0. /\ GatewayTypeOK /\ TypeOK /\ IInv /\ [Next]_vars
      /\ \A o \in Orders : RowOK(o)
    BY GatewayStep DEF GInv, LockInv, IInv
<1>1. ASSUME UNCHANGED <<heard, answer, shown>> PROVE NoGhostOnScreen'
    BY <1>0, <1>1, NoNewGhost
<1>2. ASSUME NEW p \in Orders, newPendingOrder(p) PROVE NoGhostOnScreen'
  <2>1. row'[p] \in {"placed", "deleted"}
      BY <1>0, <1>2 DEF newPendingOrder, sendNotice, RowOK, TypeOK
  <2>2. UNCHANGED <<answer, shown>> /\ \A s \in Sockets : heard'[s] \subseteq heard[s] \cup {p}
      BY <1>0, <1>2 DEF newPendingOrder, pageVars, GatewayTypeOK
  <2>. QED  BY <1>0, <2>1, <2>2, NoNewGhost
<1>3. ASSUME NEW r \in Requests, orderUpdate(r) PROVE NoGhostOnScreen'
  <2>1. edit[r] \in Edits /\ EditOK(edit[r])
      BY <1>0, <1>3 DEF orderUpdate, saveEdit, TypeOK, IInv
  <2>2. PICK p \in Orders, target \in OrderStatus : p = edit[r].order /\ target = edit[r].target
      BY <2>1 DEF Edits
  <2>3. row[p] \in {"placed", "deleted"} /\ row' = row /\ told'[p] = told[p] \cup {target}
      BY <1>0, <1>3, <2>1, <2>2 DEF orderUpdate, saveEdit, TypeOK, EditOK
  <2>4. UNCHANGED <<heard, answer>> /\ shown' = [shown EXCEPT ![p] = Tell(p, target)]
      BY <1>3, <2>2 DEF orderUpdate, ownerVars
  <2>5. \A s \in Sockets, o \in Orders :
            shown'[o][s] = shown[o][s] \/ (o = p /\ shown'[o][s] = target)
      BY <1>0, <2>4 DEF GatewayTypeOK, Tell
  <2>6. MayShow(p, target)'
      BY <2>3 DEF MayShow
  <2>7. ASSUME NEW s \in Sockets, NEW o \in Orders,
               NEW x \in {answer'[o][s], shown'[o][s]} \ {NoAnswer, NothingShown}
        PROVE  x \in {answer[o][s], shown[o][s]} \/ MayShow(o, x)'
      BY <2>4, <2>5, <2>6
  <2>. QED  BY <1>0, <2>4, <2>7, NoNewGhost
<1>4. ASSUME NEW t \in Sockets, handleDisconnect(t) PROVE NoGhostOnScreen'
  <2>1. \A s \in Sockets, o \in Orders :
            /\ heard'[s] \subseteq heard[s]
            /\ answer'[o][s] \in {answer[o][s], NoAnswer}
            /\ shown'[o][s] \in {shown[o][s], NothingShown}
      BY <1>0, <1>4 DEF handleDisconnect, GatewayTypeOK
  <2>. QED  BY <1>0, <2>1, NoNewGhost
<1>5. ASSUME NEW t \in Sockets, getOrders(t) PROVE NoGhostOnScreen'
  <2>1. UNCHANGED <<row, answer, shown>>
      BY <1>5 DEF getOrders, vars, pageVars
  <2>2. \A s \in Sockets : \A o \in heard'[s] : o \in heard[s] \/ row[o] = "placed"
      BY <1>0, <1>5 DEF getOrders, Listed, GatewayTypeOK
  <2>. QED  BY <1>0, <2>1, <2>2, NoNewGhost
<1>6. ASSUME NEW t \in Sockets, NEW p \in Orders, getOrderById(t, p) PROVE NoGhostOnScreen'
  <2>1. UNCHANGED <<row, told, heard, shown>> /\ row[p] = "placed"
      BY <1>6 DEF getOrderById, MayOpen, vars, ownerVars
  <2>2. \A s \in Sockets, o \in Orders :
            answer'[o][s] = answer[o][s] \/ (o = p /\ answer'[o][s] = status[p])
      BY <1>0, <1>6 DEF getOrderById, GatewayTypeOK
  <2>3. MayShow(p, status[p])'
    <3>1. status[p] \in told[p] \cup {"Pending"}
        BY <1>0 DEF RowOK
    <3>2. status' = status
        BY <1>6 DEF getOrderById, vars
    <3>. QED  BY <2>1, <3>1, <3>2 DEF MayShow
  <2>4. ASSUME NEW s \in Sockets, NEW o \in Orders,
               NEW x \in {answer'[o][s], shown'[o][s]} \ {NoAnswer, NothingShown}
        PROVE  x \in {answer[o][s], shown[o][s]} \/ MayShow(o, x)'
    <3>1. MayShow(p, status[p])' => (x = status[p] => MayShow(p, x)')
        BY <1>6 DEF getOrderById, vars, MayShow
    <3>. QED  BY <2>1, <2>2, <2>3, <3>1
  <2>. QED  BY <1>0, <2>1, <2>4, NoNewGhost
<1>7. ASSUME NEW t \in Sockets, NEW p \in Orders, sendAnswer(t, p) PROVE NoGhostOnScreen'
  <2>1. UNCHANGED heard
      BY <1>7 DEF sendAnswer, ownerVars
  <2>2. \A s \in Sockets, o \in Orders :
            /\ shown'[o][s] \in {shown[o][s], answer[o][s]}
            /\ answer'[o][s] \in {answer[o][s], NoAnswer}
      BY <1>0, <1>7 DEF sendAnswer, GatewayTypeOK
  <2>. QED  BY <1>0, <2>1, <2>2, NoNewGhost
<1>8. ASSUME Unheard /\ UNCHANGED <<ownerVars, pageVars>> PROVE NoGhostOnScreen'
    BY <1>1, <1>8 DEF ownerVars, pageVars
<1>9. ASSUME NEW r \in Requests, rollBack(r) PROVE NoGhostOnScreen'
    BY <1>1, <1>9 DEF rollBack, ownerVars
<1>10. ASSUME NEW s \in Sockets, NEW u \in Owners, joinUserRoom(s, u) PROVE NoGhostOnScreen'
    BY <1>1, <1>10 DEF joinUserRoom, pageVars
<1>11. ASSUME NEW s \in Sockets, NEW o \in Orders, joinOrderRoom(s, o) PROVE NoGhostOnScreen'
    BY <1>1, <1>11 DEF joinOrderRoom, ownerVars
<1>12. CASE UNCHANGED gatewayVars
    BY <1>1, <1>12 DEF gatewayVars, ownerVars, pageVars
<1>. QED
  BY <1>2, <1>3, <1>4, <1>5, <1>6, <1>7, <1>8, <1>9, <1>10, <1>11, <1>12, Zenon DEF GatewayNext

-----------------------------------------------------------------------------
(* The theorems                                                            *)

\* Rooms hold sockets, and pages and lists show statuses and orders, whatever the
\* clients do.
THEOREM GatewayTypeCorrect == GatewaySpec => []GatewayTypeOK
<1>1. GInv => GatewayTypeOK
    BY DEF GInv
<1>. QED  BY <1>1, GatewayInvariant, PTL

\* A client that joins before it asks may rely on newPendingOrder, which createOrder
\* leaves to the commit hook.
THEOREM OwnersMissNothing == GatewaySpec => []OwnerMissesNoOrder
<1>1. GInv => OwnerMissesNoOrder
    BY DEF GInv, ListsOK
<1>. QED  BY <1>1, GatewayInvariant, PTL

\* It may rely on orderUpdate too, which goes out before the commit, except in the
\* four cases that FirmPageIsUpToDate names; the row lock keeps the events of an
\* order in the order of its commits.
THEOREM FirmPagesAreUpToDate == GatewaySpec => []FirmPageIsUpToDate
<1>1. GInv => FirmPageIsUpToDate
    BY DEF GInv, PagesOK, PageOK, FirmPageIsUpToDate
<1>. QED  BY <1>1, GatewayInvariant, PTL

\* No screen ever shows an order that was rolled back (createOrder emits from the
\* commit hook, lists read committed rows), or a status that is neither Pending nor
\* announced to the room.
THEOREM NoScreenShowsGhosts == GatewaySpec => []NoGhostOnScreen
<1>1. GatewayInit => NoGhostOnScreen
  <2> SUFFICES ASSUME GatewayInit, NEW s \in Sockets, NEW o \in Orders
               PROVE  heard[s] = {} /\ answer[o][s] = NoAnswer /\ shown[o][s] = NothingShown
      BY DEF NoGhostOnScreen
  <2>. QED  BY DEF GatewayInit
<1>2. GInv /\ NoGhostOnScreen /\ [GatewayNext]_gatewayVars => NoGhostOnScreen'
    BY GhostStep
<1>. QED  BY <1>1, <1>2, GatewayInvariant, PTL DEF GatewaySpec
=============================================================================
