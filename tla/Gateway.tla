------------------------------ MODULE Gateway -------------------------------
(***************************************************************************)
(* EventsGateway: the rooms of the sockets, and what OrderService emits to *)
(* them, composed with the life of the orders.  A client joins a room and  *)
(* asks the REST API for what the room will not repeat: the owner's list   *)
(* of orders, the page of one order.  The answers and the events race.     *)
(* newPendingOrder is sent once the order is committed; orderUpdate before *)
(* its edit commits.  Rooms live in the memory of one process: the model   *)
(* is of the process that serves both the requests and the sockets.        *)
(***************************************************************************)
EXTENDS OrderLifecycle

CONSTANTS
    Sockets,     \* connections of clients
    UserOf,      \* UserOf[s] : the user whose app holds socket s
    NoAnswer,    \* no request for the page is under way
    NothingShown \* the page of an order is not open

ASSUME SocketsAssumption ==
    /\ UserOf \in [Sockets -> Users]
    /\ NoAnswer \notin OrderStatus /\ NothingShown \notin OrderStatus

VARIABLES
    ownerRoom, \* ownerRoom[u] : the sockets in room Owner:<u>
    orderRoom, \* orderRoom[o] : the sockets in room order:<o>
    heard,     \* heard[s] : orders its owner's list, or newPendingOrder, has shown
    listed,    \* sockets whose list was asked for from inside the room of their owner
    answer,    \* answer[o][s] : the status getOrderById has read for s and not yet sent
    shown,     \* shown[o][s] : the status of o that s was told last
    firm       \* history: firm[o] holds the sockets whose page nothing has put in doubt

ownerVars == <<ownerRoom, heard, listed>>
pageVars == <<orderRoom, answer, shown, firm>>
gatewayVars == <<vars, ownerVars, pageVars>>

GatewayTypeOK ==
    /\ ownerRoom \in [Owners -> SUBSET Sockets]
    /\ orderRoom \in [Orders -> SUBSET Sockets]
    /\ heard \in [Sockets -> SUBSET Orders]
    /\ listed \subseteq Sockets
    /\ answer \in [Orders -> [Sockets -> OrderStatus \cup {NoAnswer}]]
    /\ shown \in [Orders -> [Sockets -> OrderStatus \cup {NothingShown}]]
    /\ firm \in [Orders -> SUBSET Sockets]

GatewayInit ==
    /\ Init
    /\ ownerRoom = [u \in Owners |-> {}]
    /\ orderRoom = [o \in Orders |-> {}]
    /\ heard = [s \in Sockets |-> {}]
    /\ listed = {}
    /\ answer = [o \in Orders |-> [s \in Sockets |-> NoAnswer]]
    /\ shown = [o \in Orders |-> [s \in Sockets |-> NothingShown]]
    /\ firm = [o \in Orders |-> {}]

-----------------------------------------------------------------------------
(* Rooms.  Nobody checks who joins; only the end of a connection leaves.   *)

\* joinUserRoom with the role Owner: nothing is emitted to the rooms of others.
joinUserRoom(s, u) ==
    /\ ownerRoom' = [ownerRoom EXCEPT ![u] = @ \cup {s}]
    /\ UNCHANGED <<vars, heard, listed, pageVars>>

joinOrderRoom(s, o) ==
    /\ orderRoom' = [orderRoom EXCEPT ![o] = @ \cup {s}]
    /\ UNCHANGED <<vars, ownerVars, answer, shown, firm>>

\* The connection ends, with what its client showed; its requests are given up.
handleDisconnect(s) ==
    /\ ownerRoom' = [u \in Owners |-> ownerRoom[u] \ {s}]
    /\ orderRoom' = [o \in Orders |-> orderRoom[o] \ {s}]
    /\ heard' = [heard EXCEPT ![s] = {}]
    /\ listed' = listed \ {s}
    /\ answer' = [o \in Orders |-> [answer[o] EXCEPT ![s] = NoAnswer]]
    /\ shown' = [o \in Orders |-> [shown[o] EXCEPT ![s] = NothingShown]]
    /\ firm' = [o \in Orders |-> firm[o] \ {s}]
    /\ UNCHANGED vars

-----------------------------------------------------------------------------
(* The owner's list of orders.                                             *)

\* getOrders; a list only grows, so its answer may as well come at once.
getOrders(s) ==
    /\ UserOf[s] \in Owners
    /\ heard' = [heard EXCEPT ![s] = @ \cup Listed(UserOf[s])]
    /\ listed' = IF s \in ownerRoom[UserOf[s]] THEN listed \cup {s} ELSE listed
    /\ UNCHANGED <<vars, ownerRoom, pageVars>>

\* Mutant: the event goes to a room of another name, OWNER:<id>, which nobody joins.
newPendingOrder_capitals(o) ==
    /\ sendNotice(o)
    /\ UNCHANGED <<ownerVars, pageVars>>

\* The commit hook of createOrder.
newPendingOrder(o) ==
    /\ sendNotice(o)
    /\ heard' = [s \in Sockets |->
                    IF s \in ownerRoom[OwnerOf[o]] THEN heard[s] \cup {o} ELSE heard[s]]
    /\ UNCHANGED <<ownerRoom, listed, pageVars>>

-----------------------------------------------------------------------------
(* The page of an order.                                                   *)

\* The edit of slot r has told the room of o a status it has not yet committed.
TellsAhead(r, o) == edit[r] # NoEdit /\ HoldsRow(r, o) /\ WritesStatus(edit[r])

InWindow(o) == \E r \in Requests : TellsAhead(r, o)

\* getOrderById reads the committed row.
getOrderById(s, o) ==
    /\ MayOpen(UserOf[s], o)
    /\ answer[o][s] = NoAnswer
    /\ answer' = [answer EXCEPT ![o][s] = status[o]]
    /\ firm' = [firm EXCEPT ![o] = IF s \in orderRoom[o] /\ ~InWindow(o)
                                   THEN @ \cup {s} ELSE @ \ {s}]
    /\ UNCHANGED <<vars, ownerVars, orderRoom, shown>>

sendAnswer(s, o) ==
    /\ answer[o][s] # NoAnswer
    /\ shown' = [shown EXCEPT ![o][s] = answer[o][s]]
    /\ answer' = [answer EXCEPT ![o][s] = NoAnswer]
    /\ UNCHANGED <<vars, ownerVars, orderRoom, firm>>

\* The target is the status the edit had read, and that is out of date, or about to be.
TellsOldStatus(e) ==
    ~WritesStatus(e) /\ (e.target # status[e.order] \/ InWindow(e.order))

\* What orderUpdate shows to the room of its order, which may already have been
\* asked for: an answer that was read before and is sent after shows less.
Tell(o, s) == [t \in Sockets |-> IF t \in orderRoom[o] THEN s ELSE shown[o][t]]

\* Mutant: the room hears only of the orders that the drivers are called for.
orderUpdate_cookedOnly(r) ==
    LET e == edit[r]
        o == e.order
    IN  /\ saveEdit(r)
        /\ shown' = IF e.target = "Cooked" THEN [shown EXCEPT ![o] = Tell(o, e.target)] ELSE shown
        /\ firm' = [firm EXCEPT ![o] =
                       IF TellsOldStatus(e) THEN {} ELSE {t \in @ : answer[o][t] = NoAnswer}]
        /\ UNCHANGED <<ownerVars, orderRoom, answer>>

\* The save and the events of editOrderStatus (newCookedOrder goes to every
\* socket, and no page shows it).
orderUpdate(r) ==
    LET e == edit[r]
        o == e.order
    IN  /\ saveEdit(r)
        /\ shown' = [shown EXCEPT ![o] = Tell(o, e.target)]
        /\ firm' = [firm EXCEPT ![o] =
                       IF TellsOldStatus(e) THEN {} ELSE {t \in @ : answer[o][t] = NoAnswer}]
        /\ UNCHANGED <<ownerVars, orderRoom, answer>>

\* What was told of an edit that is rolled back, nobody takes back.
rollBack(r) ==
    LET e == edit[r]
    IN  /\ abortEdit(r)
        /\ firm' = IF e.phase = "saved" /\ WritesStatus(e)
                   THEN [firm EXCEPT ![e.order] = {}] ELSE firm
        /\ UNCHANGED <<ownerVars, orderRoom, answer, shown>>

-----------------------------------------------------------------------------
\* The steps of the orders that no socket hears of.
Unheard ==
    \/ \E o \in Orders : \/ createOrder(o)
                         \/ commitOrder(o)
                         \/ abortOrder(o)
                         \/ loseNotice(o)
                         \/ turnStale(o)
    \/ \E r \in Requests, u \in Users, o \in Orders, target \in OrderStatus :
            openEdit(r, u, o, target)
    \/ \E r \in Requests : commitEdit(r)
    \/ CronStep
    \/ \E referenced \in SUBSET Orders : deleteDue(referenced)

GatewayNext ==
    \/ Unheard /\ UNCHANGED <<ownerVars, pageVars>>
    \/ \E o \in Orders : newPendingOrder(o)
    \/ \E r \in Requests : orderUpdate(r)
    \/ \E r \in Requests : rollBack(r)
    \/ \E s \in Sockets, u \in Owners : joinUserRoom(s, u)
    \/ \E s \in Sockets, o \in Orders : joinOrderRoom(s, o)
    \/ \E s \in Sockets : handleDisconnect(s)
    \/ \E s \in Sockets : getOrders(s)
    \/ \E s \in Sockets, o \in Orders : getOrderById(s, o)
    \/ \E s \in Sockets, o \in Orders : sendAnswer(s, o)

GatewaySpec == GatewayInit /\ [][GatewayNext]_gatewayVars

-----------------------------------------------------------------------------
(* Properties                                                              *)

\* An owner who joins the room and then asks for the list misses no order, in
\* whatever order commits, hooks and answers come: each one was on the list or is
\* announced, unless its process ended in between.
OwnerMissesNoOrder ==
    \A s \in listed, o \in Orders :
        OwnerOf[o] = UserOf[s] /\ row[o] = "placed" =>
            o \in heard[s] \/ notice[o] \in {"queued", "lost"}

\* A page that was asked for from inside the room shows the committed status as
\* soon as no edit is under way, unless one was told and rolled back, one told the
\* old status it had read, or the page was read between the event of an edit and
\* its commit, or overtaken by an event.
FirmPageIsUpToDate ==
    \A o \in Orders : \A s \in firm[o] :
        row[o] = "placed" /\ answer[o][s] = NoAnswer /\ ~InWindow(o) =>
            shown[o][s] = status[o]

\* No ghosts: what a screen shows or is about to show is an order that was committed,
\* never one that was rolled back, and as its status Pending or one the room of the
\* order was told, whatever requests, events and connections overtake each other.
NoGhostOnScreen ==
    \A s \in Sockets, o \in Orders :
        /\ o \in heard[s] => row[o] \in {"placed", "deleted"}
        /\ \A x \in {answer[o][s], shown[o][s]} \ {NoAnswer, NothingShown} :
              row[o] \in {"placed", "deleted"} /\ x \in told[o] \cup {"Pending"}
=============================================================================
