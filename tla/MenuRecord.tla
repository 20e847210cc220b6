----------------------------- MODULE MenuRecord -----------------------------
(***************************************************************************)
(* What customers and owners may rely on about the menu and the orders     *)
(* charged by it.  A restaurant keeps its owner, a dish stays with its     *)
(* restaurant, and neither is taken off the menu by an edit, unless a      *)
(* request under way names columns it should not; a restaurant is only     *)
(* ever filed under a category there is; an order is charged by one menu,  *)
(* of now or of before, and keeps that charge.  A dish taken off the menu  *)
(* is back on it at most through a revision that began while it was still  *)
(* on it.                                                                  *)
(***************************************************************************)
EXTENDS Naturals

CONSTANTS
    Categories,    \* the categories there may be
    NoCategory,    \* no category
    Absent,        \* the entry of what is not there yet
    Restaurants, Dishes, Users, Amounts, Carts

VARIABLES
    filed,       \* the categories there are
    restaurant,  \* restaurant[r] : whether it is open, owner, category and delivery fee
    dish,        \* dish[d] : whose it is, whether it is on the menu, its prices
    rebuilt,     \* restaurants about to be written with columns nobody should name
    revising,    \* dishes with a revision under way
    recast,      \* dishes about to be written with columns nobody should name
    menus,       \* every menu there has been
    orders       \* what was ordered where, and for how much

vars == <<filed, restaurant, dish, rebuilt, revising, recast, menus, orders>>

Life == {"live", "deleted"}

Menu == [restaurant |-> restaurant, dish |-> dish]

Start ==
    /\ \A r \in Restaurants :
          restaurant[r] # Absent => restaurant[r].category \in filed \cup {NoCategory}
    /\ rebuilt = {} /\ revising = {} /\ recast = {}
    /\ menus = {Menu}
    /\ orders = {}

Prints == menus' = menus \cup {[restaurant |-> restaurant', dish |-> dish']}

\* A category, once there, is never gone.
NewCategory(k) ==
    /\ filed' = filed \cup {k}
    /\ UNCHANGED <<restaurant, dish, rebuilt, revising, recast, menus, orders>>

\* Requests begin, or end without a trace.
Engage(r) ==
    /\ rebuilt' = rebuilt \cup {r}
    /\ UNCHANGED <<filed, restaurant, dish, revising, recast, menus, orders>>

Begin(d) ==
    /\ dish[d].row = "live"
    /\ revising' = revising \cup {d}
    /\ UNCHANGED <<filed, restaurant, dish, rebuilt, recast, menus, orders>>

BeginAnew(d) ==
    /\ revising' = revising \cup {d}
    /\ recast' = recast \cup {d}
    /\ UNCHANGED <<filed, restaurant, dish, rebuilt, menus, orders>>

Fewer == rebuilt' \subseteq rebuilt /\ revising' \subseteq revising /\ recast' \subseteq recast

Abandon ==
    /\ Fewer
    /\ UNCHANGED <<filed, restaurant, dish, menus, orders>>

\* A restaurant opens, or its owner files it or sets its fee anew.
Register(r, row, u, k, fee) ==
    /\ restaurant[r] # Absent /\ r \notin rebuilt =>
          row = restaurant[r].row /\ u = restaurant[r].owner
    /\ k \in filed \cup {NoCategory}
    /\ restaurant' = [restaurant EXCEPT ![r] = [row |-> row, owner |-> u, category |-> k, fee |-> fee]]
    /\ Prints
    /\ Fewer
    /\ UNCHANGED <<filed, dish, orders>>

NewDish(d, row, r, price, extra) ==
    /\ dish[d] = Absent
    /\ restaurant[r] # Absent
    /\ dish' = [dish EXCEPT ![d] = [row |-> row, of |-> r, price |-> price, extra |-> extra]]
    /\ Prints
    /\ Fewer
    /\ UNCHANGED <<filed, restaurant, orders>>

\* The restaurants whose dish d has been, on some menu.
Places(d) == {menu.dish[d].of : menu \in {m \in menus : m.dish[d].row = "live"}}

\* A revision ends, others of the dish may go on.  It takes a dish neither off the
\* menu nor to a restaurant it never was in.
Revise(d, row, r, price, extra) ==
    /\ d \in revising
    /\ dish[d] # Absent
    /\ d \notin recast => row \in {dish[d].row, "live"} /\ r \in Places(d) \cup {dish[d].of}
    /\ dish' = [dish EXCEPT ![d] = [row |-> row, of |-> r, price |-> price, extra |-> extra]]
    /\ Prints
    /\ Fewer
    /\ UNCHANGED <<filed, restaurant, orders>>

TakeOff(d) ==
    /\ dish[d] # Absent
    /\ dish' = [dish EXCEPT ![d].row = "deleted"]
    /\ Prints
    /\ UNCHANGED <<filed, restaurant, rebuilt, revising, recast, orders>>

Cost(row, line) == [line |-> line, price |-> IF line.option THEN row.price + row.extra ELSE row.price]

Charge(menu, r, cart) ==
    /\ menu.restaurant[r].row = "live"
    /\ \A line \in cart : menu.dish[line.dish].row = "live"
    /\ orders' = orders \cup {[of |-> r, cart |-> cart,
                               quote |-> [fee |-> menu.restaurant[r].fee,
                                          lines |-> {Cost(menu.dish[line.dish], line) : line \in cart}]]}
    /\ UNCHANGED <<filed, restaurant, dish, rebuilt, revising, recast, menus>>

Next ==
    \/ \E k \in Categories : NewCategory(k)
    \/ \E r \in Restaurants : Engage(r)
    \/ \E d \in Dishes : Begin(d) \/ BeginAnew(d) \/ TakeOff(d)
    \/ Abandon
    \/ \E r \in Restaurants, row \in Life, u \in Users, k \in Categories \cup {NoCategory},
          fee \in Amounts : Register(r, row, u, k, fee)
    \/ \E d \in Dishes, row \in Life, r \in Restaurants, price \in Amounts, extra \in Amounts :
          NewDish(d, row, r, price, extra) \/ Revise(d, row, r, price, extra)
    \/ \E menu \in menus, r \in Restaurants, cart \in Carts : Charge(menu, r, cart)

Spec == Start /\ [][Next]_vars
=============================================================================
