----------------------------- MODULE Catalogue -----------------------------
(***************************************************************************)
(* The menu of the shop: CategoryService, RestaurantService, DishService,  *)
(* and what OrderService.createOrder reads of it to price an order.        *)
(*                                                                         *)
(* The bodies of these requests go into the entities whole: the validation *)
(* has no whitelist (setNestApp.ts), so a body may also carry columns its  *)
(* DTO does not declare, the id and the owner among them.  save() reads    *)
(* the row with the id of the entity and writes the columns in which the   *)
(* two differ, or inserts a row if there is none.  It would also follow    *)
(* lists of related rows nested in a body: these are left out.             *)
(*                                                                         *)
(* createRestaurant, updateRestaurant and createOrder are @Transactional:  *)
(* they read one snapshot.  The others are not: a dish is loaded, read     *)
(* again by save(), and written, by a query each.                          *)
(*                                                                         *)
(* No row is ever removed from its table: a deleted one has its deletedAt  *)
(* set, and no find returns it.                                            *)
(***************************************************************************)
EXTENDS Naturals, FiniteSets

CONSTANTS
    Categories,       \* ids of categories
    Slugs,            \* category.slug
    NoCategory,       \* the NULL of restaurant.category_id
    Restaurants,      \* ids of restaurants
    Dishes,           \* ids of dishes
    Users,            \* who may own a restaurant
    Owners,           \* users with the OWNER role, who send these requests
    Amounts,          \* fees, prices and extras
    Unset,            \* a column that a body leaves out
    CategoryBodies, RestaurantBodies, DishBodies,  \* what is sent
    Databases,        \* what the tables may hold when the program starts
    Carts,            \* the carts customers send
    Calls,            \* slots for the requests in flight at one time
    MaxMenus          \* bound: the menu is not edited once there have been so many

\* A row is live until its deletedAt is set; Absent stands for one that is not there.
Life == {"live", "deleted"}

Absent == [row |-> "none"]

CategoryRows == [row : Life, slug : Slugs]

RestaurantRows ==
    [row : Life, owner : Users, category : Categories \cup {NoCategory}, fee : Amounts]

\* An extra of 0 stands for a dish without the option.
DishRows == [row : Life, of : Restaurants, price : Amounts, extra : Amounts]

Table(ids, rows) == [ids -> rows \cup {Absent}]

Tables ==
    [category : Table(Categories, CategoryRows),
     restaurant : Table(Restaurants, RestaurantRows),
     dish : Table(Dishes, DishRows)]

\* A line of a cart: a dish, with the one option it may offer or without it.
Lines == [dish : Dishes, option : BOOLEAN]

Maybe(values) == values \cup {Unset}

\* The columns id and row (deletedAt) are declared by no DTO, nor are owner and of:
\* they stand for the columns and for the relations of these names.
ASSUME BodiesAssumption ==
    /\ CategoryBodies \subseteq [id : Maybe(Categories), row : Maybe(Life), slug : Slugs]
    /\ RestaurantBodies \subseteq
           [id : Maybe(Restaurants), row : Maybe(Life), owner : Maybe(Users),
            category : Maybe(Categories \cup {NoCategory}), fee : Maybe(Amounts)]
    /\ DishBodies \subseteq
           [id : Maybe(Dishes), row : Maybe(Life), of : Maybe(Restaurants),
            price : Maybe(Amounts), extra : Maybe(Amounts)]

ASSUME UnsetAssumption ==
    /\ Unset \notin Categories \cup Restaurants \cup Dishes \cup Users
    /\ Unset \notin Amounts /\ Unset \notin Life
    /\ NoCategory \notin Categories \cup {Unset}

ASSUME AmountsAssumption == Amounts \subseteq Nat /\ 0 \in Amounts

ASSUME OwnersAssumption == Owners \subseteq Users

ASSUME CartsAssumption == Carts \subseteq SUBSET Lines

Exists(entry) == entry.row # "none"

Live(entry) == entry.row = "live"

\* The unique index of the slugs, and the foreign key of category_id.
ASSUME DatabasesAssumption ==
    /\ Databases \subseteq Tables
    /\ \A db \in Databases :
          /\ \A j, k \in Categories :
                Exists(db.category[j]) /\ Exists(db.category[k]) /\ j # k =>
                    db.category[j].slug # db.category[k].slug
          /\ \A r \in Restaurants :
                Exists(db.restaurant[r]) /\ db.restaurant[r].category # NoCategory =>
                    Exists(db.category[db.restaurant[r].category])

VARIABLES
    category,    \* category[k] : the row of the category, or Absent
    restaurant,  \* restaurant[r] : the row of the restaurant, or Absent
    dish,        \* dish[d] : the row of the dish, or Absent
    orders,      \* the orders placed: restaurant, cart and quote
    call,        \* call[c] : the request of slot c, or NoCall
    menus        \* history: every menu there has been

vars == <<category, restaurant, dish, orders, call, menus>>

Menus == [restaurant : Table(Restaurants, RestaurantRows), dish : Table(Dishes, DishRows)]

Menu == [restaurant |-> restaurant, dish |-> dish]

\* What an order is charged: the delivery fee and the price of each line.
Quotes == [fee : Amounts, lines : SUBSET [line : Lines, price : Nat]]

\* What a service hands to save(): a column that is Unset is not written, and has
\* its default in a new row.
RestaurantEntities ==
    [row : Maybe(Life), owner : Users, category : Categories \cup {NoCategory}, fee : Amounts]

DishEntities == [row : Maybe(Life), of : Restaurants, price : Amounts, extra : Maybe(Amounts)]

NoCall == [stage |-> "idle"]

\* id is the one of the entity, Unset if a new one is to be made up; base is the row
\* that save() has found under it.
CallRecords ==
         [stage : {"category.checked"}, body : CategoryBodies]
    \cup [stage : {"category.compared"}, body : CategoryBodies, base : CategoryRows \cup {Absent}]
    \cup [stage : {"restaurant.loaded"}, id : Maybe(Restaurants), body : RestaurantBodies,
          entity : RestaurantEntities, base : RestaurantRows \cup {Absent}]
    \cup [stage : {"dish.loaded"}, id : Maybe(Dishes), body : DishBodies, entity : DishEntities]
    \cup [stage : {"dish.compared"}, id : Maybe(Dishes), body : DishBodies, entity : DishEntities,
          base : DishRows \cup {Absent}]
    \cup [stage : {"dish.leaving"}, dish : Dishes]
    \cup [stage : {"order.opened"}, of : Restaurants, cart : Carts, menu : Menus]
    \cup [stage : {"order.priced"}, of : Restaurants, cart : Carts, quote : Quotes]

CatalogueTypeOK ==
    /\ category \in Table(Categories, CategoryRows)
    /\ restaurant \in Table(Restaurants, RestaurantRows)
    /\ dish \in Table(Dishes, DishRows)
    /\ orders \subseteq [of : Restaurants, cart : Carts, quote : Quotes]
    /\ call \in [Calls -> CallRecords \cup {NoCall}]
    /\ menus \subseteq Menus

Init ==
    /\ \E db \in Databases :
          category = db.category /\ restaurant = db.restaurant /\ dish = db.dish
    /\ orders = {}
    /\ call   = [c \in Calls |-> NoCall]
    /\ menus  = {Menu}

-----------------------------------------------------------------------------
Moves(c, record) == call' = [call EXCEPT ![c] = record]

Answers(c) == Moves(c, NoCall)

MenuBound == Cardinality(menus) < MaxMenus

Publishes == menus' = menus \cup {[restaurant |-> restaurant', dish |-> dish']}

\* {...row, ...body}: a field that is sent replaces that of the row.
Sent(field, column) == IF field = Unset THEN column ELSE field

-----------------------------------------------------------------------------
(* save()                                                                  *)

\* The row that is read: none for an entity without an id.
Base(table, id) == IF id = Unset THEN Absent ELSE table[id]

\* Where the row is written: under a new id, if the entity has none.
Targets(table, id) == IF id = Unset THEN {i \in DOMAIN table : ~Exists(table[i])} ELSE {id}

\* An INSERT needs an id that is not taken.
Fits(base, now) == Exists(base) \/ ~Exists(now)

\* Mutant: the entity is compared with nothing, and written whole.
Column_whole(field, base, now) == Sent(field, now)

\* An UPDATE sets the columns in which the entity differs from what was read.
Column(field, base, now) == IF field \in {Unset, base} THEN now ELSE field

CategoryWritten(body, base, now) ==
    IF Exists(base)
    THEN [row |-> Column(body.row, base.row, now.row), slug |-> Column(body.slug, base.slug, now.slug)]
    ELSE [row |-> Sent(body.row, "live"), slug |-> body.slug]

RestaurantWritten(entity, base, now) ==
    IF Exists(base)
    THEN [row      |-> Column(entity.row, base.row, now.row),
          owner    |-> Column(entity.owner, base.owner, now.owner),
          category |-> Column(entity.category, base.category, now.category),
          fee      |-> Column(entity.fee, base.fee, now.fee)]
    ELSE [entity EXCEPT !.row = Sent(@, "live")]

DishWritten(entity, base, now) ==
    IF Exists(base)
    THEN [row   |-> Column(entity.row, base.row, now.row),
          of    |-> Column(entity.of, base.of, now.of),
          price |-> Column(entity.price, base.price, now.price),
          extra |-> Column(entity.extra, base.extra, now.extra)]
    ELSE [entity EXCEPT !.row = Sent(@, "live"), !.extra = Sent(@, 0)]

-----------------------------------------------------------------------------
(* CategoryService.createCategory                                          *)

\* An existing slug means 409.
checkSlug(c, body) ==
    /\ call[c] = NoCall
    /\ \A k \in Categories : Live(category[k]) => category[k].slug # body.slug
    /\ Moves(c, [stage |-> "category.checked", body |-> body])
    /\ UNCHANGED <<category, restaurant, dish, orders, menus>>

compareCategory(c) ==
    /\ call[c].stage = "category.checked"
    /\ LET body == call[c].body
       IN  Moves(c, [stage |-> "category.compared", body |-> body, base |-> Base(category, body.id)])
    /\ UNCHANGED <<category, restaurant, dish, orders, menus>>

\* Mutant: the slug column has no unique index.
AcceptsCategory_noIndex(k, s) == TRUE

\* The unique index, which holds the slugs of deleted rows too.
AcceptsCategory(k, s) == \A j \in Categories \ {k} : Exists(category[j]) => category[j].slug # s

\* A write that an index refuses is a 500.
saveCategory(c) ==
    /\ call[c].stage = "category.compared"
    /\ LET body == call[c].body
           base == call[c].base
       IN  \E k \in Targets(category, body.id) :
               LET row == CategoryWritten(body, base, category[k])
               IN  category' = IF Fits(base, category[k]) /\ AcceptsCategory(k, row.slug)
                               THEN [category EXCEPT ![k] = row] ELSE category
    /\ Answers(c)
    /\ UNCHANGED <<restaurant, dish, orders, menus>>

-----------------------------------------------------------------------------
(* RestaurantService                                                       *)

\* createRestaurant up to its save: the entity is the body with the owner's id and
\* the category, which has to be there.
openRestaurant(c, u, body) ==
    /\ call[c] = NoCall /\ MenuBound
    /\ body.category \in Categories /\ Live(category[body.category])
    /\ body.fee # Unset
    /\ Moves(c, [stage |-> "restaurant.loaded", id |-> body.id, body |-> body,
                 entity |-> [row |-> body.row, owner |-> Sent(body.owner, u),
                             category |-> body.category, fee |-> body.fee],
                 base |-> Base(restaurant, body.id)])
    /\ UNCHANGED <<category, restaurant, dish, orders, menus>>

Owns(u, r) == Live(restaurant[r]) /\ restaurant[r].owner = u

\* updateRestaurant up to its save: the owner's own restaurant, with what was sent
\* over it; the category it names has to be there.
editRestaurant(c, u, r, body) ==
    LET id == Sent(body.id, r)
    IN  /\ call[c] = NoCall /\ MenuBound
        /\ Owns(u, r)
        /\ body.category \in Categories => Live(category[body.category])
        /\ Moves(c, [stage |-> "restaurant.loaded", id |-> id, body |-> body,
                     entity |-> [row      |-> Sent(body.row, restaurant[r].row),
                                 owner    |-> Sent(body.owner, restaurant[r].owner),
                                 category |-> Sent(body.category, restaurant[r].category),
                                 fee      |-> Sent(body.fee, restaurant[r].fee)],
                     base |-> restaurant[id]])
        /\ UNCHANGED <<category, restaurant, dish, orders, menus>>

\* The INSERT or UPDATE of save() and the commit after it: the row stays locked in
\* between.
saveRestaurant(c) ==
    /\ call[c].stage = "restaurant.loaded"
    /\ LET base == call[c].base
       IN  \E r \in Targets(restaurant, call[c].id) :
               restaurant' = IF Fits(base, restaurant[r])
                             THEN [restaurant EXCEPT ![r] = RestaurantWritten(call[c].entity, base, @)]
                             ELSE restaurant
    /\ Answers(c)
    /\ UNCHANGED <<category, dish, orders>>
    /\ Publishes

-----------------------------------------------------------------------------
(* DishService                                                             *)

\* createDish up to its save: a dish for a restaurant of the owner's own.
openDish(c, u, r, body) ==
    /\ call[c] = NoCall /\ MenuBound
    /\ Owns(u, r)
    /\ body.price # Unset
    /\ Moves(c, [stage |-> "dish.loaded", id |-> body.id, body |-> body,
                 entity |-> [row |-> body.row, of |-> Sent(body.of, r),
                             price |-> body.price, extra |-> body.extra]])
    /\ UNCHANGED <<category, restaurant, dish, orders, menus>>

\* Mutant: the find includes deleted rows (withDeleted).
MayChange_deleted(u, d) == Exists(dish[d]) /\ Owns(u, dish[d].of)

\* Both updateDish and deleteDish load a dish that is not deleted, with its
\* restaurant, and compare the owners.
MayChange(u, d) == Live(dish[d]) /\ Owns(u, dish[d].of)

\* {...dish, ...dto}.
Edited(row, body) ==
    [row   |-> Sent(body.row, row.row),
     of    |-> Sent(body.of, row.of),
     price |-> Sent(body.price, row.price),
     extra |-> Sent(body.extra, row.extra)]

\* updateDish up to its save: the entity is the row with what was sent over it.
editDish(c, u, d, body) ==
    /\ call[c] = NoCall /\ MenuBound
    /\ MayChange(u, d)
    /\ Moves(c, [stage |-> "dish.loaded", id |-> Sent(body.id, d), body |-> body,
                 entity |-> Edited(dish[d], body)])
    /\ UNCHANGED <<category, restaurant, dish, orders, menus>>

\* save() reads the row as it is by now, deleted or not.
compareDish(c) ==
    /\ call[c].stage = "dish.loaded"
    /\ Moves(c, [stage |-> "dish.compared", id |-> call[c].id, body |-> call[c].body,
                 entity |-> call[c].entity, base |-> Base(dish, call[c].id)])
    /\ UNCHANGED <<category, restaurant, dish, orders, menus>>

\* One INSERT or UPDATE; the foreign key wants a restaurant, deleted or not.
writeDish(c) ==
    /\ call[c].stage = "dish.compared"
    /\ LET base == call[c].base
       IN  \E d \in Targets(dish, call[c].id) :
               LET row == DishWritten(call[c].entity, base, dish[d])
               IN  dish' = IF Fits(base, dish[d]) /\ Exists(restaurant[row.of])
                           THEN [dish EXCEPT ![d] = row] ELSE dish
    /\ Answers(c)
    /\ UNCHANGED <<category, restaurant, orders>>
    /\ Publishes

openRemoval(c, u, d) ==
    /\ call[c] = NoCall /\ MenuBound
    /\ MayChange(u, d)
    /\ Moves(c, [stage |-> "dish.leaving", dish |-> d])
    /\ UNCHANGED <<category, restaurant, dish, orders, menus>>

softDelete(c) ==
    /\ call[c].stage = "dish.leaving"
    /\ dish' = [dish EXCEPT ![call[c].dish].row = "deleted"]
    /\ Answers(c)
    /\ UNCHANGED <<category, restaurant, orders>>
    /\ Publishes

-----------------------------------------------------------------------------
(* OrderService.createOrder, as far as it depends on the menu.             *)

\* processOrderItem: a chosen option the dish does not offer costs nothing.
ItemPrice(row, line) == row.price + (IF line.option THEN row.extra ELSE 0)

Quote(menu, r, cart) ==
    [fee |-> menu.restaurant[r].fee,
     lines |-> {[line |-> line, price |-> ItemPrice(menu.dish[line.dish], line)] : line \in cart}]

OnMenu(menu, cart) == \A line \in cart : Live(menu.dish[line.dish])

\* The first read, of the restaurant, fixes the snapshot of the transaction.
openOrder(c, r, cart) ==
    /\ call[c] = NoCall
    /\ Live(restaurant[r])
    /\ Moves(c, [stage |-> "order.opened", of |-> r, cart |-> cart, menu |-> Menu])
    /\ UNCHANGED <<category, restaurant, dish, orders, menus>>

\* Mutant: the dishes are read outside the transaction, as they are by now.
DishesRead_late(c) == dish

DishesRead(c) == call[c].menu.dish

\* The dishes are looked up and priced; one that is missing means 404.  A dish
\* may be one of another restaurant: only its id is looked at.
priceOrder(c) ==
    /\ call[c].stage = "order.opened"
    /\ LET cart == call[c].cart
           menu == [restaurant |-> call[c].menu.restaurant, dish |-> DishesRead(c)]
       IN  IF OnMenu(menu, cart)
           THEN Moves(c, [stage |-> "order.priced", of |-> call[c].of, cart |-> cart,
                          quote |-> Quote(menu, call[c].of, cart)])
           ELSE Answers(c)
    /\ UNCHANGED <<category, restaurant, dish, orders, menus>>

\* One save of the order and its items, then the commit.
saveOrder(c) ==
    /\ call[c].stage = "order.priced"
    /\ orders' = orders \cup {[of |-> call[c].of, cart |-> call[c].cart, quote |-> call[c].quote]}
    /\ Answers(c)
    /\ UNCHANGED <<category, restaurant, dish, menus>>

-----------------------------------------------------------------------------
\* The process ends, or a query fails, before the request has answered.
dropCall(c) ==
    /\ call[c] # NoCall
    /\ Answers(c)
    /\ UNCHANGED <<category, restaurant, dish, orders, menus>>

Serve(c) ==
    \/ \E body \in CategoryBodies : checkSlug(c, body)
    \/ compareCategory(c)
    \/ saveCategory(c)
    \/ \E u \in Owners, body \in RestaurantBodies : openRestaurant(c, u, body)
    \/ \E u \in Owners, r \in Restaurants, body \in RestaurantBodies : editRestaurant(c, u, r, body)
    \/ saveRestaurant(c)
    \/ \E u \in Owners, r \in Restaurants, body \in DishBodies : openDish(c, u, r, body)
    \/ \E u \in Owners, d \in Dishes, body \in DishBodies : editDish(c, u, d, body)
    \/ compareDish(c)
    \/ writeDish(c)
    \/ \E u \in Owners, d \in Dishes : openRemoval(c, u, d)
    \/ softDelete(c)
    \/ \E r \in Restaurants, cart \in Carts : openOrder(c, r, cart)
    \/ priceOrder(c)
    \/ saveOrder(c)
    \/ dropCall(c)

Next == \E c \in Calls : Serve(c)

Spec == Init /\ [][Next]_vars

-----------------------------------------------------------------------------
(* Safety.                                                                 *)

\* category.entity.ts: a slug names one category, although several requests
\* may pass the check before one of them saves.
OneCategoryPerSlug ==
    \A j, k \in Categories :
        Exists(category[j]) /\ Exists(category[k]) /\ j # k => category[j].slug # category[k].slug

\* doc/4: an order is charged what the restaurant and its dishes cost at one
\* moment, and none of them was off the menu then, however the owner edits
\* fee, prices and dishes while the order is being placed.
ChargedByOneMenu ==
    \A o \in orders : \E menu \in menus :
        /\ Live(menu.restaurant[o.of])
        /\ OnMenu(menu, o.cart)
        /\ o.quote = Quote(menu, o.of, o.cart)

\* The requests that write restaurant r with this step.
EditsOf(r) == {c \in Calls : call[c].stage = "restaurant.loaded" /\ call[c].id = r /\ call'[c] = NoCall}

\* updateRestaurant: a column of a restaurant, be it the owner, changes only by a
\* request that was sent the new value, or that was sent the id of the restaurant:
\* updates of different columns do not undo each other, although each saves a whole
\* entity it has read before.
OnlySentColumnsChange ==
    [][\A r \in Restaurants, k \in {"row", "owner", "category", "fee"} :
          Exists(restaurant[r]) /\ restaurant'[r][k] # restaurant[r][k] =>
              \E c \in EditsOf(r) :
                  call[c].body[k] = restaurant'[r][k] \/ call[c].body.id = r]_vars

\* The body carries columns that its DTO does not declare.
RestaurantUndeclared(body) == body.id # Unset \/ body.row # Unset \/ body.owner # Unset

DishUndeclared(body) == body.id # Unset \/ body.row # Unset \/ body.of # Unset

\* The rows that requests under way are about to write, from such bodies or from any.
Rebuilt ==
    {r \in Restaurants : \E c \in Calls :
        call[c].stage = "restaurant.loaded" /\ RestaurantUndeclared(call[c].body) /\ call[c].id = r}

Revising ==
    {d \in Dishes : \E c \in Calls :
        call[c].stage \in {"dish.loaded", "dish.compared"} /\ call[c].id = d}

Recast ==
    {d \in Dishes : \E c \in Calls :
        /\ call[c].stage \in {"dish.loaded", "dish.compared"}
        /\ DishUndeclared(call[c].body) /\ call[c].id = d}

\* The menu and the orders obey MenuRecord, whatever is between the reads and the
\* writes: without a column that no DTO declares owners and dishes stay in place and
\* a deleted dish comes back only through an updateDish that loaded it before; orders
\* are charged by one menu and kept.
Record == INSTANCE MenuRecord WITH
            filed <- {k \in Categories : Exists(category[k])},
            rebuilt <- Rebuilt, revising <- Revising, recast <- Recast

ImplementsMenuRecord == Record!Spec
=============================================================================
