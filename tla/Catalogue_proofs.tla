-------------------------- MODULE Catalogue_proofs --------------------------
(***************************************************************************)
(* Proofs about Catalogue for every set of restaurants, dishes, bodies,    *)
(* carts and request slots, for any tables to start from, and for any      *)
(* bound on the number of menus.                                           *)
(***************************************************************************)
EXTENDS Catalogue, TLAPS

\* What an order is charged, it is charged by one of the menus in the set.
Charged(o, all) ==
    \E menu \in all :
        /\ Live(menu.restaurant[o.of])
        /\ OnMenu(menu, o.cart)
        /\ o.quote = Quote(menu, o.of, o.cart)

\* The restaurants a dish has been in while it was on some menu.
Places(d, all) == {menu.dish[d].of : menu \in {m \in all : m.dish[d].row = "live"}}

Revises(r) == r.stage \in {"dish.loaded", "dish.compared"}

\* What a request may rely on: a row that save() has found is still there; a column of
\* an entity was sent, or is that of the row it was made from; and the snapshot of an
\* order is, or was, the menu.
CallOK(r, cats, rests, dishes, all) ==
    /\ r.stage = "category.compared" /\ Exists(r.base) =>
          r.body.id \in Categories /\ Exists(cats[r.body.id])
    /\ r.stage = "restaurant.loaded" =>
          /\ r.entity.category # NoCategory => Exists(cats[r.entity.category])
          /\ Exists(r.base) =>
                /\ r.id \in Restaurants /\ Exists(rests[r.id])
                /\ r.body.id # Unset => r.body.id = r.id
                /\ r.body.id = Unset =>
                      /\ r.entity.row      \in {r.body.row, r.base.row}
                      /\ r.entity.owner    \in {r.body.owner, r.base.owner}
                      /\ r.entity.category \in {r.body.category, r.base.category}
                      /\ r.entity.fee      \in {r.body.fee, r.base.fee}
    /\ Revises(r) /\ ~DishUndeclared(r.body) /\ r.id # Unset =>
          r.entity.row = "live" /\ r.entity.of \in Places(r.id, all)
    /\ r.stage = "dish.compared" /\ Exists(r.base) => r.id \in Dishes /\ Exists(dishes[r.id])
    /\ r.stage = "dish.leaving" => Exists(dishes[r.dish])
    /\ r.stage = "order.opened" => r.menu \in all /\ Live(r.menu.restaurant[r.of])
    /\ r.stage = "order.priced" => Charged(r, all)

Filing(cats, rests) ==
    \A r \in Restaurants :
        Exists(rests[r]) /\ rests[r].category # NoCategory => Exists(cats[rests[r].category])

CatInv ==
    /\ CatalogueTypeOK
    /\ Menu \in menus
    /\ Filing(category, restaurant)
    /\ OneCategoryPerSlug
    /\ \A c \in Calls : CallOK(call[c], category, restaurant, dish, menus)
    /\ \A o \in orders : Charged(o, menus)

\* Rows and menus are only ever added.
Grows ==
    /\ \A k \in Categories : Exists(category[k]) => Exists(category'[k])
    /\ \A r \in Restaurants : Exists(restaurant[r]) => Exists(restaurant'[r])
    /\ \A d \in Dishes : Exists(dish[d]) => Exists(dish'[d])
    /\ menus \subseteq menus'

-----------------------------------------------------------------------------
(* The shapes of rows, requests and quotes.                                *)

LEMMA RowsExist ==
    /\ ~Exists(Absent) /\ ~Live(Absent)
    /\ \A x \in CategoryRows \cup RestaurantRows \cup DishRows : Exists(x)
    /\ \A x : Live(x) => Exists(x)
  BY DEF Exists, Live, Absent, CategoryRows, RestaurantRows, DishRows, Life

LEMMA CallShapes ==
    ASSUME NEW r \in CallRecords \cup {NoCall}
    PROVE  /\ r.stage = "category.checked" => r.body \in CategoryBodies
           /\ r.stage = "category.compared" =>
                 r.body \in CategoryBodies /\ r.base \in CategoryRows \cup {Absent}
           /\ r.stage = "restaurant.loaded" =>
                 /\ r.id \in Maybe(Restaurants) /\ r.body \in RestaurantBodies
                 /\ r.entity \in RestaurantEntities /\ r.base \in RestaurantRows \cup {Absent}
           /\ Revises(r) =>
                 r.id \in Maybe(Dishes) /\ r.body \in DishBodies /\ r.entity \in DishEntities
           /\ r.stage = "dish.compared" => r.base \in DishRows \cup {Absent}
           /\ r.stage = "dish.leaving" => r.dish \in Dishes
           /\ r.stage = "order.opened" =>
                 r.of \in Restaurants /\ r.cart \in Carts /\ r.menu \in Menus
           /\ r.stage = "order.priced" =>
                 r.of \in Restaurants /\ r.cart \in Carts /\ r.quote \in Quotes
  BY DEF CallRecords, NoCall, Revises

LEMMA BodyShapes ==
    /\ \A b \in CategoryBodies : b.id \in Maybe(Categories) /\ b.row \in Maybe(Life) /\ b.slug \in Slugs
    /\ \A b \in RestaurantBodies :
          /\ b.id \in Maybe(Restaurants) /\ b.row \in Maybe(Life) /\ b.owner \in Maybe(Users)
          /\ b.category \in Maybe(Categories \cup {NoCategory}) /\ b.fee \in Maybe(Amounts)
    /\ \A b \in DishBodies :
          /\ b.id \in Maybe(Dishes) /\ b.row \in Maybe(Life) /\ b.of \in Maybe(Restaurants)
          /\ b.price \in Maybe(Amounts) /\ b.extra \in Maybe(Amounts)
<1>1. ASSUME NEW b \in CategoryBodies
      PROVE  b.id \in Maybe(Categories) /\ b.row \in Maybe(Life) /\ b.slug \in Slugs
  <2>1. b \in [id : Maybe(Categories), row : Maybe(Life), slug : Slugs]
    BY BodiesAssumption
  <2>. QED  BY <2>1
<1>2. ASSUME NEW b \in RestaurantBodies
      PROVE  /\ b.id \in Maybe(Restaurants) /\ b.row \in Maybe(Life) /\ b.owner \in Maybe(Users)
             /\ b.category \in Maybe(Categories \cup {NoCategory}) /\ b.fee \in Maybe(Amounts)
  <2>1. b \in [id : Maybe(Restaurants), row : Maybe(Life), owner : Maybe(Users),
               category : Maybe(Categories \cup {NoCategory}), fee : Maybe(Amounts)]
    BY BodiesAssumption
  <2>. QED  BY <2>1
<1>3. ASSUME NEW b \in DishBodies
      PROVE  /\ b.id \in Maybe(Dishes) /\ b.row \in Maybe(Life) /\ b.of \in Maybe(Restaurants)
             /\ b.price \in Maybe(Amounts) /\ b.extra \in Maybe(Amounts)
  <2>1. b \in [id : Maybe(Dishes), row : Maybe(Life), of : Maybe(Restaurants),
               price : Maybe(Amounts), extra : Maybe(Amounts)]
    BY BodiesAssumption
  <2>. QED  BY <2>1
<1>. QED  BY <1>1, <1>2, <1>3

LEMMA RowShapes ==
    /\ \A x \in CategoryRows \cup {Absent} : Exists(x) => x \in CategoryRows
    /\ \A x \in RestaurantRows \cup {Absent} : Exists(x) => x \in RestaurantRows
    /\ \A x \in DishRows \cup {Absent} : Exists(x) => x \in DishRows
  BY RowsExist

\* What save() writes is a row.
LEMMA WrittenRows ==
    /\ \A body \in CategoryBodies, base \in CategoryRows \cup {Absent}, now \in CategoryRows \cup {Absent} :
          (Exists(base) => Exists(now)) => CategoryWritten(body, base, now) \in CategoryRows
    /\ \A entity \in RestaurantEntities, base \in RestaurantRows \cup {Absent},
          now \in RestaurantRows \cup {Absent} :
          (Exists(base) => Exists(now)) => RestaurantWritten(entity, base, now) \in RestaurantRows
    /\ \A entity \in DishEntities, base \in DishRows \cup {Absent}, now \in DishRows \cup {Absent} :
          (Exists(base) => Exists(now)) => DishWritten(entity, base, now) \in DishRows
<1>1. ASSUME NEW body \in CategoryBodies, NEW base, NEW now \in CategoryRows \cup {Absent},
             Exists(base) => Exists(now)
      PROVE  CategoryWritten(body, base, now) \in CategoryRows
  <2>1. body.row \in Maybe(Life) /\ body.slug \in Slugs
    BY BodyShapes
  <2>2. CASE Exists(base)
    <3>1. now.row \in Life /\ now.slug \in Slugs
      BY <1>1, <2>2, RowShapes DEF CategoryRows
    <3>. QED  BY <2>1, <2>2, <3>1 DEF CategoryWritten, CategoryRows, Column, Maybe
  <2>3. CASE ~Exists(base)
    BY <2>1, <2>3 DEF CategoryWritten, CategoryRows, Sent, Maybe, Life
  <2>. QED  BY <2>2, <2>3
<1>2. ASSUME NEW entity \in RestaurantEntities, NEW base, NEW now \in RestaurantRows \cup {Absent},
             Exists(base) => Exists(now)
      PROVE  RestaurantWritten(entity, base, now) \in RestaurantRows
  <2>1. CASE Exists(base)
    <3>1. now \in RestaurantRows
      BY <1>2, <2>1, RowShapes
    <3>. QED  BY <2>1, <3>1 DEF RestaurantWritten, RestaurantRows, RestaurantEntities, Column, Maybe
  <2>2. CASE ~Exists(base)
    BY <2>2 DEF RestaurantWritten, RestaurantRows, RestaurantEntities, Sent, Maybe, Life
  <2>. QED  BY <2>1, <2>2
<1>3. ASSUME NEW entity \in DishEntities, NEW base, NEW now \in DishRows \cup {Absent},
             Exists(base) => Exists(now)
      PROVE  DishWritten(entity, base, now) \in DishRows
  <2>1. CASE Exists(base)
    <3>1. now \in DishRows
      BY <1>3, <2>1, RowShapes
    <3>. QED  BY <2>1, <3>1 DEF DishWritten, DishRows, DishEntities, Column, Maybe
  <2>2. CASE ~Exists(base)
    BY <2>2, AmountsAssumption DEF DishWritten, DishRows, DishEntities, Sent, Maybe, Life
  <2>. QED  BY <2>1, <2>2
<1>. QED  BY <1>1, <1>2, <1>3

LEMMA QuoteType ==
    ASSUME NEW menu \in Menus, NEW r \in Restaurants, NEW cart \in Carts,
           Live(menu.restaurant[r]), OnMenu(menu, cart)
    PROVE  Quote(menu, r, cart) \in Quotes
<1>1. menu.restaurant[r].fee \in Amounts
  <2>1. menu.restaurant[r] \in RestaurantRows \cup {Absent}
    BY DEF Menus, Table
  <2>2. menu.restaurant[r] \in RestaurantRows
    BY <2>1, RowsExist
  <2>. QED  BY <2>2 DEF RestaurantRows
<1>2. ASSUME NEW line \in cart
      PROVE  [line |-> line, price |-> ItemPrice(menu.dish[line.dish], line)]
                \in [line : Lines, price : Nat]
  <2>1. line \in Lines /\ line.dish \in Dishes
    BY CartsAssumption DEF Lines
  <2>2. menu.dish[line.dish] \in DishRows
    <3>1. menu.dish[line.dish] \in DishRows \cup {Absent}
      BY <2>1 DEF Menus, Table
    <3>. QED  BY <3>1, RowsExist DEF OnMenu
  <2>3. menu.dish[line.dish].price \in Nat /\ menu.dish[line.dish].extra \in Nat
    <3>1. menu.dish[line.dish].price \in Amounts /\ menu.dish[line.dish].extra \in Amounts
      BY <2>2 DEF DishRows
    <3>. QED  BY <3>1, AmountsAssumption
  <2>. QED  BY <2>1, <2>3 DEF ItemPrice
<1>. QED  BY <1>1, <1>2 DEF Quote, Quotes

-----------------------------------------------------------------------------
(* Menus are only ever added, and what was charged by one stays so.        *)

LEMMA ChargedLasts ==
    ASSUME NEW o, NEW all, NEW more, all \subseteq more, Charged(o, all)
    PROVE  Charged(o, more)
  BY DEF Charged

LEMMA PlacesLast ==
    ASSUME NEW d, NEW all, NEW more, all \subseteq more
    PROVE  Places(d, all) \subseteq Places(d, more)
  BY DEF Places

\* What a request relies on stays true while rows and menus are added.
LEMMA CallLasts ==
    ASSUME CatInv, Grows, NEW c \in Calls
    PROVE  CallOK(call[c], category', restaurant', dish', menus')
<1> DEFINE r == call[c]
<1>1. r \in CallRecords \cup {NoCall} /\ CallOK(r, category, restaurant, dish, menus)
  BY DEF CatInv, CatalogueTypeOK
<1>2. r.stage = "restaurant.loaded" => r.entity.category \in Categories \cup {NoCategory}
  BY <1>1, CallShapes DEF RestaurantEntities
<1>3. r.stage = "dish.leaving" => r.dish \in Dishes
  BY <1>1, CallShapes
<1>4. r.stage = "order.priced" => Charged(r, menus')
  <2> HIDE DEF r
  <2>. QED  BY <1>1, ChargedLasts DEF Grows, CallOK
<1>5. Places(r.id, menus) \subseteq Places(r.id, menus')
  BY PlacesLast DEF Grows
<1> HIDE DEF r
<1>6. CallOK(r, category', restaurant', dish', menus')
  BY <1>1, <1>2, <1>3, <1>4, <1>5 DEF CallOK, Grows
<1>. QED  BY <1>6 DEF r

\* A step moves the request of slot c on to r, adds rows and menus, and no more.
LEMMA Step ==
    ASSUME CatInv, Grows, NEW c \in Calls, NEW r \in CallRecords \cup {NoCall}, Moves(c, r),
           CallOK(r, category', restaurant', dish', menus'),
           category' \in Table(Categories, CategoryRows),
           restaurant' \in Table(Restaurants, RestaurantRows),
           dish' \in Table(Dishes, DishRows),
           Menu' \in menus', menus' \subseteq Menus,
           Filing(category', restaurant'), OneCategoryPerSlug',
           orders' \subseteq [of : Restaurants, cart : Carts, quote : Quotes],
           \A o \in orders' : o \in orders \/ Charged(o, menus')
    PROVE  CatInv'
<1>1. call' \in [Calls -> CallRecords \cup {NoCall}]
  BY DEF CatInv, CatalogueTypeOK, Moves
<1>2. \A d \in Calls : CallOK(call'[d], category', restaurant', dish', menus')
  <2> SUFFICES ASSUME NEW d \in Calls PROVE CallOK(call'[d], category', restaurant', dish', menus')
      OBVIOUS
  <2>1. call'[d] = call[d] \/ call'[d] = r
    BY DEF CatInv, CatalogueTypeOK, Moves
  <2>. QED  BY <2>1, CallLasts
<1>3. \A o \in orders' : Charged(o, menus')
  BY ChargedLasts DEF CatInv, Grows
<1>. QED  BY <1>1, <1>2, <1>3 DEF CatInv, CatalogueTypeOK

\* One that only moves the request.
LEMMA QuietStep ==
    ASSUME CatInv, NEW c \in Calls, UNCHANGED <<category, restaurant, dish, menus>>,
           NEW r \in CallRecords \cup {NoCall}, Moves(c, r),
           CallOK(r, category, restaurant, dish, menus),
           orders' \subseteq [of : Restaurants, cart : Carts, quote : Quotes],
           \A o \in orders' : o \in orders \/ Charged(o, menus)
    PROVE  CatInv'
<1>1. Grows /\ Menu' = Menu
  BY DEF Grows, Menu
<1>2. (OneCategoryPerSlug' <=> OneCategoryPerSlug)
  BY DEF OneCategoryPerSlug
<1>. QED  BY <1>1, <1>2, Step DEF CatInv, CatalogueTypeOK

LEMMA NoCallOK == \A cats, rests, dishes, all : CallOK(NoCall, cats, rests, dishes, all)
  BY DEF CallOK, NoCall, Revises

\* One that ends the request of slot c with a menu that may be a new one.
LEMMA EditStep ==
    ASSUME CatInv, NEW c \in Calls, Answers(c), UNCHANGED <<category, orders>>, Publishes,
           restaurant' \in Table(Restaurants, RestaurantRows),
           dish' \in Table(Dishes, DishRows),
           \A r \in Restaurants : Exists(restaurant[r]) => Exists(restaurant'[r]),
           \A d \in Dishes : Exists(dish[d]) => Exists(dish'[d]),
           Filing(category, restaurant')
    PROVE  CatInv'
<1>1. Grows /\ Menu' \in menus'
  BY DEF Grows, Publishes, Menu
<1>2. menus' \subseteq Menus
  BY DEF CatInv, CatalogueTypeOK, Publishes, Menus
<1>3. OneCategoryPerSlug'
  BY DEF CatInv, OneCategoryPerSlug
<1>. QED  BY <1>1, <1>2, <1>3, NoCallOK, Step DEF CatInv, CatalogueTypeOK, Answers

-----------------------------------------------------------------------------
(* The rows that save() writes to.                                         *)

LEMMA SavesCategory ==
    ASSUME CatInv, NEW c \in Calls, saveCategory(c)
    PROVE  \E k \in Categories :
              LET row == CategoryWritten(call[c].body, call[c].base, category[k])
              IN  /\ row \in CategoryRows
                  /\ category' = IF Fits(call[c].base, category[k]) /\ AcceptsCategory(k, row.slug)
                                 THEN [category EXCEPT ![k] = row] ELSE category
<1>1. /\ call[c].stage = "category.compared"
      /\ call[c].body \in CategoryBodies /\ call[c].base \in CategoryRows \cup {Absent}
      /\ Exists(call[c].base) => call[c].body.id \in Categories /\ Exists(category[call[c].body.id])
  BY CallShapes DEF saveCategory, CatInv, CatalogueTypeOK, CallOK
<1>2. PICK k \in Targets(category, call[c].body.id) :
          LET row == CategoryWritten(call[c].body, call[c].base, category[k])
          IN  category' = IF Fits(call[c].base, category[k]) /\ AcceptsCategory(k, row.slug)
                          THEN [category EXCEPT ![k] = row] ELSE category
  BY DEF saveCategory
<1>3. call[c].body.id \in Maybe(Categories)
  BY <1>1, BodyShapes
<1>4. k \in Categories /\ (Exists(call[c].base) => k = call[c].body.id)
  BY <1>1, <1>2, <1>3, UnsetAssumption DEF Targets, Maybe, CatInv, CatalogueTypeOK, Table
<1>5. category[k] \in CategoryRows \cup {Absent}
  BY <1>4 DEF CatInv, CatalogueTypeOK, Table
<1>6. CategoryWritten(call[c].body, call[c].base, category[k]) \in CategoryRows
  BY <1>1, <1>4, <1>5, WrittenRows
<1>. QED  BY <1>2, <1>4, <1>6

LEMMA SavesRestaurant ==
    ASSUME CatInv, NEW c \in Calls, saveRestaurant(c)
    PROVE  \E r \in Restaurants :
              LET row == RestaurantWritten(call[c].entity, call[c].base, restaurant[r])
              IN  /\ row \in RestaurantRows
                  /\ Exists(call[c].base) => r = call[c].id /\ Exists(restaurant[r])
                  /\ call[c].id # Unset => r = call[c].id
                  /\ restaurant' = IF Fits(call[c].base, restaurant[r])
                                   THEN [restaurant EXCEPT ![r] = row] ELSE restaurant
<1>1. /\ call[c].stage = "restaurant.loaded" /\ call[c].id \in Maybe(Restaurants)
      /\ call[c].entity \in RestaurantEntities /\ call[c].base \in RestaurantRows \cup {Absent}
      /\ Exists(call[c].base) => call[c].id \in Restaurants /\ Exists(restaurant[call[c].id])
  BY CallShapes DEF saveRestaurant, CatInv, CatalogueTypeOK, CallOK
<1>2. PICK r \in Targets(restaurant, call[c].id) :
          restaurant' = IF Fits(call[c].base, restaurant[r])
                        THEN [restaurant EXCEPT ![r] =
                                 RestaurantWritten(call[c].entity, call[c].base, restaurant[r])]
                        ELSE restaurant
  BY DEF saveRestaurant
<1>3. /\ r \in Restaurants
      /\ call[c].id # Unset => r = call[c].id
      /\ Exists(call[c].base) => r = call[c].id
  BY <1>1, <1>2, UnsetAssumption DEF Targets, Maybe, CatInv, CatalogueTypeOK, Table
<1>4. restaurant[r] \in RestaurantRows \cup {Absent}
  BY <1>3 DEF CatInv, CatalogueTypeOK, Table
<1>5. RestaurantWritten(call[c].entity, call[c].base, restaurant[r]) \in RestaurantRows
  BY <1>1, <1>3, <1>4, WrittenRows
<1>. QED  BY <1>1, <1>2, <1>3, <1>5

LEMMA SavesDish ==
    ASSUME CatInv, NEW c \in Calls, writeDish(c)
    PROVE  \E d \in Dishes :
              LET row == DishWritten(call[c].entity, call[c].base, dish[d])
              IN  /\ row \in DishRows
                  /\ Exists(call[c].base) => d = call[c].id /\ Exists(dish[d])
                  /\ dish' = IF Fits(call[c].base, dish[d]) /\ Exists(restaurant[row.of])
                             THEN [dish EXCEPT ![d] = row] ELSE dish
<1>1. /\ call[c].stage = "dish.compared" /\ call[c].id \in Maybe(Dishes)
      /\ call[c].entity \in DishEntities /\ call[c].base \in DishRows \cup {Absent}
      /\ Exists(call[c].base) => call[c].id \in Dishes /\ Exists(dish[call[c].id])
  BY CallShapes DEF writeDish, CatInv, CatalogueTypeOK, CallOK, Revises
<1>2. PICK d \in Targets(dish, call[c].id) :
          LET row == DishWritten(call[c].entity, call[c].base, dish[d])
          IN  dish' = IF Fits(call[c].base, dish[d]) /\ Exists(restaurant[row.of])
                      THEN [dish EXCEPT ![d] = row] ELSE dish
  BY DEF writeDish
<1>3. d \in Dishes /\ (Exists(call[c].base) => d = call[c].id)
  BY <1>1, <1>2, UnsetAssumption DEF Targets, Maybe, CatInv, CatalogueTypeOK, Table
<1>4. dish[d] \in DishRows \cup {Absent}
  BY <1>3 DEF CatInv, CatalogueTypeOK, Table
<1>5. DishWritten(call[c].entity, call[c].base, dish[d]) \in DishRows
  BY <1>1, <1>3, <1>4, WrittenRows
<1>. QED  BY <1>1, <1>2, <1>3, <1>5

-----------------------------------------------------------------------------
(* The actions keep the invariant.                                         *)

LEMMA CategorySteps ==
    ASSUME CatInv, NEW c \in Calls,
           \/ saveCategory(c)
           \/ compareCategory(c)
           \/ \E body \in CategoryBodies : checkSlug(c, body)
    PROVE  CatInv'
<1>1. CASE saveCategory(c)
  <2> DEFINE row(k) == CategoryWritten(call[c].body, call[c].base, category[k])
  <2>1. PICK k \in Categories :
            /\ row(k) \in CategoryRows
            /\ category' = IF Fits(call[c].base, category[k]) /\ AcceptsCategory(k, row(k).slug)
                           THEN [category EXCEPT ![k] = row(k)] ELSE category
    BY <1>1, SavesCategory
  <2> HIDE DEF row
  <2>2. category' \in Table(Categories, CategoryRows)
    BY <2>1 DEF CatInv, CatalogueTypeOK, Table
  <2>3. \A j \in Categories : Exists(category[j]) => Exists(category'[j])
    BY <2>1, RowsExist DEF CatInv, CatalogueTypeOK, Table
  <2>4. OneCategoryPerSlug'
    <3>1. CASE category' = category
      BY <3>1 DEF CatInv, OneCategoryPerSlug
    <3>2. CASE category' = [category EXCEPT ![k] = row(k)] /\ AcceptsCategory(k, row(k).slug)
      <4>1. category'[k] = row(k) /\ \A j \in Categories \ {k} : category'[j] = category[j]
        BY <3>2 DEF CatInv, CatalogueTypeOK, Table
      <4>. QED  BY <3>2, <4>1 DEF CatInv, OneCategoryPerSlug, AcceptsCategory
    <3>. QED  BY <2>1, <3>1, <3>2
  <2>5. Grows /\ Menu' = Menu
    BY <1>1, <2>3 DEF Grows, saveCategory, Menu
  <2>6. Filing(category', restaurant')
    <3>1. \A r \in Restaurants : Exists(restaurant[r]) =>
              restaurant[r].category \in Categories \cup {NoCategory}
      BY RowShapes DEF CatInv, CatalogueTypeOK, Table, RestaurantRows
    <3>. QED  BY <1>1, <2>3, <3>1 DEF CatInv, Filing, saveCategory
  <2>7. Moves(c, NoCall)
    BY <1>1 DEF saveCategory, Answers
  <2>. QED  BY <1>1, <2>2, <2>4, <2>5, <2>6, <2>7, NoCallOK, Step
            DEF saveCategory, CatInv, CatalogueTypeOK
<1>2. CASE compareCategory(c)
  <2> DEFINE r == [stage |-> "category.compared", body |-> call[c].body,
                   base |-> Base(category, call[c].body.id)]
  <2>1. call[c].body \in CategoryBodies /\ call[c].body.id \in Maybe(Categories)
    BY <1>2, CallShapes, BodyShapes DEF compareCategory, CatInv, CatalogueTypeOK
  <2>2. Base(category, call[c].body.id) \in CategoryRows \cup {Absent}
    BY <2>1 DEF Base, Maybe, CatInv, CatalogueTypeOK, Table
  <2>3. r \in CallRecords
    BY <2>1, <2>2 DEF CallRecords
  <2>4. CallOK(r, category, restaurant, dish, menus)
    BY <2>1, RowsExist DEF CallOK, Base, Maybe, Revises
  <2>5. Moves(c, r)
    BY <1>2 DEF compareCategory
  <2> HIDE DEF r
  <2>. QED  BY <1>2, <2>3, <2>4, <2>5, QuietStep DEF compareCategory, CatInv, CatalogueTypeOK
<1>3. ASSUME NEW body \in CategoryBodies, checkSlug(c, body) PROVE CatInv'
  <2> DEFINE r == [stage |-> "category.checked", body |-> body]
  <2>1. r \in CallRecords /\ CallOK(r, category, restaurant, dish, menus)
    BY DEF CallRecords, CallOK, Revises
  <2>. QED  BY <1>3, <2>1, QuietStep DEF checkSlug, CatInv, CatalogueTypeOK
<1>. QED  BY <1>1, <1>2, <1>3

\* The row, the owner and the category of what updateRestaurant and createRestaurant
\* hand to save().
LEMMA RestaurantSteps ==
    ASSUME CatInv, NEW c \in Calls,
           \/ saveRestaurant(c)
           \/ \E u \in Owners, body \in RestaurantBodies : openRestaurant(c, u, body)
           \/ \E u \in Owners, r \in Restaurants, body \in RestaurantBodies : editRestaurant(c, u, r, body)
    PROVE  CatInv'
<1>1. CASE saveRestaurant(c)
  <2> DEFINE row(r) == RestaurantWritten(call[c].entity, call[c].base, restaurant[r])
  <2>1. PICK r \in Restaurants :
            /\ row(r) \in RestaurantRows
            /\ Exists(call[c].base) => r = call[c].id /\ Exists(restaurant[r])
            /\ restaurant' = IF Fits(call[c].base, restaurant[r])
                             THEN [restaurant EXCEPT ![r] = row(r)] ELSE restaurant
    BY <1>1, SavesRestaurant
  <2>2. row(r).category # NoCategory => Exists(category[row(r).category])
    <3>1. call[c].entity.category # NoCategory => Exists(category[call[c].entity.category])
      BY <1>1 DEF saveRestaurant, CatInv, CallOK
    <3>2. Exists(call[c].base) /\ restaurant[r].category # NoCategory =>
              Exists(category[restaurant[r].category])
      BY <2>1 DEF CatInv, Filing
    <3>3. CASE Exists(call[c].base)
      BY <3>1, <3>2, <3>3 DEF RestaurantWritten, Column
    <3>4. CASE ~Exists(call[c].base)
      <4>1. call[c].entity \in RestaurantEntities
        BY <1>1, CallShapes DEF saveRestaurant, CatInv, CatalogueTypeOK
      <4>. QED  BY <3>1, <3>4, <4>1 DEF RestaurantWritten, RestaurantEntities
    <3>. QED  BY <3>3, <3>4
  <2> HIDE DEF row
  <2>3. restaurant' \in Table(Restaurants, RestaurantRows)
    BY <2>1 DEF CatInv, CatalogueTypeOK, Table
  <2>4. \A q \in Restaurants : Exists(restaurant[q]) => Exists(restaurant'[q])
    BY <2>1, RowsExist DEF CatInv, CatalogueTypeOK, Table
  <2>5. Filing(category, restaurant')
    BY <2>1, <2>2 DEF CatInv, CatalogueTypeOK, Table, Filing
  <2>. QED  BY <1>1, <2>3, <2>4, <2>5, EditStep DEF saveRestaurant, CatInv, CatalogueTypeOK
<1>2. ASSUME NEW u \in Owners, NEW body \in RestaurantBodies, openRestaurant(c, u, body) PROVE CatInv'
  <2> DEFINE entity == [row |-> body.row, owner |-> Sent(body.owner, u),
                        category |-> body.category, fee |-> body.fee]
             base == Base(restaurant, body.id)
             x == [stage |-> "restaurant.loaded", id |-> body.id, body |-> body,
                   entity |-> entity, base |-> base]
  <2>1. /\ body.id \in Maybe(Restaurants) /\ body.row \in Maybe(Life) /\ body.owner \in Maybe(Users)
        /\ body.fee \in Maybe(Amounts)
    BY BodyShapes
  <2>2. entity \in RestaurantEntities
    BY <1>2, <2>1, OwnersAssumption DEF openRestaurant, RestaurantEntities, Sent, Maybe
  <2>3. base \in RestaurantRows \cup {Absent}
    BY <2>1 DEF Base, Maybe, CatInv, CatalogueTypeOK, Table
  <2>4. x \in CallRecords
    <3> HIDE DEF entity, base
    <3>. QED  BY <2>1, <2>2, <2>3 DEF CallRecords
  <2>5. Exists(base) => body.id \in Restaurants /\ Exists(restaurant[body.id]) /\ body.id # Unset
    BY <2>1, RowsExist DEF Base, Maybe
  <2>6. Exists(category[entity.category])
    BY <1>2, RowsExist DEF openRestaurant
  <2>7. CallOK(x, category, restaurant, dish, menus)
    BY <2>5, <2>6 DEF CallOK, Revises
  <2>8. Moves(c, x)
    BY <1>2 DEF openRestaurant
  <2> HIDE DEF x
  <2>. QED  BY <1>2, <2>4, <2>7, <2>8, QuietStep DEF openRestaurant, CatInv, CatalogueTypeOK
<1>3. ASSUME NEW u \in Owners, NEW r \in Restaurants, NEW body \in RestaurantBodies,
             editRestaurant(c, u, r, body)
      PROVE  CatInv'
  <2> DEFINE id == Sent(body.id, r)
             entity == [row      |-> Sent(body.row, restaurant[r].row),
                        owner    |-> Sent(body.owner, restaurant[r].owner),
                        category |-> Sent(body.category, restaurant[r].category),
                        fee      |-> Sent(body.fee, restaurant[r].fee)]
             x == [stage |-> "restaurant.loaded", id |-> id, body |-> body,
                   entity |-> entity, base |-> restaurant[id]]
  <2>1. /\ body.id \in Maybe(Restaurants) /\ body.row \in Maybe(Life) /\ body.owner \in Maybe(Users)
        /\ body.category \in Maybe(Categories \cup {NoCategory}) /\ body.fee \in Maybe(Amounts)
    BY BodyShapes
  <2>2. restaurant[r] \in RestaurantRows
    BY <1>3, RowsExist DEF editRestaurant, Owns, CatInv, CatalogueTypeOK, Table
  <2>3. id \in Restaurants
    BY <2>1 DEF Sent, Maybe
  <2>4. entity \in RestaurantEntities
    BY <2>1, <2>2 DEF RestaurantEntities, RestaurantRows, Sent, Maybe
  <2>5. restaurant[id] \in RestaurantRows \cup {Absent}
    BY <2>3 DEF CatInv, CatalogueTypeOK, Table
  <2>6. x \in CallRecords
    <3> HIDE DEF entity, id
    <3>. QED  BY <2>3, <2>4, <2>5 DEF CallRecords, Maybe
  <2>7. entity.category # NoCategory => Exists(category[entity.category])
    BY <1>3, <2>1, <2>2, RowsExist DEF editRestaurant, Sent, Maybe, CatInv, Filing
  <2>8. /\ body.id # Unset => body.id = id
        /\ body.id = Unset =>
              /\ entity.row      \in {body.row, restaurant[id].row}
              /\ entity.owner    \in {body.owner, restaurant[id].owner}
              /\ entity.category \in {body.category, restaurant[id].category}
              /\ entity.fee      \in {body.fee, restaurant[id].fee}
    BY DEF Sent
  <2>9. CallOK(x, category, restaurant, dish, menus)
    <3> HIDE DEF entity, id
    <3>. QED  BY <2>3, <2>7, <2>8 DEF CallOK, Revises
  <2>10. Moves(c, x)
    BY <1>3 DEF editRestaurant
  <2> HIDE DEF x
  <2>. QED  BY <1>3, <2>6, <2>9, <2>10, QuietStep DEF editRestaurant, CatInv, CatalogueTypeOK
<1>. QED  BY <1>1, <1>2, <1>3

LEMMA DishSteps ==
    ASSUME CatInv, NEW c \in Calls,
           \/ compareDish(c)
           \/ writeDish(c)
           \/ softDelete(c)
           \/ \E u \in Owners, d \in Dishes : openRemoval(c, u, d)
           \/ \E u \in Owners, r \in Restaurants, body \in DishBodies : openDish(c, u, r, body)
           \/ \E u \in Owners, d \in Dishes, body \in DishBodies : editDish(c, u, d, body)
    PROVE  CatInv'
<1>1. CASE writeDish(c)
  <2> DEFINE row(d) == DishWritten(call[c].entity, call[c].base, dish[d])
  <2>1. PICK d \in Dishes :
            /\ row(d) \in DishRows
            /\ dish' = IF Fits(call[c].base, dish[d]) /\ Exists(restaurant[row(d).of])
                       THEN [dish EXCEPT ![d] = row(d)] ELSE dish
    BY <1>1, SavesDish
  <2> HIDE DEF row
  <2>2. dish' \in Table(Dishes, DishRows)
    BY <2>1 DEF CatInv, CatalogueTypeOK, Table
  <2>3. \A e \in Dishes : Exists(dish[e]) => Exists(dish'[e])
    BY <2>1, RowsExist DEF CatInv, CatalogueTypeOK, Table
  <2>. QED  BY <1>1, <2>2, <2>3, EditStep DEF writeDish, CatInv, CatalogueTypeOK
<1>2. CASE softDelete(c)
  <2>1. call[c].dish \in Dishes /\ Exists(dish[call[c].dish])
    BY <1>2, CallShapes DEF softDelete, CatInv, CatalogueTypeOK, CallOK
  <2>2. dish[call[c].dish] \in DishRows
    BY <2>1, RowShapes DEF CatInv, CatalogueTypeOK, Table
  <2>3. [dish[call[c].dish] EXCEPT !.row = "deleted"] \in DishRows
    BY <2>2 DEF DishRows, Life
  <2>4. dish' \in Table(Dishes, DishRows) /\ \A e \in Dishes : Exists(dish[e]) => Exists(dish'[e])
    BY <1>2, <2>1, <2>3, RowsExist DEF softDelete, CatInv, CatalogueTypeOK, Table
  <2>. QED  BY <1>2, <2>4, EditStep DEF softDelete, CatInv, CatalogueTypeOK
<1>3. ASSUME NEW u \in Owners, NEW d \in Dishes, openRemoval(c, u, d) PROVE CatInv'
  <2> DEFINE x == [stage |-> "dish.leaving", dish |-> d]
  <2>1. x \in CallRecords
    BY DEF CallRecords
  <2>2. CallOK(x, category, restaurant, dish, menus)
    BY <1>3, RowsExist DEF CallOK, openRemoval, MayChange, Revises
  <2>. QED  BY <1>3, <2>1, <2>2, QuietStep DEF openRemoval, CatInv, CatalogueTypeOK
<1>4. ASSUME NEW u \in Owners, NEW r \in Restaurants, NEW body \in DishBodies, openDish(c, u, r, body)
      PROVE  CatInv'
  <2> DEFINE entity == [row |-> body.row, of |-> Sent(body.of, r), price |-> body.price, extra |-> body.extra]
             x == [stage |-> "dish.loaded", id |-> body.id, body |-> body, entity |-> entity]
  <2>1. /\ body.id \in Maybe(Dishes) /\ body.row \in Maybe(Life) /\ body.of \in Maybe(Restaurants)
        /\ body.price \in Maybe(Amounts) /\ body.extra \in Maybe(Amounts)
    BY BodyShapes
  <2>2. entity \in DishEntities
    BY <1>4, <2>1 DEF openDish, DishEntities, Sent, Maybe
  <2>3. x \in CallRecords
    <3> HIDE DEF entity
    <3>. QED  BY <2>1, <2>2 DEF CallRecords
  <2>4. CallOK(x, category, restaurant, dish, menus)
    BY DEF CallOK, DishUndeclared, Revises
  <2>5. Moves(c, x)
    BY <1>4 DEF openDish
  <2> HIDE DEF x
  <2>. QED  BY <1>4, <2>3, <2>4, <2>5, QuietStep DEF openDish, CatInv, CatalogueTypeOK
<1>5. ASSUME NEW u \in Owners, NEW d \in Dishes, NEW body \in DishBodies, editDish(c, u, d, body)
      PROVE  CatInv'
  <2> DEFINE entity == Edited(dish[d], body)
             x == [stage |-> "dish.loaded", id |-> Sent(body.id, d), body |-> body, entity |-> entity]
  <2>1. /\ body.id \in Maybe(Dishes) /\ body.row \in Maybe(Life) /\ body.of \in Maybe(Restaurants)
        /\ body.price \in Maybe(Amounts) /\ body.extra \in Maybe(Amounts)
    BY BodyShapes
  <2>2. dish[d] \in DishRows /\ dish[d].row = "live"
    BY <1>5, RowsExist DEF editDish, MayChange, CatInv, CatalogueTypeOK, Table, Live
  <2>3. entity \in DishEntities
    BY <2>1, <2>2 DEF DishEntities, DishRows, Edited, Sent, Maybe
  <2>4. Sent(body.id, d) \in Maybe(Dishes)
    BY <2>1 DEF Sent, Maybe
  <2>5. x \in CallRecords
    <3> HIDE DEF entity
    <3>. QED  BY <2>3, <2>4 DEF CallRecords
  <2>6. dish[d].of \in Places(d, menus)
    <3>1. Menu \in menus /\ Menu.dish[d].row = "live" /\ Menu.dish[d].of = dish[d].of
      BY <2>2 DEF CatInv, Menu
    <3>. QED  BY <3>1 DEF Places
  <2>7. ~DishUndeclared(body) =>
            Sent(body.id, d) = d /\ entity.row = "live" /\ entity.of = dish[d].of
    BY <2>2 DEF DishUndeclared, Edited, Sent
  <2>8. CallOK(x, category, restaurant, dish, menus)
    <3> HIDE DEF entity
    <3>. QED  BY <2>6, <2>7 DEF CallOK, Revises
  <2>9. Moves(c, x)
    BY <1>5 DEF editDish
  <2> HIDE DEF x
  <2>. QED  BY <1>5, <2>5, <2>8, <2>9, QuietStep DEF editDish, CatInv, CatalogueTypeOK
<1>6. CASE compareDish(c)
  <2> DEFINE x == [stage |-> "dish.compared", id |-> call[c].id, body |-> call[c].body,
                   entity |-> call[c].entity, base |-> Base(dish, call[c].id)]
  <2>1. /\ call[c].id \in Maybe(Dishes) /\ call[c].body \in DishBodies /\ call[c].entity \in DishEntities
        /\ Revises(call[c]) /\ CallOK(call[c], category, restaurant, dish, menus)
    BY <1>6, CallShapes DEF compareDish, CatInv, CatalogueTypeOK, Revises
  <2>2. Base(dish, call[c].id) \in DishRows \cup {Absent}
    BY <2>1 DEF Base, Maybe, CatInv, CatalogueTypeOK, Table
  <2>3. x \in CallRecords
    BY <2>1, <2>2 DEF CallRecords
  <2>4. CallOK(x, category, restaurant, dish, menus)
    BY <2>1, RowsExist DEF CallOK, Base, Maybe, Revises
  <2>5. Moves(c, x)
    BY <1>6 DEF compareDish
  <2> HIDE DEF x
  <2>. QED  BY <1>6, <2>3, <2>4, <2>5, QuietStep DEF compareDish, CatInv, CatalogueTypeOK
<1>. QED  BY <1>1, <1>2, <1>3, <1>4, <1>5, <1>6

LEMMA OrderSteps ==
    ASSUME CatInv, NEW c \in Calls,
           \/ priceOrder(c)
           \/ saveOrder(c)
           \/ \E r \in Restaurants, cart \in Carts : openOrder(c, r, cart)
    PROVE  CatInv'
<1>1. CASE priceOrder(c)
  <2> DEFINE order == call[c]
             menu  == [restaurant |-> order.menu.restaurant, dish |-> DishesRead(c)]
             x == [stage |-> "order.priced", of |-> order.of, cart |-> order.cart,
                   quote |-> Quote(menu, order.of, order.cart)]
  <2>1. order.of \in Restaurants /\ order.cart \in Carts /\ order.menu \in Menus
    BY <1>1, CallShapes DEF priceOrder, CatInv, CatalogueTypeOK
  <2>2. menu = order.menu
    BY <2>1 DEF DishesRead, Menus
  <2>3. menu \in menus /\ Live(menu.restaurant[order.of])
    <3>1. CallOK(order, category, restaurant, dish, menus) /\ order.stage = "order.opened"
      BY <1>1 DEF priceOrder, CatInv
    <3>. QED  BY <3>1, <2>2 DEF CallOK
  <2>4. CASE OnMenu(menu, order.cart)
    <3>1. Quote(menu, order.of, order.cart) \in Quotes
      <4>1. menu \in Menus
        BY <2>1, <2>2
      <4> HIDE DEF menu
      <4>. QED  BY <2>1, <2>3, <2>4, <4>1, QuoteType
    <3>2. x \in CallRecords
      BY <2>1, <3>1 DEF CallRecords
    <3>3. CallOK(x, category, restaurant, dish, menus)
      BY <2>3, <2>4 DEF CallOK, Charged, Revises
    <3>4. Moves(c, x)
      BY <1>1, <2>4 DEF priceOrder
    <3> HIDE DEF x
    <3>. QED  BY <1>1, <3>2, <3>3, <3>4, QuietStep DEF priceOrder, CatInv, CatalogueTypeOK
  <2>5. CASE ~OnMenu(menu, order.cart)
    <3>1. Moves(c, NoCall)
      BY <1>1, <2>5 DEF priceOrder, Answers
    <3>. QED  BY <1>1, <3>1, NoCallOK, QuietStep DEF priceOrder, CatInv, CatalogueTypeOK
  <2>. QED  BY <2>4, <2>5
<1>2. CASE saveOrder(c)
  <2> DEFINE o == [of |-> call[c].of, cart |-> call[c].cart, quote |-> call[c].quote]
  <2>1. o \in [of : Restaurants, cart : Carts, quote : Quotes]
    BY <1>2, CallShapes DEF saveOrder, CatInv, CatalogueTypeOK
  <2>2. Charged(o, menus)
    BY <1>2 DEF saveOrder, CatInv, CallOK, Charged
  <2>3. orders' = orders \cup {o}
    BY <1>2 DEF saveOrder
  <2> HIDE DEF o
  <2>. QED  BY <1>2, <2>1, <2>2, <2>3, NoCallOK, QuietStep DEF saveOrder, Answers, CatInv, CatalogueTypeOK
<1>3. ASSUME NEW r \in Restaurants, NEW cart \in Carts, openOrder(c, r, cart) PROVE CatInv'
  <2> DEFINE x == [stage |-> "order.opened", of |-> r, cart |-> cart, menu |-> Menu]
  <2>1. Menu \in Menus
    BY DEF Menu, Menus, CatInv, CatalogueTypeOK
  <2>2. x \in CallRecords
    BY <2>1 DEF CallRecords
  <2>3. CallOK(x, category, restaurant, dish, menus)
    BY <1>3 DEF CallOK, CatInv, openOrder, Menu, Revises
  <2>. QED  BY <1>3, <2>2, <2>3, QuietStep DEF openOrder, CatInv, CatalogueTypeOK
<1>. QED  BY <1>1, <1>2, <1>3

-----------------------------------------------------------------------------
(* Refinement: the menu and what was charged by it obey MenuRecord.        *)

Filed == {k \in Categories : Exists(category[k])}

Posted == <<Filed, restaurant, dish, Rebuilt, Revising, Recast, menus, orders>>

\* The rows that a request r makes Rebuilt, Revising or Recast.
RebuiltBy(r) ==
    {q \in Restaurants : r.stage = "restaurant.loaded" /\ RestaurantUndeclared(r.body) /\ r.id = q}

RevisedBy(r) == {d \in Dishes : Revises(r) /\ r.id = d}

RecastBy(r) == {d \in Dishes : Revises(r) /\ DishUndeclared(r.body) /\ r.id = d}

MarksNothing(r) == RebuiltBy(r) = {} /\ RevisedBy(r) = {} /\ RecastBy(r) = {}

LEMMA Unmarked ==
    ASSUME NEW r, r.stage # "restaurant.loaded", ~Revises(r)
    PROVE  MarksNothing(r)
  BY DEF MarksNothing, RebuiltBy, RevisedBy, RecastBy

\* When slot c goes from its request to r, the marks of r are added, and none goes but
\* those of the request before.
LEMMA Marks ==
    ASSUME CatInv, NEW c \in Calls, NEW r, Moves(c, r)
    PROVE  /\ Rebuilt' \subseteq Rebuilt \cup RebuiltBy(r)
           /\ Revising' \subseteq Revising \cup RevisedBy(r)
           /\ Recast' \subseteq Recast \cup RecastBy(r)
           /\ RebuiltBy(call[c]) \subseteq RebuiltBy(r) => Rebuilt' = Rebuilt \cup RebuiltBy(r)
           /\ RevisedBy(call[c]) \subseteq RevisedBy(r) => Revising' = Revising \cup RevisedBy(r)
           /\ RecastBy(call[c]) \subseteq RecastBy(r) => Recast' = Recast \cup RecastBy(r)
<1>1. call'[c] = r /\ \A e \in Calls \ {c} : call'[e] = call[e]
  BY DEF CatInv, CatalogueTypeOK, Moves
<1>2. /\ Rebuilt' \subseteq Rebuilt \cup RebuiltBy(r)
      /\ RebuiltBy(call[c]) \subseteq RebuiltBy(r) => Rebuilt' = Rebuilt \cup RebuiltBy(r)
  <2>1. /\ Rebuilt = {q \in Restaurants : \E e \in Calls : q \in RebuiltBy(call[e])}
        /\ Rebuilt' = {q \in Restaurants : \E e \in Calls : q \in RebuiltBy(call'[e])}
    BY DEF Rebuilt, RebuiltBy
  <2>2. RebuiltBy(r) \subseteq Restaurants
    BY DEF RebuiltBy
  <2>. QED  BY <1>1, <2>1, <2>2
<1>3. /\ Revising' \subseteq Revising \cup RevisedBy(r)
      /\ RevisedBy(call[c]) \subseteq RevisedBy(r) => Revising' = Revising \cup RevisedBy(r)
  <2>1. /\ Revising = {d \in Dishes : \E e \in Calls : d \in RevisedBy(call[e])}
        /\ Revising' = {d \in Dishes : \E e \in Calls : d \in RevisedBy(call'[e])}
    BY DEF Revising, RevisedBy, Revises
  <2>2. RevisedBy(r) \subseteq Dishes
    BY DEF RevisedBy
  <2>. QED  BY <1>1, <2>1, <2>2
<1>4. /\ Recast' \subseteq Recast \cup RecastBy(r)
      /\ RecastBy(call[c]) \subseteq RecastBy(r) => Recast' = Recast \cup RecastBy(r)
  <2>1. /\ Recast = {d \in Dishes : \E e \in Calls : d \in RecastBy(call[e])}
        /\ Recast' = {d \in Dishes : \E e \in Calls : d \in RecastBy(call'[e])}
    BY DEF Recast, RecastBy, Revises
  <2>2. RecastBy(r) \subseteq Dishes
    BY DEF RecastBy
  <2>. QED  BY <1>1, <2>1, <2>2
<1>. QED  BY <1>2, <1>3, <1>4

\* A request that ends takes its marks with it.
LEMMA EndsFewer ==
    ASSUME CatInv, NEW c \in Calls, Answers(c)
    PROVE  /\ Rebuilt' \subseteq Rebuilt /\ Revising' \subseteq Revising /\ Recast' \subseteq Recast
           /\ MarksNothing(call[c]) => UNCHANGED <<Rebuilt, Revising, Recast>>
<1>1. MarksNothing(NoCall)
  BY Unmarked DEF NoCall, Revises
<1>. QED  BY <1>1, Marks DEF Answers, MarksNothing

\* One that moves on without marks, or begins without any, is not seen.
LEMMA Unseen ==
    ASSUME CatInv, NEW c \in Calls, NEW r, Moves(c, r),
           UNCHANGED <<category, restaurant, dish, orders, menus>>,
           MarksNothing(r), MarksNothing(call[c])
    PROVE  UNCHANGED Posted
<1>1. UNCHANGED <<Rebuilt, Revising, Recast>>
  BY Marks DEF MarksNothing
<1>. QED  BY <1>1 DEF Posted, Filed

\* A write that finds nothing to write prints the menu there is.
LEMMA NoNewMenu ==
    ASSUME CatInv, UNCHANGED <<restaurant, dish>>, Publishes
    PROVE  UNCHANGED menus
  BY DEF CatInv, Publishes, Menu

LEMMA CategoryRefines ==
    ASSUME CatInv, NEW c \in Calls,
           \/ saveCategory(c)
           \/ compareCategory(c)
           \/ \E body \in CategoryBodies : checkSlug(c, body)
    PROVE  Record!Next \/ UNCHANGED Posted
<1>1. CASE saveCategory(c)
  <2> DEFINE row(k) == CategoryWritten(call[c].body, call[c].base, category[k])
  <2>1. PICK k \in Categories :
            /\ row(k) \in CategoryRows
            /\ category' = IF Fits(call[c].base, category[k]) /\ AcceptsCategory(k, row(k).slug)
                           THEN [category EXCEPT ![k] = row(k)] ELSE category
    BY <1>1, SavesCategory
  <2> HIDE DEF row
  <2>2. UNCHANGED <<Rebuilt, Revising, Recast>>
    BY <1>1, EndsFewer, Unmarked DEF saveCategory, Revises
  <2>3. CASE category' = category
    BY <1>1, <2>2, <2>3 DEF Posted, Filed, saveCategory
  <2>4. CASE category' = [category EXCEPT ![k] = row(k)]
    <3>1. Filed' = Filed \cup {k}
      BY <2>1, <2>4, RowsExist DEF Filed, CatInv, CatalogueTypeOK, Table
    <3>2. Record!NewCategory(k)
      BY <1>1, <2>2, <3>1 DEF Record!NewCategory, Filed, saveCategory
    <3>. QED  BY <3>2 DEF Record!Next
  <2>. QED  BY <2>1, <2>3, <2>4
<1>2. CASE compareCategory(c)
  BY <1>2, Unseen, Unmarked DEF compareCategory, Revises
<1>3. ASSUME NEW body \in CategoryBodies, checkSlug(c, body) PROVE UNCHANGED Posted
  BY <1>3, Unseen, Unmarked DEF checkSlug, NoCall, Revises
<1>. QED  BY <1>1, <1>2, <1>3

\* The restaurant that is saved keeps its state and its owner unless the body carried
\* columns no DTO declares.
LEMMA SaveRefines ==
    ASSUME CatInv, NEW c \in Calls, saveRestaurant(c)
    PROVE  Record!Next
<1> DEFINE row(r) == RestaurantWritten(call[c].entity, call[c].base, restaurant[r])
<1>1. PICK r \in Restaurants :
          /\ row(r) \in RestaurantRows
          /\ Exists(call[c].base) => r = call[c].id /\ Exists(restaurant[r])
          /\ restaurant' = IF Fits(call[c].base, restaurant[r])
                           THEN [restaurant EXCEPT ![r] = row(r)] ELSE restaurant
  BY SavesRestaurant
<1>2. Rebuilt' \subseteq Rebuilt /\ Revising' \subseteq Revising /\ Recast' \subseteq Recast
  BY EndsFewer DEF saveRestaurant
<1>3. CASE restaurant' = restaurant
  <2>1. UNCHANGED menus
    BY <1>3, NoNewMenu DEF saveRestaurant
  <2>2. Record!Abandon
    BY <1>2, <1>3, <2>1 DEF Record!Abandon, Record!Fewer, saveRestaurant, Filed
  <2>. QED  BY <2>2 DEF Record!Next
<1>4. CASE Fits(call[c].base, restaurant[r]) /\ restaurant' = [restaurant EXCEPT ![r] = row(r)]
  <2>1. row(r).category \in Filed \cup {NoCategory}
    <3>1. CatInv'
      BY RestaurantSteps
    <3>2. restaurant'[r] = row(r) /\ UNCHANGED category
      BY <1>4 DEF CatInv, CatalogueTypeOK, Table, saveRestaurant
    <3> HIDE DEF row
    <3>3. Exists(row(r)) /\ row(r).category \in Categories \cup {NoCategory}
      BY <1>1, RowsExist DEF RestaurantRows
    <3>. QED  BY <3>1, <3>2, <3>3 DEF CatInv, Filing, Filed
  <2>2. restaurant[r] # Absent /\ r \notin Rebuilt =>
            row(r).row = restaurant[r].row /\ row(r).owner = restaurant[r].owner
    <3> SUFFICES ASSUME restaurant[r] # Absent, r \notin Rebuilt
                 PROVE  row(r).row = restaurant[r].row /\ row(r).owner = restaurant[r].owner
        OBVIOUS
    <3>1. Exists(restaurant[r])
      BY RowsExist DEF CatInv, CatalogueTypeOK, Table
    <3>2. Exists(call[c].base) /\ call[c].id = r
      BY <1>1, <1>4, <3>1 DEF Fits
    <3>3. ~RestaurantUndeclared(call[c].body)
      BY <3>2 DEF Rebuilt, saveRestaurant
    <3>4. CallOK(call[c], category, restaurant, dish, menus) /\ call[c].stage = "restaurant.loaded"
      BY DEF CatInv, saveRestaurant
    <3>5. call[c].entity.row \in {Unset, call[c].base.row} /\ call[c].entity.owner \in {Unset, call[c].base.owner}
      BY <3>2, <3>3, <3>4 DEF CallOK, RestaurantUndeclared
    <3>. QED  BY <3>2, <3>5 DEF RestaurantWritten, Column
  <2> HIDE DEF row
  <2>3. /\ row(r).row \in Life /\ row(r).owner \in Users /\ row(r).fee \in Amounts
        /\ row(r).category \in Categories \cup {NoCategory}
        /\ row(r) = [row |-> row(r).row, owner |-> row(r).owner,
                     category |-> row(r).category, fee |-> row(r).fee]
    BY <1>1 DEF RestaurantRows
  <2>4. Record!Register(r, row(r).row, row(r).owner, row(r).category, row(r).fee)
    BY <1>2, <1>4, <2>1, <2>2, <2>3
    DEF Record!Register, Record!Prints, Record!Fewer, saveRestaurant, Publishes, Filed
  <2>. QED  BY <2>3, <2>4 DEF Record!Next, Record!Life, Life
<1>. QED  BY <1>1, <1>3, <1>4

\* The dish that is written stays on the menu, or comes back, and stays in a place it
\* has been, unless the body carried columns no DTO declares.
LEMMA WriteRefines ==
    ASSUME CatInv, NEW c \in Calls, writeDish(c)
    PROVE  Record!Next
<1> DEFINE row(d) == DishWritten(call[c].entity, call[c].base, dish[d])
<1>1. PICK d \in Dishes :
          /\ row(d) \in DishRows
          /\ Exists(call[c].base) => d = call[c].id /\ Exists(dish[d])
          /\ dish' = IF Fits(call[c].base, dish[d]) /\ Exists(restaurant[row(d).of])
                     THEN [dish EXCEPT ![d] = row(d)] ELSE dish
  BY SavesDish
<1>2. Rebuilt' \subseteq Rebuilt /\ Revising' \subseteq Revising /\ Recast' \subseteq Recast
  BY EndsFewer DEF writeDish
<1>3. CASE dish' = dish
  <2>1. UNCHANGED menus
    BY <1>3, NoNewMenu DEF writeDish
  <2>2. Record!Abandon
    BY <1>2, <1>3, <2>1 DEF Record!Abandon, Record!Fewer, writeDish, Filed
  <2>. QED  BY <2>2 DEF Record!Next
<1>4. CASE /\ Fits(call[c].base, dish[d]) /\ Exists(restaurant[row(d).of])
           /\ dish' = [dish EXCEPT ![d] = row(d)]
  <2>1. ASSUME Exists(call[c].base), d \notin Recast
        PROVE  row(d).row \in {dish[d].row, "live"} /\ row(d).of \in Record!Places(d) \cup {dish[d].of}
    <3>1. call[c].id = d /\ call[c].stage = "dish.compared" /\ call[c].id # Unset
      BY <1>1, <2>1, UnsetAssumption DEF writeDish
    <3>2. ~DishUndeclared(call[c].body)
      BY <2>1, <3>1 DEF Recast
    <3>3. CallOK(call[c], category, restaurant, dish, menus)
      BY DEF CatInv
    <3>4. call[c].entity.row = "live" /\ call[c].entity.of \in Places(d, menus)
      BY <3>1, <3>2, <3>3 DEF CallOK, Revises
    <3>5. Places(d, menus) = Record!Places(d)
      BY DEF Places, Record!Places
    <3>. QED  BY <2>1, <3>4, <3>5 DEF DishWritten, Column
  <2>2. Exists(call[c].base) => d \in Revising
    BY <1>1 DEF Revising, writeDish
  <2> HIDE DEF row
  <2>3. /\ row(d).row \in Life /\ row(d).of \in Restaurants
        /\ row(d).price \in Amounts /\ row(d).extra \in Amounts
        /\ row(d) = [row |-> row(d).row, of |-> row(d).of, price |-> row(d).price, extra |-> row(d).extra]
    BY <1>1 DEF DishRows
  <2>4. CASE Exists(call[c].base)
    <3>1. dish[d] # Absent
      BY <1>1, <2>4, RowsExist
    <3>2. Record!Revise(d, row(d).row, row(d).of, row(d).price, row(d).extra)
      BY <1>2, <1>4, <2>1, <2>2, <2>3, <2>4, <3>1
      DEF Record!Revise, Record!Prints, Record!Fewer, writeDish, Publishes, Filed
    <3>. QED  BY <2>3, <3>2 DEF Record!Next, Record!Life, Life
  <2>5. CASE ~Exists(call[c].base)
    <3>1. dish[d] = Absent
      BY <1>4, <2>5, RowsExist DEF Fits, CatInv, CatalogueTypeOK, Table
    <3>2. restaurant[row(d).of] # Absent
      BY <1>4, RowsExist
    <3>3. Record!NewDish(d, row(d).row, row(d).of, row(d).price, row(d).extra)
      BY <1>2, <1>4, <2>3, <3>1, <3>2
      DEF Record!NewDish, Record!Prints, Record!Fewer, writeDish, Publishes, Filed
    <3>. QED  BY <2>3, <3>3 DEF Record!Next, Record!Life, Life
  <2>. QED  BY <2>4, <2>5
<1>. QED  BY <1>1, <1>3, <1>4

LEMMA RemovalRefines ==
    ASSUME CatInv, NEW c \in Calls, softDelete(c)
    PROVE  Record!Next
<1>1. call[c].dish \in Dishes /\ Exists(dish[call[c].dish])
  BY CallShapes DEF softDelete, CatInv, CatalogueTypeOK, CallOK
<1>2. UNCHANGED <<Rebuilt, Revising, Recast>>
  BY EndsFewer, Unmarked DEF softDelete, Revises
<1>3. Record!TakeOff(call[c].dish)
  BY <1>1, <1>2, RowsExist DEF Record!TakeOff, Record!Prints, softDelete, Publishes, Filed
<1>. QED  BY <1>1, <1>3 DEF Record!Next

\* A request that begins marks what it is about to write.
LEMMA OpensRefine ==
    ASSUME CatInv, NEW c \in Calls, call[c] = NoCall, NEW x, Moves(c, x),
           UNCHANGED <<category, restaurant, dish, orders, menus>>,
           \/ x.stage = "restaurant.loaded"
           \/ x.stage = "dish.loaded" /\
                 (x.id \in Dishes /\ ~DishUndeclared(x.body) => dish[x.id].row = "live")
    PROVE  Record!Next \/ UNCHANGED Posted
<1>1. MarksNothing(call[c])
  BY Unmarked DEF NoCall, Revises
<1>2. /\ Rebuilt' = Rebuilt \cup RebuiltBy(x) /\ Revising' = Revising \cup RevisedBy(x)
      /\ Recast' = Recast \cup RecastBy(x)
  BY <1>1, Marks DEF MarksNothing
<1>3. CASE MarksNothing(x)
  BY <1>1, <1>3, Unseen
<1>4. CASE x.stage = "restaurant.loaded" /\ ~MarksNothing(x)
  <2>1. RevisedBy(x) = {} /\ RecastBy(x) = {}
    BY <1>4 DEF RevisedBy, RecastBy, Revises
  <2>2. x.id \in Restaurants /\ RebuiltBy(x) = {x.id}
    BY <1>4, <2>1 DEF MarksNothing, RebuiltBy
  <2>3. Record!Engage(x.id)
    BY <1>2, <2>1, <2>2 DEF Record!Engage, Filed
  <2>. QED  BY <2>2, <2>3 DEF Record!Next
<1>5. CASE x.stage = "dish.loaded" /\ ~MarksNothing(x)
  <2>1. RebuiltBy(x) = {}
    BY <1>5 DEF RebuiltBy
  <2>2. x.id \in Dishes /\ RevisedBy(x) = {x.id}
    BY <1>5, <2>1 DEF MarksNothing, RevisedBy, RecastBy, Revises
  <2>3. CASE DishUndeclared(x.body)
    <3>1. RecastBy(x) = {x.id}
      BY <1>5, <2>2, <2>3 DEF RecastBy, Revises
    <3>2. Record!BeginAnew(x.id)
      BY <1>2, <2>1, <2>2, <3>1 DEF Record!BeginAnew, Filed
    <3>. QED  BY <2>2, <3>2 DEF Record!Next
  <2>4. CASE ~DishUndeclared(x.body)
    <3>1. RecastBy(x) = {}
      BY <2>4 DEF RecastBy
    <3>2. Record!Begin(x.id)
      BY <1>2, <1>5, <2>1, <2>2, <2>4, <3>1 DEF Record!Begin, Filed
    <3>. QED  BY <2>2, <3>2 DEF Record!Next
  <2>. QED  BY <2>3, <2>4
<1>. QED  BY <1>3, <1>4, <1>5

LEMMA EditsRefine ==
    ASSUME CatInv, NEW c \in Calls,
           \/ \E u \in Owners, body \in RestaurantBodies : openRestaurant(c, u, body)
           \/ \E u \in Owners, r \in Restaurants, body \in RestaurantBodies : editRestaurant(c, u, r, body)
           \/ \E u \in Owners, r \in Restaurants, body \in DishBodies : openDish(c, u, r, body)
           \/ \E u \in Owners, d \in Dishes, body \in DishBodies : editDish(c, u, d, body)
    PROVE  Record!Next \/ UNCHANGED Posted
<1>1. ASSUME NEW u \in Owners, NEW body \in RestaurantBodies, openRestaurant(c, u, body)
      PROVE  Record!Next \/ UNCHANGED Posted
  BY <1>1, OpensRefine DEF openRestaurant
<1>2. ASSUME NEW u \in Owners, NEW r \in Restaurants, NEW body \in RestaurantBodies,
             editRestaurant(c, u, r, body)
      PROVE  Record!Next \/ UNCHANGED Posted
  BY <1>2, OpensRefine DEF editRestaurant
<1>3. ASSUME NEW u \in Owners, NEW r \in Restaurants, NEW body \in DishBodies, openDish(c, u, r, body)
      PROVE  Record!Next \/ UNCHANGED Posted
  <2>1. body.id \in Dishes => DishUndeclared(body)
    BY UnsetAssumption DEF DishUndeclared
  <2>. QED  BY <1>3, <2>1, OpensRefine DEF openDish
<1>4. ASSUME NEW u \in Owners, NEW d \in Dishes, NEW body \in DishBodies, editDish(c, u, d, body)
      PROVE  Record!Next \/ UNCHANGED Posted
  <2>1. ~DishUndeclared(body) => Sent(body.id, d) = d
    BY DEF DishUndeclared, Sent
  <2>2. dish[d].row = "live"
    BY <1>4 DEF editDish, MayChange, Live
  <2>. QED  BY <1>4, <2>1, <2>2, OpensRefine DEF editDish
<1>. QED  BY <1>1, <1>2, <1>3, <1>4

\* Reading the row again leaves the marks as they are.
LEMMA CompareRefines ==
    ASSUME CatInv, NEW c \in Calls, compareDish(c)
    PROVE  UNCHANGED Posted
<1> DEFINE x == [stage |-> "dish.compared", id |-> call[c].id, body |-> call[c].body,
                 entity |-> call[c].entity, base |-> Base(dish, call[c].id)]
<1>1. /\ RebuiltBy(x) = RebuiltBy(call[c]) /\ RevisedBy(x) = RevisedBy(call[c])
      /\ RecastBy(x) = RecastBy(call[c])
  BY DEF RebuiltBy, RevisedBy, RecastBy, Revises, compareDish
<1>2. /\ RebuiltBy(call[c]) \subseteq Rebuilt /\ RevisedBy(call[c]) \subseteq Revising
      /\ RecastBy(call[c]) \subseteq Recast
  BY DEF RebuiltBy, RevisedBy, RecastBy, Revises, Rebuilt, Revising, Recast
<1>3. Moves(c, x)
  BY DEF compareDish
<1> HIDE DEF x
<1>4. UNCHANGED <<Rebuilt, Revising, Recast>>
  BY <1>1, <1>2, <1>3, Marks
<1>. QED  BY <1>4 DEF Posted, Filed, compareDish

LEMMA ChargeRefines ==
    ASSUME CatInv, NEW c \in Calls, saveOrder(c)
    PROVE  Record!Next
<1>1. PICK r \in Restaurants, cart \in Carts : r = call[c].of /\ cart = call[c].cart
  BY CallShapes DEF saveOrder, CatInv, CatalogueTypeOK
<1>2. PICK menu \in menus : /\ Live(menu.restaurant[r])
                            /\ OnMenu(menu, cart)
                            /\ call[c].quote = Quote(menu, r, cart)
  BY <1>1 DEF saveOrder, CatInv, CallOK, Charged
<1>3. ASSUME NEW line \in cart
      PROVE  [line |-> line, price |-> ItemPrice(menu.dish[line.dish], line)]
                = Record!Cost(menu.dish[line.dish], line)
  <2>1. line.dish \in Dishes /\ line.option \in BOOLEAN
    BY CartsAssumption DEF Lines
  <2>2. menu.dish[line.dish] \in DishRows
    BY <1>2, <1>3, <2>1, RowsExist DEF OnMenu, CatInv, CatalogueTypeOK, Menus, Table
  <2>3. menu.dish[line.dish].price \in Nat
    BY <2>2, AmountsAssumption DEF DishRows
  <2>. QED  BY <2>1, <2>3 DEF ItemPrice, Record!Cost
<1>4. Quote(menu, r, cart) = [fee |-> menu.restaurant[r].fee,
                              lines |-> {Record!Cost(menu.dish[line.dish], line) : line \in cart}]
  BY <1>3 DEF Quote
<1>5. UNCHANGED <<Rebuilt, Revising, Recast>>
  BY EndsFewer, Unmarked DEF saveOrder, Revises
<1>6. Record!Charge(menu, r, cart)
  BY <1>1, <1>2, <1>4, <1>5 DEF Record!Charge, saveOrder, OnMenu, Live, Filed
<1>. QED  BY <1>6 DEF Record!Next

LEMMA ReadsRefine ==
    ASSUME CatInv, NEW c \in Calls,
           \/ priceOrder(c)
           \/ \E r \in Restaurants, cart \in Carts : openOrder(c, r, cart)
           \/ \E u \in Owners, d \in Dishes : openRemoval(c, u, d)
    PROVE  UNCHANGED Posted
<1>1. CASE priceOrder(c)
  <2>1. MarksNothing(call[c])
    BY <1>1, Unmarked DEF priceOrder, Revises
  <2>2. ASSUME NEW x, Moves(c, x), x.stage \in {"order.priced", "idle"} PROVE UNCHANGED Posted
    <3>1. MarksNothing(x)
      BY <2>2, Unmarked DEF Revises
    <3>. QED  BY <1>1, <2>1, <2>2, <3>1, Unseen DEF priceOrder
  <2>. QED  BY <1>1, <2>2 DEF priceOrder, Answers, NoCall
<1>2. ASSUME NEW r \in Restaurants, NEW cart \in Carts, openOrder(c, r, cart) PROVE UNCHANGED Posted
  BY <1>2, Unseen, Unmarked DEF openOrder, NoCall, Revises
<1>3. ASSUME NEW u \in Owners, NEW d \in Dishes, openRemoval(c, u, d) PROVE UNCHANGED Posted
  BY <1>3, Unseen, Unmarked DEF openRemoval, NoCall, Revises
<1>. QED  BY <1>1, <1>2, <1>3

LEMMA DropRefines ==
    ASSUME CatInv, NEW c \in Calls, dropCall(c)
    PROVE  Record!Next
<1>1. Record!Abandon
  BY EndsFewer DEF Record!Abandon, Record!Fewer, dropCall, Filed
<1>. QED  BY <1>1 DEF Record!Next

-----------------------------------------------------------------------------
(* The theorems.                                                           *)

\* The inductive invariant: rows refer to rows, the snapshots of the orders being
\* placed, and what the placed ones were charged by, are menus there have been, and
\* an entity without undeclared columns keeps its owner or its restaurant.
THEOREM CatalogueInvariant == Spec => []CatInv
<1>1. Init => CatInv
  <2> SUFFICES ASSUME Init PROVE CatInv
      OBVIOUS
  <2>1. PICK db \in Databases : category = db.category /\ restaurant = db.restaurant /\ dish = db.dish
    BY DEF Init
  <2>2. /\ category \in Table(Categories, CategoryRows)
        /\ restaurant \in Table(Restaurants, RestaurantRows)
        /\ dish \in Table(Dishes, DishRows)
    <3>1. db \in Tables
      BY DatabasesAssumption
    <3>. QED  BY <2>1, <3>1 DEF Tables
  <2>3. Filing(category, restaurant) /\ OneCategoryPerSlug
    BY <2>1, DatabasesAssumption DEF Filing, OneCategoryPerSlug
  <2>4. CatalogueTypeOK
    <3>1. Menu \in Menus
      BY <2>2 DEF Menu, Menus
    <3>. QED  BY <2>2, <3>1 DEF Init, CatalogueTypeOK
  <2>. QED  BY <2>3, <2>4, NoCallOK DEF Init, CatInv
<1>2. CatInv /\ [Next]_vars => CatInv'
  <2> SUFFICES ASSUME CatInv, [Next]_vars PROVE CatInv'
      OBVIOUS
  <2>1. ASSUME NEW c \in Calls, Serve(c) PROVE CatInv'
    <3>1. CASE dropCall(c)
      BY <3>1, NoCallOK, QuietStep DEF dropCall, Answers, CatInv, CatalogueTypeOK
    <3>. QED  BY <2>1, <3>1, CategorySteps, RestaurantSteps, DishSteps, OrderSteps DEF Serve
  <2>2. CASE UNCHANGED vars
    BY <2>2 DEF vars, CatInv, CatalogueTypeOK, Menu, OneCategoryPerSlug
  <2>. QED  BY <2>1, <2>2 DEF Next
<1>. QED  BY <1>1, <1>2, PTL DEF Spec

\* Every reachable state has the declared types.
THEOREM CatalogueTypeCorrect == Spec => []CatalogueTypeOK
<1>1. CatInv => CatalogueTypeOK
  BY DEF CatInv
<1>. QED  BY <1>1, CatalogueInvariant, PTL

\* createOrder charges the prices of one moment, for any carts and any number of
\* owners and customers at work.
THEOREM OneMenuCharges == Spec => []ChargedByOneMenu
<1>1. CatInv => ChargedByOneMenu
  BY DEF CatInv, ChargedByOneMenu, Charged
<1>. QED  BY <1>1, CatalogueInvariant, PTL

\* updateRestaurant, whatever runs beside it: a column changes to what some request
\* sent, and the whole entity it saves does not put back what another one changed.
THEOREM EditsMerge == Spec => OnlySentColumnsChange
<1> DEFINE Merged ==
        \A r \in Restaurants, k \in {"row", "owner", "category", "fee"} :
            Exists(restaurant[r]) /\ restaurant'[r][k] # restaurant[r][k] =>
                \E c \in EditsOf(r) :
                    call[c].body[k] = restaurant'[r][k] \/ call[c].body.id = r
<1>1. ASSUME CatInv, NEW c \in Calls, saveRestaurant(c), NEW q \in Restaurants, Exists(restaurant[q]),
             restaurant'[q] # restaurant[q]
      PROVE  /\ c \in EditsOf(q)
             /\ \/ call[c].body.id = q
                \/ /\ restaurant'[q].row      \in {restaurant[q].row, call[c].body.row}
                   /\ restaurant'[q].owner    \in {restaurant[q].owner, call[c].body.owner}
                   /\ restaurant'[q].category \in {restaurant[q].category, call[c].body.category}
                   /\ restaurant'[q].fee      \in {restaurant[q].fee, call[c].body.fee}
  <2> DEFINE row(r) == RestaurantWritten(call[c].entity, call[c].base, restaurant[r])
  <2>1. PICK r \in Restaurants :
            /\ Exists(call[c].base) => r = call[c].id
            /\ restaurant' = IF Fits(call[c].base, restaurant[r])
                             THEN [restaurant EXCEPT ![r] = row(r)] ELSE restaurant
    BY <1>1, SavesRestaurant
  <2> HIDE DEF row
  <2>2. r = q /\ Exists(call[c].base) /\ restaurant'[q] = row(q) /\ call[c].id = q
    BY <1>1, <2>1 DEF Fits, CatInv, CatalogueTypeOK, Table
  <2>3. c \in EditsOf(q)
    BY <1>1, <2>2 DEF EditsOf, saveRestaurant, Answers, Moves, CatInv, CatalogueTypeOK
  <2>4. CASE call[c].body.id = Unset
    <3>1. CallOK(call[c], category, restaurant, dish, menus) /\ call[c].stage = "restaurant.loaded"
      BY <1>1 DEF CatInv, saveRestaurant
    <3>2. /\ call[c].entity.row      \in {call[c].body.row, call[c].base.row}
          /\ call[c].entity.owner    \in {call[c].body.owner, call[c].base.owner}
          /\ call[c].entity.category \in {call[c].body.category, call[c].base.category}
          /\ call[c].entity.fee      \in {call[c].body.fee, call[c].base.fee}
      BY <2>2, <2>4, <3>1 DEF CallOK
    <3>3. /\ row(q).row      \in {restaurant[q].row, call[c].body.row}
          /\ row(q).owner    \in {restaurant[q].owner, call[c].body.owner}
          /\ row(q).category \in {restaurant[q].category, call[c].body.category}
          /\ row(q).fee      \in {restaurant[q].fee, call[c].body.fee}
      BY <2>2, <3>2 DEF row, RestaurantWritten, Column
    <3>. QED  BY <2>2, <2>3, <3>3
  <2>5. CASE call[c].body.id # Unset
    BY <1>1, <2>2, <2>3, <2>5 DEF CatInv, CallOK, saveRestaurant
  <2>. QED  BY <2>4, <2>5
<1>2. CatInv /\ [Next]_vars => [Merged]_vars
  <2> SUFFICES ASSUME CatInv, Next, NEW r \in Restaurants, NEW k \in {"row", "owner", "category", "fee"},
                      Exists(restaurant[r]), restaurant'[r][k] # restaurant[r][k]
               PROVE  \E c \in EditsOf(r) :
                          call[c].body[k] = restaurant'[r][k] \/ call[c].body.id = r
      BY DEF vars
  <2>1. PICK c \in Calls : saveRestaurant(c)
    BY DEF Next, Serve, checkSlug, compareCategory, saveCategory, openRestaurant, editRestaurant,
           openDish, editDish, compareDish, writeDish, openRemoval, softDelete, openOrder,
           priceOrder, saveOrder, dropCall
  <2>. QED  BY <1>1, <2>1
<1>. QED  BY <1>2, CatalogueInvariant, PTL DEF Spec, OnlySentColumnsChange

\* The unique index leaves one category per slug, whatever the checks let through
\* and whichever ids the bodies name.
THEOREM SlugNamesOne == Spec => []OneCategoryPerSlug
<1>1. CatInv => OneCategoryPerSlug
  BY DEF CatInv
<1>. QED  BY <1>1, CatalogueInvariant, PTL

\* Orders are charged by one menu and kept, and for any bodies a restaurant keeps its
\* owner, a dish its place and its being on the menu, unless a column that no DTO
\* declares says otherwise, or an updateDish had loaded it before it was deleted.
THEOREM CatalogueRefines == Spec => ImplementsMenuRecord
<1>1. Init /\ CatInv => Record!Start
  <2> SUFFICES ASSUME Init, CatInv PROVE Record!Start
      OBVIOUS
  <2>1. Rebuilt = {} /\ Revising = {} /\ Recast = {}
    BY DEF Init, Rebuilt, Revising, Recast, NoCall
  <2>2. \A r \in Restaurants : restaurant[r] # Absent => restaurant[r].category \in Filed \cup {NoCategory}
    <3>1. \A r \in Restaurants : restaurant[r] # Absent =>
              Exists(restaurant[r]) /\ restaurant[r].category \in Categories \cup {NoCategory}
      BY RowsExist DEF CatInv, CatalogueTypeOK, Table, RestaurantRows
    <3>. QED  BY <3>1 DEF CatInv, Filing, Filed
  <2>. QED  BY <2>1, <2>2 DEF Init, Record!Start, Record!Menu, Menu, Filed
<1>2. CatInv /\ [Next]_vars => [Record!Next]_Record!vars
  <2> SUFFICES ASSUME CatInv, [Next]_vars PROVE Record!Next \/ UNCHANGED Posted
      BY DEF Posted, Filed, Record!vars
  <2>1. ASSUME NEW c \in Calls, Serve(c) PROVE Record!Next \/ UNCHANGED Posted
    BY <2>1, CategoryRefines, SaveRefines, WriteRefines, RemovalRefines, EditsRefine,
       CompareRefines, ChargeRefines, ReadsRefine, DropRefines DEF Serve
  <2>2. CASE UNCHANGED vars
    BY <2>2 DEF vars, Posted, Filed, Rebuilt, Revising, Recast
  <2>. QED  BY <2>1, <2>2 DEF Next
<1>. QED  BY <1>1, <1>2, CatalogueInvariant, PTL DEF Spec, ImplementsMenuRecord, Record!Spec
=============================================================================
