---------------------------- MODULE MCCatalogue ----------------------------
(***************************************************************************)
(* Small instances of Catalogue: the cart is one of a dish with its        *)
(* option, the amounts tell an old value from a new one, and of each body  *)
(* there is one with declared columns only and one for every other.        *)
(***************************************************************************)
EXTENDS Catalogue, TLC

CONSTANTS c1, c2, d1, d2, o1, o2, r1, r2, k1, k2, s1, s2

OneDishCart == {{[dish |-> d1, option |-> TRUE]}}

MCCategoryBodies ==
    {[id |-> Unset, row |-> Unset, slug |-> s1],
     [id |-> k2, row |-> "deleted", slug |-> s2]}

MCRestaurantBodies ==
    LET Body(id, row, owner, k, fee) ==
            [id |-> id, row |-> row, owner |-> owner, category |-> k, fee |-> fee]
    IN  {Body(Unset, Unset, Unset, k1, 1),
         Body(Unset, Unset, Unset, Unset, 1),
         Body(Unset, Unset, Unset, NoCategory, Unset),
         Body(Unset, Unset, o2, Unset, Unset),
         Body(r2, Unset, Unset, k2, 0),
         Body(Unset, "deleted", Unset, Unset, Unset)}

MCDishBodies ==
    LET Body(id, row, r, price, extra) ==
            [id |-> id, row |-> row, of |-> r, price |-> price, extra |-> extra]
    IN  {Body(Unset, Unset, Unset, 1, Unset),
         Body(Unset, Unset, Unset, Unset, 1),
         Body(Unset, Unset, r2, Unset, Unset),
         Body(d2, "deleted", Unset, 1, Unset)}

\* An empty shop, and one where two owners have a restaurant each.
MCDatabases ==
    LET Restaurant(u) == [row |-> "live", owner |-> u, category |-> k2, fee |-> 0]
        Dish(r) == [row |-> "live", of |-> r, price |-> 0, extra |-> 0]
    IN  {[category |-> [k \in Categories |-> Absent],
          restaurant |-> [r \in Restaurants |-> Absent],
          dish |-> [d \in Dishes |-> Absent]],
         [category |-> [k \in Categories |-> IF k = k2 THEN [row |-> "live", slug |-> s1] ELSE Absent],
          restaurant |-> [r \in Restaurants |-> Restaurant(IF r = r1 THEN o1 ELSE o2)],
          dish |-> [d \in Dishes |-> IF d = d1 THEN Dish(r1) ELSE Absent]]}

\* What an order was charged does not bear on the next one.
FirstOrder == Cardinality(orders) <= 1

Interchangeable == Permutations(Calls)
=============================================================================
