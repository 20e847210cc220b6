CONSTANTS
    c1 = c1
    c2 = c2
    d1 = d1
    d2 = d2
    r1 = r1
    r2 = r2
    k1 = k1
    k2 = k2
    s1 = s1
    s2 = s2
    o1 = o1
    o2 = o2
    Categories = {k1, k2}
    Slugs = {s1, s2}
    NoCategory = NoCategory
    Restaurants = {r1, r2}
    Dishes = {d1, d2}
    Users = {o1, o2}
    Owners = {o1}
    Amounts = {0, 1}
    Unset = Unset
    CategoryBodies <- MCCategoryBodies
    RestaurantBodies <- MCRestaurantBodies
    DishBodies <- MCDishBodies
    Databases <- MCDatabases
    Carts <- OneDishCart
    Calls = {c1, c2}
    MaxMenus = 3
SPECIFICATION Spec
SYMMETRY Interchangeable
CONSTRAINT FirstOrder
INVARIANTS
    OneCategoryPerSlug
    ChargedByOneMenu
PROPERTIES
    OnlySentColumnsChange
    ImplementsMenuRecord
