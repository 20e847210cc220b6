------------------------------- MODULE Routes -------------------------------
(***************************************************************************)
(* The HTTP routes of the program as the decorators of its controllers     *)
(* declare them: whether a route is @Public, the guards a request passes   *)
(* before the handler (those of CoreModule, then those of @UseGuards) and  *)
(* the roles of @Roles.  A role that is declared counts only where the     *)
(* RolesGuard is among the guards of the route.                            *)
(***************************************************************************)
EXTENDS Sequences

Roles == {"Client", "Owner", "Delivery"}

\* The guards that CoreModule registers for all routes, in their order.
GlobalGuards == <<"blacklist", "access">>

\* entry is "public" under @Public(), and "token" otherwise.
Route(path, entry, own, roles) ==
    [path |-> path, entry |-> entry, guards |-> GlobalGuards \o own, roles |-> roles]

Public(route) == route.entry = "public"

\* @Public(), no decorator at all, @UseGuards(AccessTokenGuard), and with
\* @UseGuards(AccessTokenGuard, RolesGuard) @Roles(role).
Open(path) == Route(path, "public", <<>>, {})
Plain(path) == Route(path, "token", <<>>, {})
SignedIn(path) == Route(path, "token", <<"access">>, {})
Only(role, path) == Route(path, "token", <<"access", "roles">>, {role})

HealthRoutes == {Open("GET /health"), Open("GET /")}

SignOut == Plain("POST /auth/sign-out")

Refresh == Route("POST /auth/refresh", "public", <<"refresh">>, {})

AuthRoutes ==
    {Open("POST /auth/sign-up"), Open("POST /auth/sign-in"), SignOut, Refresh,
     Open("GET /auth/verify-email")}

UserRoutes == {SignedIn("PATCH /users/profile"), SignedIn("GET /users/:userId")}

CategoryRoutes == {SignedIn("POST /categories"), Open("GET /categories")}

RestaurantRoutes ==
    {Only("Owner", "POST /restaurants"), Only("Owner", "PATCH /restaurants/:id"),
     Only("Owner", "GET /restaurants/my"),
     Open("GET /restaurants/:id"), Open("GET /restaurants")}

\* Mutant: the roles of a route are declared, but its guard is forgotten.
DishRoutes_unguarded ==
    {Only("Owner", "POST /restaurants/:restaurantId/dishes"),
     Only("Owner", "PATCH /restaurants/:restaurantId/dishes/:id"),
     Route("DELETE /dishes/:id", "token", <<"access">>, {"Owner"})}

DishRoutes ==
    {Only("Owner", "POST /restaurants/:restaurantId/dishes"),
     Only("Owner", "PATCH /restaurants/:restaurantId/dishes/:id"),
     Only("Owner", "DELETE /dishes/:id")}

OrderRoutes ==
    {Only("Client", "POST /orders"), SignedIn("GET /orders"),
     SignedIn("GET /orders/:id"), SignedIn("PATCH /orders/:id")}

PaymentRoutes == {Only("Client", "POST /payments")}

ReviewRoutes ==
    {Only("Client", "POST /reviews"), Only("Client", "PATCH /reviews/:id"),
     Only("Client", "DELETE /reviews/:id")}

UploadOne == Plain("POST /uploads")

UploadBatch == Plain("POST /uploads/batch")

UploadRoutes == {UploadOne, UploadBatch}

AllRoutes ==
    HealthRoutes \cup AuthRoutes \cup UserRoutes \cup CategoryRoutes
        \cup RestaurantRoutes \cup DishRoutes \cup OrderRoutes
        \cup PaymentRoutes \cup ReviewRoutes \cup UploadRoutes

\* Routes without a body, a query or a parameter that a pipe could refuse.
\* (verify-email takes a plain string, which no pipe refuses.)
NoInput ==
    {"GET /health", "GET /", "POST /auth/sign-out", "POST /auth/refresh",
     "GET /auth/verify-email", "GET /categories", "GET /restaurants/my", "GET /orders"}
=============================================================================
