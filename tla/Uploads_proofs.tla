--------------------------- MODULE Uploads_proofs ---------------------------
(***************************************************************************)
(* Proofs about Requests and Uploads, for any number of requests, users,   *)
(* tokens and files, and for all routes of the program.                    *)
(***************************************************************************)
EXTENDS Uploads, TLAPS

-----------------------------------------------------------------------------
(* Routes                                                                  *)

\* What the properties need of a route: the global guards come first, declared
\* roles are enforced by the last guard, and a refresh token is asked for only
\* where no access token is.
GoodRoute(route) ==
    /\ Len(route.guards) \in 2 .. 4
    /\ route.guards[1] = "blacklist"
    /\ route.guards[2] = "access"
    /\ Len(route.guards) >= 3 /\ route.guards[3] # "access" => Public(route)
    /\ Len(route.guards) = 4 => route.guards[4] = "roles"
    /\ route.roles # {} => Len(route.guards) = 4

Owns == {<<>>, <<"access">>, <<"access", "roles">>, <<"refresh">>}

LEMMA GuardLists ==
    ASSUME NEW own \in Owns
    PROVE  /\ Len(GlobalGuards \o own) = 2 + Len(own)
           /\ (GlobalGuards \o own)[1] = "blacklist"
           /\ (GlobalGuards \o own)[2] = "access"
           /\ Len(own) >= 1 => (GlobalGuards \o own)[3] = own[1]
           /\ Len(own) >= 2 => (GlobalGuards \o own)[4] = own[2]
  <1>1. CASE own = <<>>
    BY <1>1 DEF GlobalGuards
  <1>2. CASE own = <<"access">>
    BY <1>2 DEF GlobalGuards
  <1>3. CASE own = <<"access", "roles">>
    BY <1>3 DEF GlobalGuards
  <1>4. CASE own = <<"refresh">>
    BY <1>4 DEF GlobalGuards
  <1> QED
    BY <1>1, <1>2, <1>3, <1>4 DEF Owns

\* The same for each kind of route.
LEMMA RouteIsGood ==
    ASSUME NEW path
    PROVE  /\ GoodRoute(Open(path)) /\ GoodRoute(Plain(path)) /\ GoodRoute(SignedIn(path))
           /\ \A role : GoodRoute(Only(role, path))
           /\ GoodRoute(Route(path, "public", <<"refresh">>, {}))
  <1>1. GoodRoute(Open(path)) /\ GoodRoute(Plain(path))
    <2> DEFINE g == GlobalGuards \o <<>>
    <2>1. Len(g) = 2 /\ g[1] = "blacklist" /\ g[2] = "access"
      BY GuardLists DEF Owns
    <2>2. /\ Open(path) = [path |-> path, entry |-> "public", guards |-> g, roles |-> {}]
          /\ Plain(path) = [path |-> path, entry |-> "token", guards |-> g, roles |-> {}]
      BY DEF Open, Plain, Route
    <2> HIDE DEF g
    <2>3. ASSUME NEW route, route.guards = g, route.roles = {}
          PROVE  GoodRoute(route)
      <3>1. Len(route.guards) = 2 /\ route.guards[1] = "blacklist" /\ route.guards[2] = "access"
        BY <2>1, <2>3
      <3>2. Len(route.guards) \in 2 .. 4 /\ ~(Len(route.guards) >= 3) /\ Len(route.guards) # 4
        BY <3>1
      <3> QED
        BY <2>3, <3>1, <3>2, Zenon DEF GoodRoute
    <2>4. \A route \in {Open(path), Plain(path)} : route.guards = g /\ route.roles = {}
      BY <2>2
    <2> QED
      BY <2>3, <2>4
  <1>2. GoodRoute(SignedIn(path))
    <2> DEFINE g == GlobalGuards \o <<"access">>
    <2>1. Len(g) = 3 /\ g[1] = "blacklist" /\ g[2] = "access" /\ g[3] = "access"
      BY GuardLists DEF Owns
    <2>2. SignedIn(path) = [path |-> path, entry |-> "token", guards |-> g, roles |-> {}]
      BY DEF SignedIn, Route
    <2> HIDE DEF g
    <2> QED
      BY <2>1, <2>2 DEF GoodRoute, Public
  <1>3. ASSUME NEW role PROVE GoodRoute(Only(role, path))
    <2> DEFINE g == GlobalGuards \o <<"access", "roles">>
    <2>1. /\ Len(g) = 4 /\ g[1] = "blacklist" /\ g[2] = "access"
          /\ g[3] = "access" /\ g[4] = "roles"
      BY GuardLists DEF Owns
    <2>2. Only(role, path) = [path |-> path, entry |-> "token", guards |-> g, roles |-> {role}]
      BY DEF Only, Route
    <2> HIDE DEF g
    <2> QED
      BY <2>1, <2>2 DEF GoodRoute, Public
  <1>4. GoodRoute(Route(path, "public", <<"refresh">>, {}))
    <2> DEFINE g == GlobalGuards \o <<"refresh">>
    <2>1. Len(g) = 3 /\ g[1] = "blacklist" /\ g[2] = "access"
      BY GuardLists DEF Owns
    <2>2. Route(path, "public", <<"refresh">>, {})
            = [path |-> path, entry |-> "public", guards |-> g, roles |-> {}]
      BY DEF Route
    <2> HIDE DEF g
    <2> QED
      BY <2>1, <2>2 DEF GoodRoute, Public
  <1> QED
    BY <1>1, <1>2, <1>3, <1>4

LEMMA RoutesAreGood == \A route \in AllRoutes : GoodRoute(route)
  BY RouteIsGood
  DEF AllRoutes, HealthRoutes, AuthRoutes, SignOut, Refresh, UserRoutes, CategoryRoutes,
      RestaurantRoutes, DishRoutes, OrderRoutes, PaymentRoutes, ReviewRoutes, UploadRoutes,
      UploadOne, UploadBatch

-----------------------------------------------------------------------------
(* The inductive invariant of Requests                                     *)

\* What the guards that have let q pass have found out about it, if its route is
\* not public: at first that the token is on no list, then that it is good.
Admitted(q) ==
    /\ q.passed >= 1 => q.token \in Tokens /\ (q.came = "late" => q.token \in expired)
    /\ q.passed >= 2 => q.came = "timely" /\ q.user = Holder[q.token]
    /\ q.passed = 4 /\ q.route.roles # {} => RoleOf[q.user] \in q.route.roles

RequestInv(q) ==
    /\ q.came = "late" => Useless(q.token, q.scheme)
    /\ q.step = "guards" => q.passed < Len(q.route.guards) /\ q.lookups = "done"
    /\ q.step \in {"pipes", "handler"} => q.passed = Len(q.route.guards) /\ q.lookups = "done"
    /\ q.step \in {"guards", "pipes", "handler"} /\ ~Public(q.route) => Admitted(q)
    /\ q.step = "answered" /\ ~Public(q.route) /\ q.code = 401 =>
           Useless(q.token, q.scheme) \/ q.lookups = "failed"

RInv == RequestTypeOK /\ \A r \in Slots : RequestInv(req[r])

USE RequestAssumption

LEMMA SignOutIsARoute == SignOut \in AllRoutes /\ ~Public(SignOut)
  BY DEF AllRoutes, AuthRoutes, SignOut, Plain, Route, Public

LEMMA IdleOK == Idle \in Requests
  BY SignOutIsARoute DEF Idle, Requests, Steps, Schemes, Codes

LEMMA RInit == RequestInit => RInv
  BY IdleOK DEF RequestInit, RInv, RequestTypeOK, RequestInv, Idle

\* More tokens on a list, and nothing else, keep the invariant.
LEMMA ListsGrow ==
    ASSUME RInv, req' = req,
           listed \subseteq listed', listed' \subseteq Tokens,
           expired \subseteq expired', expired' \subseteq Tokens
    PROVE  RInv'
  BY DEF RInv, RequestTypeOK, RequestInv, Admitted, Useless, isTokenBlacklisted

\* One request changes, and no list.
LEMMA OneRequest ==
    ASSUME RInv, NEW r \in Slots, NEW q \in Requests,
           req' = [req EXCEPT ![r] = q], UNCHANGED <<listed, expired>>, RequestInv(q)
    PROVE  RInv'
  <1>1. req' \in [Slots -> Requests] /\ req'[r] = q /\ \A s \in Slots \ {r} : req'[s] = req[s]
    BY DEF RInv, RequestTypeOK
  <1>2. \A x : RequestInv(x) => RequestInv(x)'
    BY DEF RequestInv, Admitted, Useless, isTokenBlacklisted
  <1>3. \A s \in Slots : RequestInv(req'[s])
    BY <1>1 DEF RInv
  <1> QED
    BY <1>1, <1>2, <1>3 DEF RInv, RequestTypeOK

\* A request is answered: only a 401 has to have a cause.
LEMMA AnswerKeeps ==
    ASSUME RInv, NEW r \in Slots, NEW code \in Codes, NEW lookups \in {"done", "failed"},
           Answer(r, code, lookups), UNCHANGED <<listed, expired>>,
           ~Public(req[r].route) /\ code = 401 /\ lookups = "done" =>
               Useless(req[r].token, req[r].scheme)
    PROVE  RInv'
  <1> DEFINE q1 == [req[r] EXCEPT !.step = "answered", !.code = code, !.lookups = lookups,
                                  !.came = "timely"]
             q2 == [q1 EXCEPT !.passed = 0]
             q3 == [q2 EXCEPT !.user = NoUser]
             q == [req[r] EXCEPT !.step = "answered", !.code = code, !.lookups = lookups,
                                 !.came = "timely", !.passed = 0, !.user = NoUser]
  <1>1. req[r] \in Requests
    BY DEF RInv, RequestTypeOK
  <1>2. q1 \in Requests
    BY <1>1 DEF Requests, Steps
  <1> HIDE DEF q1
  <1>3. q2 \in Requests
    BY <1>2 DEF Requests
  <1> HIDE DEF q2
  <1>4. q3 \in Requests
    BY <1>3 DEF Requests
  <1>5. q3 = q
    BY <1>1 DEF q1, q2, Requests
  <1>6. /\ q.step = "answered" /\ q.code = code /\ q.lookups = lookups /\ q.came = "timely"
        /\ q.route = req[r].route /\ q.token = req[r].token /\ q.scheme = req[r].scheme
    BY <1>1 DEF Requests
  <1>7. RequestInv(q)
    BY <1>6 DEF RequestInv
  <1>8. req' = [req EXCEPT ![r] = q]
    BY DEF Answer
  <1> QED
    BY <1>4, <1>5, <1>7, <1>8, OneRequest

\* A guard lets a request pass: what the guards have found out must still hold.
LEMMA PassKeeps ==
    ASSUME RInv, NEW r \in Slots, NEW user \in Users \cup {NoUser},
           At(r, "guards"), Pass(r, user), UNCHANGED <<listed, expired>>,
           ~Public(req[r].route) =>
               Admitted([req[r] EXCEPT !.passed = req[r].passed + 1, !.user = user])
    PROVE  RInv'
  <1> DEFINE n == req[r].passed + 1
             step == IF n = Len(req[r].route.guards) THEN "pipes" ELSE req[r].step
             q1 == [req[r] EXCEPT !.passed = n]
             q2 == [q1 EXCEPT !.user = user]
             q3 == [q2 EXCEPT !.step = step]
             q == [req[r] EXCEPT !.passed = n, !.user = user, !.step = step]
  <1>1. req[r] \in Requests /\ RequestInv(req[r]) /\ req[r].step = "guards"
    BY DEF RInv, RequestTypeOK, At
  <1>2. req[r].passed < Len(req[r].route.guards) /\ Len(req[r].route.guards) \in 2 .. 4
    BY <1>1, RoutesAreGood DEF RequestInv, GoodRoute, Requests
  <1>3. req[r].passed \in 0 .. 4 /\ req[r].lookups = "done"
    BY <1>1 DEF Requests, RequestInv
  <1>4. n \in 0 .. 4 /\ step \in Steps
    <2> DEFINE len == Len(req[r].route.guards)
    <2>1. len \in 2 .. 4 /\ req[r].passed < len /\ req[r].passed \in 0 .. 4
      BY <1>2, <1>3
    <2> HIDE DEF len
    <2>2. n \in 0 .. 4
      BY <2>1
    <2>3. step \in {"pipes", "guards"}
      BY <1>1
    <2> QED
      BY <2>2, <2>3 DEF Steps
  <1>5. /\ q.route = req[r].route /\ q.token = req[r].token /\ q.came = req[r].came
        /\ q.lookups = req[r].lookups /\ q.code = req[r].code /\ q.scheme = req[r].scheme
        /\ q.passed = n /\ q.user = user /\ q.step = step
    BY <1>1 DEF Requests
  <1>6. step \in {"guards", "pipes"} /\ (step = "guards" => n # Len(req[r].route.guards))
    BY <1>1
  <1>7. step = "pipes" => n = Len(req[r].route.guards)
    BY <1>1
  <1>8. ~Public(q.route) => Admitted(q)
    BY <1>5 DEF Admitted
  <1> HIDE DEF n, step
  <1>9. q1 \in Requests
    BY <1>1, <1>4 DEF Requests
  <1> HIDE DEF q1
  <1>10. q2 \in Requests
    BY <1>9 DEF Requests
  <1> HIDE DEF q2
  <1>11. q3 \in Requests
    BY <1>4, <1>10 DEF Requests
  <1>12. q3 = q
    BY <1>1 DEF q1, q2, Requests
  <1> HIDE DEF q, q3
  <1>13. RequestInv(q)
    BY <1>1, <1>2, <1>3, <1>5, <1>6, <1>7, <1>8 DEF RequestInv, n
  <1>14. req' = [req EXCEPT ![r] = q]
    BY DEF Pass, q, step, n
  <1> QED
    BY <1>11, <1>12, <1>13, <1>14, OneRequest

-----------------------------------------------------------------------------
(* The actions of Requests                                                 *)

LEMMA arriveKeeps ==
    ASSUME RInv, NEW r \in Slots, NEW route \in AllRoutes, NEW t \in Tokens \cup {NoToken},
           NEW scheme \in Schemes, arrive(r, route, t, scheme)
    PROVE  RInv'
  <1> DEFINE came == IF Useless(t, scheme) THEN "late" ELSE "timely"
             q == [Idle EXCEPT !.step = "guards", !.route = route, !.token = t,
                               !.scheme = scheme, !.came = came]
  <1>1. /\ q.step = "guards" /\ q.route = route /\ q.token = t /\ q.scheme = scheme /\ q.came = came
        /\ q.passed = 0 /\ q.lookups = "done"
    BY DEF Idle
  <1>2. came \in {"timely", "late"}
    OBVIOUS
  <1>3. q \in Requests
    BY <1>2, IdleOK DEF Requests, Steps
  <1>4. Len(route.guards) > 0
    BY RoutesAreGood DEF GoodRoute
  <1>5. came = "late" => Useless(t, scheme)
    OBVIOUS
  <1>6. req' = [req EXCEPT ![r] = q] /\ UNCHANGED <<listed, expired>>
    BY DEF arrive
  <1> HIDE DEF q, came
  <1>7. RequestInv(q)
    BY <1>1, <1>4, <1>5 DEF RequestInv, Admitted
  <1> QED
    BY <1>3, <1>6, <1>7, OneRequest

LEMMA expireKeeps ==
    ASSUME RInv, NEW t \in Tokens, expire(t)
    PROVE  RInv'
  <1>1. expired' \subseteq Tokens /\ expired \subseteq expired' /\ req' = req /\ listed' = listed
    BY DEF RInv, RequestTypeOK, expire
  <1> QED
    BY <1>1, ListsGrow DEF RInv, RequestTypeOK

LEMMA IdleKeeps == ASSUME RInv PROVE RequestInv(Idle)
  BY DEF RequestInv, Idle

LEMMA crashKeeps == ASSUME RInv, crash PROVE RInv'
  <1>1. \A r \in Slots : req'[r] = Idle
    BY DEF crash
  <1>2. RequestInv(Idle)'
    BY DEF RequestInv, Idle
  <1>3. req' \in [Slots -> Requests]
    BY IdleOK DEF crash
  <1> QED
    BY <1>1, <1>2, <1>3 DEF RInv, RequestTypeOK, crash

LEMMA finishKeeps == ASSUME RInv, NEW r \in Slots, finish(r) PROVE RInv'
  BY IdleOK, IdleKeeps, OneRequest DEF finish

\* A request at a guard that is not public.
LEMMA AtAGuard ==
    ASSUME RInv, NEW r \in Slots, NEW guard, NextGuard(r, guard)
    PROVE  /\ req[r] \in Requests /\ RequestInv(req[r]) /\ req[r].step = "guards"
           /\ GoodRoute(req[r].route)
           /\ req[r].passed \in 0 .. 3 /\ req[r].passed < Len(req[r].route.guards)
           /\ req[r].lookups = "done"
           /\ req[r].route.guards[req[r].passed + 1] = guard
           /\ ~Public(req[r].route) => Admitted(req[r])
  <1>1. req[r] \in Requests /\ RequestInv(req[r]) /\ req[r].step = "guards"
    BY DEF RInv, RequestTypeOK, NextGuard, At
  <1>2. GoodRoute(req[r].route)
    BY <1>1, RoutesAreGood DEF Requests
  <1>3. Len(req[r].route.guards) \in 2 .. 4 /\ req[r].passed \in 0 .. 4
    BY <1>1, <1>2 DEF GoodRoute, Requests
  <1>4. req[r].passed < Len(req[r].route.guards) /\ req[r].lookups = "done"
    BY <1>1 DEF RequestInv
  <1>5. ~Public(req[r].route) => Admitted(req[r])
    BY <1>1 DEF RequestInv
  <1>6. req[r].passed \in 0 .. 3
    <2> DEFINE len == Len(req[r].route.guards)
    <2>1. len \in 2 .. 4 /\ req[r].passed < len /\ req[r].passed \in 0 .. 4
      BY <1>3, <1>4
    <2> HIDE DEF len
    <2> QED
      BY <2>1
  <1> QED
    BY <1>1, <1>2, <1>4, <1>5, <1>6 DEF NextGuard

\* Which guard it is, on a route that is not public.
LEMMA WhichGuard ==
    ASSUME RInv, NEW r \in Slots, NEW guard, NextGuard(r, guard), ~Public(req[r].route)
    PROVE  /\ guard = "blacklist" => req[r].passed = 0
           /\ guard = "access" => req[r].passed \in {1, 2}
           /\ guard = "roles" => req[r].passed = 3
           /\ guard # "refresh"
  <1> DEFINE route == req[r].route
             len == Len(route.guards)
             passed == req[r].passed
  <1>1. GoodRoute(route) /\ ~Public(route)
    BY AtAGuard
  <1>2. passed \in 0 .. 3 /\ passed < len /\ route.guards[passed + 1] = guard
    BY AtAGuard
  <1>3. len \in 2 .. 4 /\ route.guards[1] = "blacklist" /\ route.guards[2] = "access"
    BY <1>1 DEF GoodRoute
  <1>4. len >= 3 => route.guards[3] = "access"
    BY <1>1, Zenon DEF GoodRoute
  <1>5. len = 4 => route.guards[4] = "roles"
    BY <1>1, Zenon DEF GoodRoute
  <1> HIDE DEF route, len
  <1>6. passed = 0 => guard = "blacklist"
    BY <1>2, <1>3
  <1>7. passed = 1 => guard = "access"
    BY <1>2, <1>3
  <1>8. passed = 2 => guard = "access"
    BY <1>2, <1>3, <1>4
  <1>9. passed = 3 => guard = "roles"
    BY <1>2, <1>3, <1>5
  <1> QED
    BY <1>2, <1>6, <1>7, <1>8, <1>9

\* The fields that a guard sets.
LEMMA PassedRecord ==
    ASSUME NEW x \in Requests, NEW n, NEW user
    PROVE  LET q == [x EXCEPT !.passed = n, !.user = user]
           IN  /\ q.passed = n /\ q.user = user
               /\ q.token = x.token /\ q.came = x.came /\ q.route = x.route
  BY DEF Requests

LEMMA blacklistGuardKeeps ==
    ASSUME RInv, NEW r \in Slots, blacklistGuard(r)
    PROVE  RInv'
  <1>1. UNCHANGED <<listed, expired>> /\ NextGuard(r, "blacklist") /\ At(r, "guards")
    BY DEF blacklistGuard, NextGuard
  <1>2. req[r] \in Requests /\ req[r].user \in Users \cup {NoUser}
    BY <1>1, AtAGuard DEF Requests
  <1>3. CASE Public(req[r].route) /\ Pass(r, req[r].user)
    BY <1>1, <1>2, <1>3, PassKeeps
  <1>4. CASE /\ ~Public(req[r].route) /\ Throw(r, 401)
             /\ req[r].token = NoToken \/ isTokenBlacklisted(req[r].token, req[r].scheme)
    BY <1>1, <1>4, AnswerKeeps DEF Throw, Codes, Useless, isTokenBlacklisted
  <1>5. CASE /\ ~Public(req[r].route) /\ Pass(r, req[r].user)
             /\ req[r].token \in Tokens /\ ~isTokenBlacklisted(req[r].token, req[r].scheme)
    <2>1. req[r].passed = 0 /\ RequestInv(req[r])
      BY <1>1, <1>5, AtAGuard, WhichGuard
    <2>2. req[r].token \in Tokens /\ (req[r].came = "late" => req[r].token \in expired)
      BY <1>5, <2>1 DEF RequestInv, Useless, isTokenBlacklisted
    <2> DEFINE q == [req[r] EXCEPT !.passed = req[r].passed + 1, !.user = req[r].user]
    <2>3. q.passed = 1 /\ q.token = req[r].token /\ q.came = req[r].came
      BY <1>2, <2>1, PassedRecord
    <2> HIDE DEF q
    <2>4. Admitted(q)
      BY <2>2, <2>3 DEF Admitted
    <2> QED
      BY <1>1, <1>2, <1>5, <2>4, PassKeeps DEF q
  <1>6. CASE ~Public(req[r].route) /\ req[r].token \in Tokens /\ Fail(r, 500)
    BY <1>1, <1>6, AnswerKeeps DEF Fail, Codes
  <1> QED
    BY <1>3, <1>4, <1>5, <1>6 DEF blacklistGuard

LEMMA accessTokenGuardKeeps ==
    ASSUME RInv, NEW r \in Slots, accessTokenGuard(r)
    PROVE  RInv'
  <1> DEFINE good == req[r].token \in Tokens \ expired
  <1>1. UNCHANGED <<listed, expired>> /\ NextGuard(r, "access") /\ At(r, "guards")
    BY DEF accessTokenGuard, NextGuard
  <1>2. /\ req[r] \in Requests /\ req[r].user \in Users \cup {NoUser}
        /\ req[r].token \in Tokens \cup {NoToken}
    BY <1>1, AtAGuard DEF Requests
  <1>3. CASE Public(req[r].route) /\ Pass(r, req[r].user)
    BY <1>1, <1>2, <1>3, PassKeeps
  <1>4. CASE ~Public(req[r].route) /\ ~good /\ Throw(r, 401)
    BY <1>1, <1>2, <1>4, AnswerKeeps DEF Throw, Codes, Useless
  <1>5. CASE ~Public(req[r].route) /\ good /\ Pass(r, validate(req[r].token))
    <2>1. req[r].passed \in {1, 2} /\ Admitted(req[r])
      BY <1>1, <1>5, AtAGuard, WhichGuard
    <2>2. req[r].came # "late"
      BY <1>5, <2>1 DEF Admitted
    <2>3. req[r].came = "timely"
      BY <1>2, <2>2 DEF Requests
    <2>4. Holder[req[r].token] \in Users
      BY <1>5
    <2> DEFINE q == [req[r] EXCEPT !.passed = req[r].passed + 1,
                                   !.user = Holder[req[r].token]]
    <2>5. /\ q.passed \in {2, 3} /\ q.token = req[r].token /\ q.came = req[r].came
          /\ q.user = Holder[req[r].token]
      BY <1>2, <2>1, PassedRecord
    <2> HIDE DEF q
    <2>6. Admitted(q)
      BY <1>5, <2>3, <2>5 DEF Admitted
    <2> QED
      BY <1>1, <1>5, <2>4, <2>6, PassKeeps DEF q, validate
  <1>6. CASE ~Public(req[r].route) /\ good /\ Fail(r, 401)
    BY <1>1, <1>6, AnswerKeeps DEF Fail, Codes
  <1> QED
    BY <1>3, <1>4, <1>5, <1>6 DEF accessTokenGuard

LEMMA rolesGuardKeeps ==
    ASSUME RInv, NEW r \in Slots, rolesGuard(r)
    PROVE  RInv'
  <1> DEFINE allowed == \/ req[r].route.roles = {}
                        \/ req[r].user # NoUser /\ RoleOf[req[r].user] \in req[r].route.roles
  <1>1. UNCHANGED <<listed, expired>> /\ NextGuard(r, "roles") /\ At(r, "guards")
    BY DEF rolesGuard, NextGuard
  <1>2. req[r] \in Requests /\ req[r].user \in Users \cup {NoUser}
    BY <1>1, AtAGuard DEF Requests
  <1>3. CASE allowed /\ Pass(r, req[r].user)
    <2> DEFINE q == [req[r] EXCEPT !.passed = req[r].passed + 1, !.user = req[r].user]
    <2>1. ASSUME ~Public(req[r].route) PROVE Admitted(q)
      <3>1. req[r].passed = 3 /\ Admitted(req[r])
        BY <1>1, <2>1, AtAGuard, WhichGuard
      <3>2. /\ q.passed = 4 /\ q.token = req[r].token /\ q.came = req[r].came
            /\ q.user = req[r].user /\ q.route = req[r].route
        BY <1>2, <3>1, PassedRecord
      <3> HIDE DEF q
      <3> QED
        BY <1>3, <3>1, <3>2 DEF Admitted
    <2> QED
      BY <1>1, <1>2, <1>3, <2>1, PassKeeps
  <1>4. CASE ~allowed /\ Throw(r, 403)
    BY <1>1, <1>4, AnswerKeeps DEF Throw, Codes
  <1> QED
    BY <1>3, <1>4 DEF rolesGuard

LEMMA refreshTokenGuardKeeps ==
    ASSUME RInv, NEW r \in Slots, refreshTokenGuard(r)
    PROVE  RInv'
  <1>1. UNCHANGED <<listed, expired>> /\ NextGuard(r, "refresh") /\ At(r, "guards")
    BY DEF refreshTokenGuard, NextGuard
  <1>2. Public(req[r].route)
    BY <1>1, WhichGuard
  <1>3. CASE Pass(r, NoUser)
    BY <1>1, <1>2, <1>3, PassKeeps
  <1>4. CASE Throw(r, 401)
    BY <1>1, <1>2, <1>4, AnswerKeeps DEF Throw, Codes
  <1> QED
    BY <1>3, <1>4 DEF refreshTokenGuard

LEMMA pipesKeeps == ASSUME RInv, NEW r \in Slots, pipes(r) PROVE RInv'
  <1>1. /\ req[r] \in Requests /\ RequestInv(req[r]) /\ req[r].step = "pipes"
        /\ UNCHANGED <<listed, expired>>
    BY DEF RInv, RequestTypeOK, pipes, At
  <1>2. CASE req' = [req EXCEPT ![r].step = "handler"]
    <2> DEFINE q == [req[r] EXCEPT !.step = "handler"]
    <2>1. q \in Requests
      BY <1>1 DEF Requests, Steps
    <2>2. /\ q.step = "handler" /\ q.route = req[r].route /\ q.token = req[r].token
          /\ q.scheme = req[r].scheme /\ q.came = req[r].came /\ q.passed = req[r].passed
          /\ q.user = req[r].user
          /\ q.lookups = req[r].lookups /\ q.code = req[r].code
      BY <1>1 DEF Requests
    <2>3. req' = [req EXCEPT ![r] = q]
      BY <1>2
    <2> HIDE DEF q
    <2>4. RequestInv(q)
      BY <1>1, <2>2 DEF RequestInv, Admitted
    <2> QED
      BY <1>1, <2>1, <2>3, <2>4, OneRequest
  <1>3. CASE Throw(r, 400)
    BY <1>1, <1>3, AnswerKeeps DEF Throw, Codes
  <1> QED
    BY <1>2, <1>3 DEF pipes

\* What the guards have found out about a request whose handler runs.
LEMMA InHandler ==
    ASSUME RInv, NEW r \in Slots, At(r, "handler"), ~Public(req[r].route)
    PROVE  /\ req[r].token \in Tokens /\ req[r].came = "timely" /\ req[r].lookups = "done"
           /\ req[r].user = Holder[req[r].token]
           /\ req[r].route.roles = {} \/ RoleOf[req[r].user] \in req[r].route.roles
  <1> DEFINE q == req[r]
             len == Len(q.route.guards)
  <1>1. q \in Requests /\ RequestInv(q) /\ q.step = "handler"
    BY DEF RInv, RequestTypeOK, At
  <1>2. GoodRoute(q.route)
    BY <1>1, RoutesAreGood DEF Requests
  <1>3. q.passed = len /\ q.lookups = "done" /\ Admitted(q)
    BY <1>1 DEF RequestInv
  <1>4. len \in 2 .. 4
    BY <1>2 DEF GoodRoute
  <1>5. q.route.roles # {} => len = 4
    BY <1>2, Zenon DEF GoodRoute
  <1>6. q.passed >= 1 /\ q.passed >= 2 /\ (q.route.roles # {} => q.passed = 4)
    <2> HIDE DEF q, len
    <2> QED
      BY <1>3, <1>4, <1>5
  <1> QED
    BY <1>3, <1>6 DEF Admitted

LEMMA signOutKeeps == ASSUME RInv, NEW r \in Slots, signOut(r) PROVE RInv'
  <1>1. At(r, "handler") /\ ~Public(req[r].route)
    BY SignOutIsARoute DEF signOut
  <1>2. req[r].token \in Tokens
    BY <1>1, InHandler
  <1>3. listed \subseteq listed' /\ listed' \subseteq Tokens /\ req' = req /\ expired' = expired
    BY <1>2 DEF signOut, RInv, RequestTypeOK
  <1> QED
    BY <1>3, ListsGrow DEF RInv, RequestTypeOK

LEMMA handlerReturnsKeeps == ASSUME RInv, NEW r \in Slots, handlerReturns(r) PROVE RInv'
  BY AnswerKeeps DEF handlerReturns, Codes

LEMMA OwnersCreateRestaurants ==
    ASSUME NEW route \in AllRoutes, route.path = "POST /restaurants"
    PROVE  route.roles = {"Owner"} /\ ~Public(route)
  <1>1. \A path, entry, own, roles :
            LET made == Route(path, entry, own, roles)
            IN  made.path = path /\ made.entry = entry /\ made.roles = roles
    BY DEF Route
  <1>2. \A path : /\ Open(path).path = path /\ Plain(path).path = path /\ SignedIn(path).path = path
                  /\ \A role : /\ Only(role, path).path = path
                               /\ Only(role, path).entry = "token"
                               /\ Only(role, path).roles = {role}
    BY DEF Open, Plain, SignedIn, Only, Route
  <1>3. SignOut.path # route.path /\ Refresh.path # route.path
    BY DEF SignOut, Refresh, Plain, Route
  <1>4. route \notin HealthRoutes \cup AuthRoutes \cup UserRoutes
    BY <1>2, <1>3 DEF HealthRoutes, AuthRoutes, UserRoutes
  <1>5. route \notin CategoryRoutes \cup DishRoutes \cup OrderRoutes
    BY <1>2 DEF CategoryRoutes, DishRoutes, OrderRoutes
  <1>6. route \notin PaymentRoutes \cup ReviewRoutes \cup UploadRoutes
    BY <1>2 DEF PaymentRoutes, ReviewRoutes, UploadRoutes, UploadOne, UploadBatch
  <1>7. route \in RestaurantRoutes
    BY <1>4, <1>5, <1>6 DEF AllRoutes
  <1>8. route = Only("Owner", "POST /restaurants")
    BY <1>2, <1>7 DEF RestaurantRoutes
  <1> QED
    BY <1>2, <1>8 DEF Public

\* The second look at the role never refuses anybody.
LEMMA NoRoleRefused == ASSUME RInv, NEW r \in Slots, At(r, "handler") PROVE ~RoleRefused(r)
  <1> SUFFICES ASSUME req[r].route.path = "POST /restaurants"
               PROVE  req[r].user # NoUser /\ RoleOf[req[r].user] = "Owner"
    BY DEF RoleRefused
  <1>1. req[r].route \in AllRoutes
    BY DEF RInv, RequestTypeOK, Requests
  <1>2. req[r].route.roles = {"Owner"} /\ ~Public(req[r].route)
    BY <1>1, OwnersCreateRestaurants
  <1>3. /\ req[r].token \in Tokens /\ req[r].user = Holder[req[r].token]
        /\ RoleOf[req[r].user] \in {"Owner"}
    BY <1>2, InHandler
  <1> QED
    BY <1>3

LEMMA handlerThrowsKeeps ==
    ASSUME RInv, NEW r \in Slots, NEW code \in Codes, handlerThrows(r, code)
    PROVE  RInv'
  BY AnswerKeeps, NoRoleRefused DEF handlerThrows, Throw

LEMMA RNext == RInv /\ [RequestNext]_requestVars => RInv'
  <1> SUFFICES ASSUME RInv, [RequestNext]_requestVars PROVE RInv'
    OBVIOUS
  <1>1. ASSUME NEW r \in Slots, NEW route \in Called[r], NEW t \in Tokens \cup {NoToken},
               NEW scheme \in Schemes, arrive(r, route, t, scheme)
        PROVE  RInv'
    BY <1>1, arriveKeeps
  <1>2. ASSUME NEW r \in Slots, Around(r) PROVE RInv'
    BY <1>2, blacklistGuardKeeps, accessTokenGuardKeeps, rolesGuardKeeps,
       refreshTokenGuardKeeps, pipesKeeps
    DEF Around, Guard
  <1>3. ASSUME NEW r \in Slots, Handler(r) PROVE RInv'
    BY <1>3, signOutKeeps, handlerReturnsKeeps, handlerThrowsKeeps DEF Handler
  <1>4. ASSUME NEW r \in Slots, finish(r) PROVE RInv'
    BY <1>4, finishKeeps
  <1>5. ASSUME NEW t \in Tokens, expire(t) PROVE RInv'
    BY <1>5, expireKeeps
  <1>6. CASE crash
    BY <1>6, crashKeeps
  <1>7. CASE UNCHANGED requestVars
    BY <1>7, ListsGrow DEF requestVars, RInv, RequestTypeOK
  <1> QED
    BY <1>1, <1>2, <1>3, <1>4, <1>5, <1>6, <1>7 DEF RequestNext

-----------------------------------------------------------------------------
(* Uploads does what Requests allows                                       *)

LEMMA UploadsStep == [Next]_vars => [RequestNext]_requestVars
  <1> SUFFICES ASSUME [Next]_vars PROVE [RequestNext]_requestVars
    OBVIOUS
  <1>1. ASSUME NEW r \in Slots, NEW route \in Called[r], NEW t \in Tokens \cup {NoToken},
               NEW scheme \in Schemes, arrive(r, route, t, scheme)
        PROVE  RequestNext
    BY <1>1 DEF RequestNext
  <1>2. ASSUME NEW r \in Slots, NEW code \in Codes, handlerThrows(r, code)
        PROVE  RequestNext
    BY <1>2 DEF RequestNext, Handler
  <1>3. ASSUME NEW r \in Slots, handlerReturns(r) PROVE RequestNext
    BY <1>3 DEF RequestNext, Handler
  <1>4. ASSUME NEW r \in Slots, UploadHandler(r) PROVE [RequestNext]_requestVars
    <2>1. CASE refuseFolder(r)
      BY <1>2, <2>1 DEF refuseFolder, Codes
    <2>2. CASE startPuts(r)
      BY <2>2 DEF startPuts
    <2>3. CASE returnUrls(r)
      BY <1>3, <2>3 DEF returnUrls
    <2>4. CASE throwFailure(r)
      BY <1>2, <2>4 DEF throwFailure, Codes
    <2> QED
      BY <1>4, <2>1, <2>2, <2>3, <2>4 DEF UploadHandler
  <1>5. ASSUME NEW r \in Slots, Serve(r) PROVE [RequestNext]_requestVars
    <2>1. CASE Around(r) \/ otherHandler(r)
      BY <2>1 DEF RequestNext, otherHandler
    <2>2. CASE finishUpload(r)
      BY <2>2 DEF RequestNext, finishUpload
    <2> QED
      BY <1>4, <1>5, <2>1, <2>2 DEF Serve
  <1>6. ASSUME NEW k \in Keys, EndPut(k) PROVE UNCHANGED requestVars
    BY <1>6 DEF EndPut, endPut
  <1>7. ASSUME NEW t \in Tokens, expire(t) PROVE RequestNext
    BY <1>7 DEF RequestNext
  <1>8. CASE crashUploads
    BY <1>8 DEF crashUploads, RequestNext
  <1>9. CASE UNCHANGED vars
    BY <1>9 DEF vars
  <1> QED
    BY <1>1, <1>5, <1>6, <1>7, <1>8, <1>9 DEF Next

\* The requests of Uploads run as Requests has them, whatever the handlers of the
\* upload routes do meanwhile (upload.controller.ts inside the pipeline).
THEOREM UploadsRunAsRequests == Spec => RunsAsRequests
  <1>1. Init => RequestInit
    BY DEF Init
  <1> QED
    BY <1>1, UploadsStep, PTL DEF Spec, RunsAsRequests, RequestSpec

\* What holds of every request at every step.
THEOREM RequestInvariant == Spec => []RInv
  <1>1. RequestSpec => []RInv
    BY RInit, RNext, PTL DEF RequestSpec
  <1> QED
    BY <1>1, UploadsRunAsRequests, PTL DEF RunsAsRequests

\* No request that comes too late, or whose token could not be looked up, reaches a
\* handler that is not public (jwtBlacklist.guard.ts, accessToken.guard.ts).
THEOREM NobodyIsAdmittedLate == Spec => []NoLateAdmission
  <1>1. RInv => NoLateAdmission
    BY InHandler DEF NoLateAdmission
  <1> QED
    BY <1>1, RequestInvariant, PTL

\* On all routes of the program a handler that is not public acts for the user of the
\* token, in a role the route declares (roles.guard.ts and the decorators).
THEOREM HandlersActForTheirUser == Spec => []ActsForItsUser
  <1>1. RInv => ActsForItsUser
    BY InHandler DEF ActsForItsUser
  <1> QED
    BY <1>1, RequestInvariant, PTL

\* A 401 to a token that is still good means that MySQL failed (accessToken.guard.ts).
THEOREM UnauthorizedIsCaused == Spec => []UnauthorizedHasACause
  <1>1. RInv => UnauthorizedHasACause
    BY DEF RInv, RequestInv, UnauthorizedHasACause, At
  <1> QED
    BY <1>1, RequestInvariant, PTL

-----------------------------------------------------------------------------
(* The inductive invariant of Uploads                                      *)

\* Only the handlers of the upload routes have keys, and they answer 200 with
\* stored ones or something else with a failed one among them.
SlotInv(r) ==
    /\ ofReq[r] # {} => req[r].route \in UploadRoutes /\ req[r].step \in {"handler", "answered"}
    /\ ofReq[r] # {} /\ req[r].step = "answered" /\ req[r].code = 200 =>
           \A k \in ofReq[r] : put[k] = "stored"
    /\ ofReq[r] # {} /\ req[r].step = "answered" /\ req[r].code # 200 =>
           \E k \in ofReq[r] : put[k] = "failed"
    /\ \A k \in ofReq[r] : k <= used /\ batch[k] = ofReq[r]

KeyInv(k) ==
    /\ k > used => put[k] = "none" /\ batch[k] = {}
    /\ k \in told => put[k] = "stored"
    /\ put[k] # "none" =>
           \/ k \in told \cup left \cup InFlight
           \/ \E other \in batch[k] : put[other] = "failed"

UInv ==
    /\ RInv
    /\ UploadsTypeOK
    /\ \A r \in Slots : SlotInv(r)
    /\ \A k \in Keys : KeyInv(k)

USE UploadAssumption

LEMMA UInit == Init => UInv
  <1> SUFFICES ASSUME Init PROVE UInv
    OBVIOUS
  <1>1. RInv
    BY RInit DEF Init
  <1>2. UploadsTypeOK
    BY <1>1 DEF Init, UploadsTypeOK, RInv, Fates, Keys
  <1>3. ASSUME NEW r \in Slots PROVE SlotInv(r)
    BY DEF Init, SlotInv
  <1>4. ASSUME NEW k \in Keys PROVE KeyInv(k)
    BY DEF Init, KeyInv
  <1> QED
    BY <1>1, <1>2, <1>3, <1>4 DEF UInv

\* Requests that have no keys move on.
LEMMA OthersMove ==
    ASSUME UInv, RInv', UNCHANGED uploadVars,
           \A r \in Slots : ofReq[r] # {} => req'[r] = req[r]
    PROVE  UInv'
  <1>1. UploadsTypeOK'
    BY DEF UInv, UploadsTypeOK, RInv, uploadVars
  <1>2. ASSUME NEW r \in Slots PROVE SlotInv(r)'
    BY DEF UInv, SlotInv, uploadVars
  <1>3. ASSUME NEW k \in Keys PROVE KeyInv(k)'
    <2>1. KeyInv(k)
      BY DEF UInv
    <2> QED
      BY <2>1 DEF KeyInv, InFlight, uploadVars
  <1> QED
    BY <1>1, <1>2, <1>3 DEF UInv

\* A step of one request leaves the others alone.
LEMMA OnlyThisSlot ==
    ASSUME RInv, NEW r \in Slots, Around(r) \/ Handler(r) \/ finish(r)
    PROVE  \A s \in Slots \ {r} : req'[s] = req[s]
  <1>1. req \in [Slots -> Requests]
    BY DEF RInv, RequestTypeOK
  <1> DEFINE Rest == \A s \in Slots \ {r} : req'[s] = req[s]
  <1>2. ASSUME NEW code, NEW lookups, Answer(r, code, lookups) PROVE Rest
    BY <1>1, <1>2 DEF Answer
  <1>3. ASSUME NEW user, Pass(r, user) PROVE Rest
    BY <1>1, <1>3 DEF Pass
  <1>4. ASSUME pipes(r), req' = [req EXCEPT ![r].step = "handler"] PROVE Rest
    BY <1>1, <1>4
  <1>5. ASSUME finish(r) PROVE Rest
    BY <1>1, <1>5 DEF finish
  <1>6. ASSUME signOut(r) PROVE Rest
    BY <1>6 DEF signOut
  <1> SUFFICES Rest
    OBVIOUS
  <1> HIDE DEF Rest
  <1>7. ASSUME NEW code, Throw(r, code) \/ Fail(r, code) PROVE Rest
    BY <1>2, <1>7 DEF Throw, Fail
  <1>8. CASE Guard(r)
    <2>1. CASE blacklistGuard(r)
      BY <1>3, <1>7, <2>1, Zenon DEF blacklistGuard
    <2>2. CASE accessTokenGuard(r)
      BY <1>3, <1>7, <2>2, Zenon DEF accessTokenGuard
    <2>3. CASE rolesGuard(r)
      BY <1>3, <1>7, <2>3, Zenon DEF rolesGuard
    <2>4. CASE refreshTokenGuard(r)
      BY <1>3, <1>7, <2>4, Zenon DEF refreshTokenGuard
    <2> QED
      BY <1>8, <2>1, <2>2, <2>3, <2>4 DEF Guard
  <1>9. CASE pipes(r)
    BY <1>4, <1>7, <1>9, Zenon DEF pipes
  <1>10. CASE Handler(r)
    BY <1>2, <1>6, <1>7, <1>10, Zenon DEF Handler, handlerReturns, handlerThrows
  <1> QED
    BY <1>5, <1>8, <1>9, <1>10 DEF Around

\* Before its handler runs, and in a handler of another route, a request has no keys.
LEMMA NoKeys ==
    ASSUME UInv, NEW r \in Slots,
           req[r].step \notin {"handler", "answered"} \/ req[r].route \notin UploadRoutes
    PROVE  ofReq[r] = {}
  BY DEF UInv, SlotInv

LEMMA arriveUploads ==
    ASSUME UInv, RInv', NEW r \in Slots, NEW route, NEW t, NEW scheme,
           arrive(r, route, t, scheme), UNCHANGED uploadVars
    PROVE  UInv'
  <1>1. ofReq[r] = {}
    BY NoKeys DEF arrive, At
  <1>2. \A s \in Slots \ {r} : req'[s] = req[s]
    BY DEF UInv, RInv, RequestTypeOK, arrive
  <1> QED
    BY <1>1, <1>2, OthersMove

LEMMA aroundUploads ==
    ASSUME UInv, RInv', NEW r \in Slots, Around(r) \/ otherHandler(r), UNCHANGED uploadVars
    PROVE  UInv'
  <1>1. ofReq[r] = {}
    BY NoKeys
    DEF Around, Guard, blacklistGuard, accessTokenGuard, rolesGuard, refreshTokenGuard, pipes,
        NextGuard, At, otherHandler
  <1>2. \A s \in Slots \ {r} : req'[s] = req[s]
    BY OnlyThisSlot DEF UInv, otherHandler
  <1> QED
    BY <1>1, <1>2, OthersMove

LEMMA refuseFolderUploads ==
    ASSUME UInv, RInv', NEW r \in Slots, refuseFolder(r)
    PROVE  UInv'
  <1>1. ofReq[r] = {} /\ UNCHANGED uploadVars
    BY DEF refuseFolder
  <1>2. \A s \in Slots \ {r} : req'[s] = req[s]
    BY OnlyThisSlot DEF UInv, refuseFolder, Handler, Codes
  <1> QED
    BY <1>1, <1>2, OthersMove

\* A request with keys is answered: its keys account for the answer.
LEMMA AnswerUploads ==
    ASSUME UInv, RInv', NEW r \in Slots, NEW code \in Codes, Uploading(r),
           Answer(r, code, "done"), UNCHANGED uploadVars,
           code = 200 => \A k \in ofReq[r] : put[k] = "stored",
           code # 200 => \E k \in ofReq[r] : put[k] = "failed"
    PROVE  UInv'
  <1>1. req[r] \in Requests /\ req \in [Slots -> Requests]
    BY DEF UInv, RInv, RequestTypeOK
  <1>2. \A s \in Slots \ {r} : req'[s] = req[s]
    BY <1>1 DEF Answer
  <1>3. req'[r].step = "answered" /\ req'[r].code = code /\ req'[r].route = req[r].route
    BY <1>1 DEF Answer, Requests
  <1>4. SlotInv(r)'
    BY <1>3 DEF UInv, SlotInv, uploadVars, Uploading
  <1>5. ASSUME NEW s \in Slots \ {r} PROVE SlotInv(s)'
    BY <1>2 DEF UInv, SlotInv, uploadVars
  <1>6. ASSUME NEW k \in Keys PROVE KeyInv(k)'
    <2>1. KeyInv(k)
      BY DEF UInv
    <2> QED
      BY <2>1 DEF KeyInv, InFlight, uploadVars
  <1>7. UploadsTypeOK'
    BY DEF UInv, UploadsTypeOK, RInv, uploadVars
  <1> QED
    BY <1>4, <1>5, <1>6, <1>7 DEF UInv

LEMMA returnUrlsUploads ==
    ASSUME UInv, RInv', NEW r \in Slots, returnUrls(r)
    PROVE  UInv'
  BY AnswerUploads DEF returnUrls, handlerReturns, Codes

LEMMA throwFailureUploads ==
    ASSUME UInv, RInv', NEW r \in Slots, throwFailure(r)
    PROVE  UInv'
  BY AnswerUploads DEF throwFailure, handlerThrows, Throw, Codes

LEMMA startPutsUploads ==
    ASSUME UInv, RInv', NEW r \in Slots, startPuts(r)
    PROVE  UInv'
  <1>1. PICK files \in 1 .. Most(req[r].route) :
            LET keys == used + 1 .. used + files
            IN  /\ used + files <= MaxKeys
                /\ used' = used + files
                /\ put' = [k \in Keys |-> IF k \in keys THEN "sending" ELSE put[k]]
                /\ batch' = [k \in Keys |-> IF k \in keys THEN keys ELSE batch[k]]
                /\ ofReq' = [ofReq EXCEPT ![r] = keys]
    BY DEF startPuts
  <1> DEFINE keys == used + 1 .. used + files
  <1>2. /\ Uploading(r) /\ ofReq[r] = {} /\ told' = told /\ left' = left
        /\ req' = req /\ listed' = listed /\ expired' = expired
    BY DEF startPuts, requestVars
  <1>3. used \in 0 .. MaxKeys /\ Most(req[r].route) \in Nat
    BY DEF UInv, UploadsTypeOK, Most
  <1>4. files \in Nat \ {0}
    BY <1>1, <1>3
  <1>5. keys \subseteq Keys /\ used' \in 0 .. MaxKeys /\ used < used'
    BY <1>1, <1>3, <1>4 DEF Keys
  <1>6. \A k \in Keys : (k \in keys => k > used /\ k <= used') /\ (k > used' => k > used)
    BY <1>1, <1>3, <1>4 DEF Keys
  <1>7. /\ \A k \in keys : put'[k] = "sending" /\ batch'[k] = keys
        /\ \A k \in Keys \ keys : put'[k] = put[k] /\ batch'[k] = batch[k]
        /\ ofReq'[r] = keys /\ \A s \in Slots \ {r} : ofReq'[s] = ofReq[s]
    BY <1>1, <1>5 DEF UInv, UploadsTypeOK
  <1>8. UploadsTypeOK'
    <2>1. RequestTypeOK' /\ used' \in 0 .. MaxKeys /\ told' \subseteq Keys /\ left' \subseteq Keys
      BY <1>2, <1>5 DEF UInv, RInv, UploadsTypeOK
    <2>2. put' \in [Keys -> Fates]
      BY <1>1 DEF UInv, UploadsTypeOK, Fates
    <2>3. batch' \in [Keys -> SUBSET Keys] /\ ofReq' \in [Slots -> SUBSET Keys]
      BY <1>1, <1>5 DEF UInv, UploadsTypeOK
    <2> QED
      BY <2>1, <2>2, <2>3 DEF UploadsTypeOK
  <1> HIDE DEF keys
  <1>9. SlotInv(r)'
    BY <1>2, <1>5, <1>6, <1>7 DEF SlotInv, Uploading, At
  <1>10. ASSUME NEW s \in Slots \ {r} PROVE SlotInv(s)'
    <2>1. SlotInv(s) /\ ofReq[s] \subseteq Keys
      BY DEF UInv, UploadsTypeOK
    <2>2. \A k \in ofReq[s] : k \notin keys /\ k <= used'
      <3> SUFFICES ASSUME NEW k \in ofReq[s] PROVE k \notin keys /\ k <= used'
        OBVIOUS
      <3>1. k <= used /\ k \in Keys
        BY <2>1 DEF SlotInv
      <3>2. ~(k > used)
        BY <1>3, <3>1 DEF Keys
      <3> QED
        BY <1>3, <1>5, <1>6, <3>1, <3>2 DEF Keys
    <2> QED
      BY <1>2, <1>7, <2>1, <2>2 DEF SlotInv
  <1>11. InFlight' = InFlight \cup keys
    BY <1>2, <1>7 DEF InFlight
  <1>12. ASSUME NEW k \in Keys PROVE KeyInv(k)'
    <2>1. KeyInv(k)
      BY DEF UInv
    <2>2. CASE k \in keys
      <3>1. k > used /\ k <= used' /\ ~(k > used')
        BY <1>3, <1>5, <1>6, <2>2 DEF Keys
      <3>2. k \notin told
        BY <2>1, <3>1 DEF KeyInv
      <3> QED
        BY <1>2, <1>11, <2>2, <3>1, <3>2 DEF KeyInv
    <2>3. CASE k \notin keys
      <3>1. put'[k] = put[k] /\ batch'[k] = batch[k]
        BY <1>7, <2>3
      <3>2. \A other \in Keys : put[other] = "failed" => put'[other] = "failed"
        <4> SUFFICES ASSUME NEW other \in Keys, put[other] = "failed" PROVE other \notin keys
          BY <1>7
        <4>1. KeyInv(other)
          BY DEF UInv
        <4> QED
          BY <1>6, <4>1 DEF KeyInv
      <3>3. batch[k] \subseteq Keys
        BY DEF UInv, UploadsTypeOK
      <3>4. k > used' => k > used
        BY <1>6
      <3> QED
        BY <1>2, <1>11, <2>1, <3>1, <3>2, <3>3, <3>4 DEF KeyInv
    <2> QED
      BY <2>2, <2>3
  <1> QED
    BY <1>8, <1>9, <1>10, <1>12 DEF UInv

LEMMA endPutUploads ==
    ASSUME UInv, RInv', NEW key \in Keys, NEW fate \in {"stored", "failed"}, endPut(key, fate)
    PROVE  UInv'
  <1>1. /\ put[key] = "sending" /\ put' = [put EXCEPT ![key] = fate]
        /\ req' = req /\ used' = used /\ ofReq' = ofReq /\ batch' = batch
        /\ told' = told /\ left' = left
    BY DEF endPut, requestVars
  <1>2. put \in [Keys -> Fates] /\ ofReq \in [Slots -> SUBSET Keys] /\ batch \in [Keys -> SUBSET Keys]
    BY DEF UInv, UploadsTypeOK
  <1>3. put'[key] = fate /\ \A k \in Keys \ {key} : put'[k] = put[k]
    BY <1>1, <1>2
  <1>4. \A k \in Keys : /\ put[k] = "stored" => put'[k] = "stored"
                        /\ put[k] = "failed" => put'[k] = "failed"
    BY <1>1, <1>3
  <1>5. UploadsTypeOK'
    <2>1. put' \in [Keys -> Fates]
      BY <1>1, <1>2 DEF Fates
    <2> QED
      BY <1>1, <2>1 DEF UInv, RInv, UploadsTypeOK
  <1>6. ASSUME NEW s \in Slots PROVE SlotInv(s)'
    <2>1. SlotInv(s) /\ ofReq[s] \subseteq Keys
      BY <1>2 DEF UInv
    <2> QED
      BY <1>1, <1>4, <2>1 DEF SlotInv
  <1>7. ASSUME NEW k \in Keys PROVE KeyInv(k)'
    <2>1. KeyInv(k) /\ KeyInv(key) /\ batch[k] \subseteq Keys /\ InFlight' = InFlight
      BY <1>1, <1>2 DEF UInv, InFlight
    <2>2. put'[k] # "none" => put[k] # "none"
      BY <1>1, <1>3
    <2>3. put[k] = "none" => put'[k] = "none"
      BY <1>1, <1>3
    <2> QED
      BY <1>1, <1>4, <2>1, <2>2, <2>3 DEF KeyInv
  <1> QED
    BY <1>5, <1>6, <1>7 DEF UInv

LEMMA finishUploads ==
    ASSUME UInv, RInv', NEW r \in Slots, finishUpload(r)
    PROVE  UInv'
  <1>1. /\ finish(r) /\ ofReq' = [ofReq EXCEPT ![r] = {}]
        /\ used' = used /\ put' = put /\ batch' = batch
        /\ req[r].step = "answered"
    BY DEF finishUpload, finish, At
  <1>2. ofReq \in [Slots -> SUBSET Keys] /\ ofReq[r] \subseteq Keys
    BY DEF UInv, UploadsTypeOK
  <1>3. ofReq'[r] = {} /\ \A s \in Slots \ {r} : req'[s] = req[s] /\ ofReq'[s] = ofReq[s]
    BY <1>1, <1>2, OnlyThisSlot DEF UInv
  <1>5. /\ \/ req[r].code = 200 /\ told' = told \cup ofReq[r] /\ left' = left
           \/ req[r].code # 200 /\ told' = told /\ left' = left
           \/ told' = told /\ left' = left \cup ofReq[r]
    BY DEF finishUpload
  <1>6. SlotInv(r)
    BY DEF UInv
  <1>7. UploadsTypeOK'
    <2>1. told' \subseteq Keys /\ left' \subseteq Keys
      BY <1>2, <1>5 DEF UInv, UploadsTypeOK
    <2>2. ofReq' \in [Slots -> SUBSET Keys]
      BY <1>1, <1>2
    <2> QED
      BY <1>1, <2>1, <2>2 DEF UInv, RInv, UploadsTypeOK
  <1>8. ASSUME NEW s \in Slots PROVE SlotInv(s)'
    <2>1. SlotInv(s)
      BY DEF UInv
    <2>2. CASE s = r
      BY <1>3, <2>2 DEF SlotInv
    <2>3. CASE s # r
      BY <1>1, <1>3, <2>1, <2>3 DEF SlotInv
    <2> QED
      BY <2>2, <2>3
  <1>9. InFlight \subseteq InFlight' \cup ofReq[r]
    BY <1>3 DEF InFlight
  <1>10. ASSUME NEW k \in Keys PROVE KeyInv(k)'
    <2>1. KeyInv(k)
      BY DEF UInv
    <2>2. k \in told' => put'[k] = "stored"
      BY <1>1, <1>5, <1>6, <2>1 DEF KeyInv, SlotInv
    <2>3. k \in ofReq[r] => \/ k \in told' \cup left'
                            \/ \E other \in batch[k] : put[other] = "failed"
      <3> SUFFICES ASSUME k \in ofReq[r], req[r].code # 200
                   PROVE  \E other \in batch[k] : put[other] = "failed"
        BY <1>5
      <3>1. batch[k] = ofReq[r] /\ \E other \in ofReq[r] : put[other] = "failed"
        BY <1>1, <1>6 DEF SlotInv
      <3> QED
        BY <3>1
    <2>4. told \subseteq told' /\ left \subseteq left'
      BY <1>5
    <2>5. put[k] # "none" => \/ k \in told' \cup left' \cup InFlight'
                             \/ \E other \in batch[k] : put[other] = "failed"
      BY <1>9, <2>1, <2>3, <2>4, Zenon DEF KeyInv
    <2>6. k > used => put[k] = "none" /\ batch[k] = {}
      BY <2>1 DEF KeyInv
    <2> QED
      BY <1>1, <2>2, <2>5, <2>6 DEF KeyInv
  <1> QED
    BY <1>7, <1>8, <1>10 DEF UInv

LEMMA crashUploadsKeeps ==
    ASSUME UInv, RInv', crashUploads
    PROVE  UInv'
  <1>1. /\ left' = left \cup InFlight /\ ofReq' = [r \in Slots |-> {}]
        /\ used' = used /\ put' = put /\ batch' = batch /\ told' = told
    BY DEF crashUploads
  <1>2. InFlight \subseteq Keys /\ InFlight' = {}
    BY <1>1 DEF UInv, UploadsTypeOK, InFlight
  <1>3. UploadsTypeOK'
    BY <1>1, <1>2 DEF UInv, RInv, UploadsTypeOK
  <1>4. ASSUME NEW s \in Slots PROVE SlotInv(s)'
    BY <1>1 DEF SlotInv
  <1>5. ASSUME NEW k \in Keys PROVE KeyInv(k)'
    <2>1. KeyInv(k)
      BY DEF UInv
    <2> QED
      BY <1>1, <2>1 DEF KeyInv
  <1> QED
    BY <1>3, <1>4, <1>5 DEF UInv

LEMMA UNext == UInv /\ [Next]_vars => UInv'
  <1> SUFFICES ASSUME UInv, [Next]_vars PROVE UInv'
    OBVIOUS
  <1>1. RInv'
    BY UploadsStep, RNext DEF UInv
  <1>2. ASSUME NEW r \in Slots, Serve(r) PROVE UInv'
    BY <1>1, <1>2, aroundUploads, refuseFolderUploads, startPutsUploads, returnUrlsUploads,
       throwFailureUploads, finishUploads
    DEF Serve, UploadHandler
  <1>3. ASSUME NEW r \in Slots, NEW route \in Called[r], NEW t \in Tokens \cup {NoToken},
               NEW scheme \in Schemes, arrive(r, route, t, scheme), UNCHANGED uploadVars
        PROVE  UInv'
    BY <1>1, <1>3, arriveUploads
  <1>4. ASSUME NEW k \in Keys, EndPut(k) PROVE UInv'
    BY <1>1, <1>4, endPutUploads DEF EndPut
  <1>5. ASSUME NEW t \in Tokens, expire(t), UNCHANGED uploadVars PROVE UInv'
    BY <1>1, <1>5, OthersMove DEF expire
  <1>6. CASE crashUploads
    BY <1>1, <1>6, crashUploadsKeeps
  <1>7. CASE UNCHANGED vars
    BY <1>1, <1>7, OthersMove DEF vars, requestVars
  <1> QED
    BY <1>2, <1>3, <1>4, <1>5, <1>6, <1>7 DEF Next

\* Requests, keys and objects agree at every step.
THEOREM UploadsInvariant == Spec => []UInv
  BY UInit, UNext, PTL DEF Spec

\* Every reachable state has the declared types.
THEOREM UploadsTypeCorrect == Spec => []UploadsTypeOK
  <1>1. UInv => UploadsTypeOK
    BY DEF UInv
  <1> QED
    BY <1>1, UploadsInvariant, PTL

\* A client is given URLs of stored objects only (aws-s3.service.ts, Promise.all).
THEOREM ToldUrlsAreStored == Spec => []ToldIsStored
  <1>1. UInv => ToldIsStored
    BY DEF UInv, UploadsTypeOK, KeyInv, ToldIsStored
  <1> QED
    BY <1>1, UploadsInvariant, PTL

\* What else is in the bucket is left by a lost client, a lost process or a batch of
\* which another put failed (aws-s3.service.ts).
THEOREM StraysAreCaused == Spec => []StrayHasACause
  <1>1. UInv => StrayHasACause
    BY DEF UInv, KeyInv, StrayHasACause
  <1> QED
    BY <1>1, UploadsInvariant, PTL

-----------------------------------------------------------------------------
(* Every step counts                                                       *)

LEMMA LeftValues ==
    ASSUME NEW q \in Requests, NEW keys, NEW signedOut
    PROVE  /\ q.step = "idle" => Left(q, keys, signedOut) = 0
           /\ q.step = "answered" => Left(q, keys, signedOut) = 1
           /\ q.step = "handler" => Left(q, keys, signedOut) \in 2 .. 4
           /\ q.step = "pipes" => Left(q, keys, signedOut) = 5
           /\ q.step = "guards" => Left(q, keys, signedOut) = 10 - q.passed
           /\ Left(q, keys, signedOut) \in 0 .. 10
  BY DEF Left, Requests, Steps

\* The part that the handlers count.
LEMMA LeftInHandler ==
    ASSUME NEW q \in Requests, q.step = "handler",
           NEW keys, NEW more, keys # {} => more # {},
           NEW signedOut, NEW later, signedOut \subseteq later
    PROVE  /\ Left(q, more, later) <= Left(q, keys, signedOut)
           /\ keys = {} /\ more # {} => Left(q, more, later) < Left(q, keys, signedOut)
           /\ q.token \notin signedOut /\ q.token \in later =>
                 Left(q, more, later) < Left(q, keys, signedOut)
  BY DEF Left

\* Nobody takes a request back: its own record and keys are untouched, and the
\* blacklist only grows.
LEMMA OthersLeave ==
    ASSUME RInv, NEW r \in Slots, req'[r] = req[r], ofReq'[r] = ofReq[r], listed \subseteq listed'
    PROVE  StepsLeft(r)' <= StepsLeft(r)
  <1>1. req[r] \in Requests
    BY DEF RInv, RequestTypeOK
  <1>2. CASE req[r].step = "handler"
    BY <1>1, <1>2, LeftInHandler DEF StepsLeft
  <1>3. CASE req[r].step # "handler"
    <2>1. Left(req[r], ofReq[r], listed') = Left(req[r], ofReq[r], listed)
      BY <1>1, <1>3 DEF Left, Requests, Steps
    <2>2. Left(req[r], ofReq[r], listed) \in 0 .. 10
      BY <1>1, LeftValues
    <2> QED
      BY <2>1, <2>2 DEF StepsLeft
  <1> QED
    BY <1>2, <1>3

\* An answer is one step from the end.
LEMMA AnswerCounts ==
    ASSUME RInv, RInv', NEW r \in Slots, NEW code, NEW lookups, Answer(r, code, lookups),
           req[r].step \in {"guards", "pipes", "handler"}
    PROVE  StepsLeft(r)' < StepsLeft(r)
  <1>1. req[r] \in Requests /\ req'[r] \in Requests /\ RequestInv(req[r])
    BY DEF RInv, RequestTypeOK
  <1>2. req'[r].step = "answered"
    BY <1>1 DEF Answer, RInv, RequestTypeOK, Requests
  <1>3. StepsLeft(r)' = 1
    BY <1>1, <1>2, LeftValues DEF StepsLeft
  <1>4. StepsLeft(r) \in 2 .. 10
    BY <1>1, LeftValues DEF StepsLeft, Requests
  <1> QED
    BY <1>3, <1>4

LEMMA GuardCounts ==
    ASSUME RInv, RInv', NEW r \in Slots, Guard(r)
    PROVE  StepsLeft(r)' < StepsLeft(r)
  <1>1. \/ \E user : Pass(r, user)
        \/ \E code, lookups : Answer(r, code, lookups)
    BY Zenon DEF Guard, blacklistGuard, accessTokenGuard, rolesGuard, refreshTokenGuard, Throw, Fail
  <1>2. At(r, "guards") /\ req[r] \in Requests /\ req'[r] \in Requests /\ req[r].passed \in 0 .. 4
    BY DEF Guard, blacklistGuard, accessTokenGuard, rolesGuard, refreshTokenGuard, NextGuard,
           RInv, RequestTypeOK, Requests
  <1>3. StepsLeft(r) = 10 - req[r].passed
    BY <1>2, LeftValues DEF StepsLeft, At
  <1>4. ASSUME NEW user, Pass(r, user) PROVE StepsLeft(r)' < StepsLeft(r)
    <2>1. /\ req'[r].passed = req[r].passed + 1
          /\ req'[r].step \in {"pipes", "guards"}
      BY <1>2, <1>4 DEF Pass, At, RInv, RequestTypeOK, Requests
    <2>2. StepsLeft(r)' = 5 \/ StepsLeft(r)' = 10 - (req[r].passed + 1)
      BY <1>2, <2>1, LeftValues DEF StepsLeft
    <2> QED
      BY <1>2, <1>3, <2>2
  <1>5. ASSUME NEW code, NEW lookups, Answer(r, code, lookups) PROVE StepsLeft(r)' < StepsLeft(r)
    BY <1>2, <1>5, AnswerCounts DEF At
  <1> QED
    BY <1>1, <1>4, <1>5

LEMMA ServeCounts ==
    ASSUME UInv, RInv', UploadsTypeOK', NEW r \in Slots, Serve(r)
    PROVE  StepsLeft(r)' < StepsLeft(r)
  <1>0. RInv /\ req[r] \in Requests /\ req'[r] \in Requests
    BY DEF UInv, RInv, RequestTypeOK
  <1>1. CASE Guard(r)
    BY <1>0, <1>1, GuardCounts
  <1>2. CASE pipes(r)
    <2>1. req[r].step = "pipes" /\ StepsLeft(r) = 5
      BY <1>0, <1>2, LeftValues DEF pipes, At, StepsLeft
    <2>2. CASE req' = [req EXCEPT ![r].step = "handler"]
      <3>1. req'[r].step = "handler"
        BY <1>0, <2>2 DEF RInv, RequestTypeOK, Requests
      <3>2. StepsLeft(r)' \in 2 .. 4
        BY <1>0, <3>1, LeftValues DEF StepsLeft
      <3> QED
        BY <2>1, <3>2
    <2> QED
      BY <1>0, <1>2, <2>1, <2>2, AnswerCounts DEF pipes, Throw
  <1>3. ASSUME \E code : Throw(r, code) \/ handlerThrows(r, code) \/ handlerReturns(r),
               At(r, "handler")
        PROVE  StepsLeft(r)' < StepsLeft(r)
    BY <1>0, <1>3, AnswerCounts DEF handlerThrows, handlerReturns, Throw, At
  <1>4. CASE otherHandler(r) /\ UNCHANGED uploadVars
    <2>1. CASE signOut(r)
      <3>1. /\ req'[r] = req[r] /\ ofReq'[r] = ofReq[r] /\ req[r].step = "handler"
            /\ req[r].token \notin listed /\ req[r].token \in listed' /\ listed \subseteq listed'
        BY <1>4, <2>1 DEF signOut, uploadVars, At
      <3> QED
        BY <1>0, <3>1, LeftInHandler DEF StepsLeft
    <2>2. CASE handlerReturns(r) \/ \E code \in Codes : handlerThrows(r, code)
      BY <1>3, <2>2 DEF handlerReturns, handlerThrows
    <2> QED
      BY <1>4, <2>1, <2>2 DEF otherHandler, Handler
  <1>5. CASE refuseFolder(r) \/ returnUrls(r) \/ throwFailure(r)
    BY <1>3, <1>5 DEF refuseFolder, returnUrls, throwFailure, Uploading
  <1>6. CASE startPuts(r)
    <2>1. PICK files \in 1 .. Most(req[r].route) : ofReq' = [ofReq EXCEPT ![r] = used + 1 .. used + files]
      BY <1>6 DEF startPuts
    <2>2. used \in Nat /\ files \in Nat /\ files >= 1
      BY <2>1 DEF UInv, UploadsTypeOK, Most
    <2>3. used + 1 \in used + 1 .. used + files
      BY <2>2
    <2>4. ofReq'[r] # {} /\ ofReq[r] = {} /\ req'[r] = req[r] /\ listed' = listed
          /\ req[r].step = "handler"
      BY <1>6, <2>1, <2>3 DEF startPuts, requestVars, Uploading, At, UInv, UploadsTypeOK
    <2> QED
      BY <1>0, <2>4, LeftInHandler DEF StepsLeft
  <1>7. CASE finishUpload(r)
    <2>1. req[r].step = "answered" /\ req'[r].step = "idle"
      BY <1>0, <1>7 DEF finishUpload, finish, At, Idle, RInv, RequestTypeOK
    <2>2. StepsLeft(r) = 1 /\ StepsLeft(r)' = 0
      BY <1>0, <2>1, LeftValues DEF StepsLeft
    <2> QED
      BY <2>2
  <1> QED
    BY <1>1, <1>2, <1>4, <1>5, <1>6, <1>7 DEF Serve, Around, UploadHandler

\* What a step of one slot leaves of the others.
LEMMA ServeLeaves ==
    ASSUME UInv, NEW s \in Slots, Serve(s), NEW r \in Slots \ {s}
    PROVE  req'[r] = req[r] /\ ofReq'[r] = ofReq[r] /\ listed \subseteq listed'
  <1>0. RInv /\ ofReq \in [Slots -> SUBSET Keys]
    BY DEF UInv, UploadsTypeOK
  <1>1. CASE (Around(s) \/ otherHandler(s)) /\ UNCHANGED uploadVars
    <2>1. req'[r] = req[r]
      BY <1>0, <1>1, OnlyThisSlot DEF otherHandler
    <2>2. listed \subseteq listed'
      BY <1>1, Zenon DEF Around, Guard, blacklistGuard, accessTokenGuard, rolesGuard, refreshTokenGuard,
                   pipes, otherHandler, Handler, signOut, handlerReturns, handlerThrows
    <2> QED
      BY <1>1, <2>1, <2>2 DEF uploadVars
  <1>2. CASE refuseFolder(s) \/ returnUrls(s) \/ throwFailure(s)
    <2>1. Handler(s) /\ UNCHANGED uploadVars /\ UNCHANGED listed
      BY <1>2 DEF refuseFolder, returnUrls, throwFailure, Handler, handlerThrows, handlerReturns, Codes
    <2> QED
      BY <1>0, <2>1, OnlyThisSlot DEF uploadVars
  <1>3. CASE startPuts(s)
    BY <1>0, <1>3 DEF startPuts, requestVars
  <1>4. CASE finishUpload(s)
    <2>1. finish(s) /\ UNCHANGED listed /\ ofReq' = [ofReq EXCEPT ![s] = {}]
      BY <1>4 DEF finishUpload, finish
    <2> QED
      BY <1>0, <2>1, OnlyThisSlot
  <1> QED
    BY <1>1, <1>2, <1>3, <1>4 DEF Serve, UploadHandler

LEMMA StepCounts ==
    ASSUME UInv, [Next]_vars, NEW r \in Slots, ~At(r, "idle")
    PROVE  /\ StepsLeft(r)' <= StepsLeft(r)
           /\ Serve(r) => StepsLeft(r)' < StepsLeft(r)
  <1>0. RInv /\ RInv' /\ UploadsTypeOK' /\ req \in [Slots -> Requests] /\ req'[r] \in Requests
    BY UNext DEF UInv, RInv, RequestTypeOK
  <1>1. StepsLeft(r) \in 0 .. 10 /\ StepsLeft(r)' \in 0 .. 10
    BY <1>0, LeftValues DEF StepsLeft
  <1>2. Serve(r) => StepsLeft(r)' < StepsLeft(r)
    BY <1>0, ServeCounts
  <1>3. ASSUME NEW s \in Slots, Serve(s) PROVE StepsLeft(r)' <= StepsLeft(r)
    BY <1>0, <1>1, <1>2, <1>3, ServeLeaves, OthersLeave
  <1>4. ASSUME NEW s \in Slots, NEW route, NEW t, NEW scheme, arrive(s, route, t, scheme), UNCHANGED uploadVars
        PROVE  StepsLeft(r)' <= StepsLeft(r)
    <2>1. r # s
      BY <1>4 DEF arrive
    <2>2. req'[r] = req[r] /\ ofReq'[r] = ofReq[r] /\ listed' = listed
      BY <1>0, <1>4, <2>1 DEF arrive, uploadVars
    <2> QED
      BY <1>0, <2>2, OthersLeave
  <1>5. ASSUME \/ \E k \in Keys : EndPut(k)
               \/ \E t \in Tokens : expire(t) /\ UNCHANGED uploadVars
               \/ UNCHANGED vars
        PROVE  StepsLeft(r)' <= StepsLeft(r)
    <2>1. req' = req /\ ofReq' = ofReq /\ listed' = listed
      BY <1>5 DEF EndPut, endPut, expire, vars, requestVars, uploadVars
    <2> QED
      BY <1>0, <2>1, OthersLeave
  <1>6. CASE crashUploads
    <2>1. req'[r].step = "idle"
      BY <1>6 DEF crashUploads, crash, Idle
    <2>2. StepsLeft(r)' = 0
      BY <1>0, <2>1, LeftValues DEF StepsLeft
    <2> QED
      BY <1>1, <1>2, <2>2
  <1> QED
    BY <1>2, <1>3, <1>4, <1>5, <1>6 DEF Next

\* A request takes ten steps of its own at most, whatever its route, its guards and
\* the other requests: none of its steps can be taken twice.
THEOREM RequestsNeverGoInCircles == Spec => EveryStepCounts
  <1>1. UInv /\ [Next]_vars =>
            [\A r \in Slots : ~At(r, "idle") =>
                /\ StepsLeft(r)' <= StepsLeft(r)
                /\ Serve(r) => StepsLeft(r)' < StepsLeft(r)]_vars
    BY StepCounts
  <1> QED
    BY <1>1, UploadsInvariant, PTL DEF EveryStepCounts, Spec
=============================================================================
