------------------------------ MODULE Requests ------------------------------
(***************************************************************************)
(* An HTTP request on its way through the program: the middlewares, the    *)
(* guards of its route one after the other, the pipes, the handler, and    *)
(* the interceptor or the error filter that writes the answer, at once     *)
(* with the step that returns or throws.  Requests                         *)
(* interleave wherever one awaits Redis or MySQL; meanwhile tokens are     *)
(* signed out by other requests, and expire.  A handler is a step that     *)
(* takes any time and ends in any way its route allows; what the handlers  *)
(* do is the matter of the other modules.                                  *)
(***************************************************************************)
EXTENDS Routes, Integers

CONSTANTS
    Slots,    \* requests the process serves at a time
    Users,
    RoleOf,   \* RoleOf[u] : the role of user u, whose row is taken to stay as it is
    Tokens,   \* access tokens
    Holder,   \* Holder[t] : the user token t was signed for
    Called,   \* bound: Called[r] : the routes that are called in slot r
    NoToken,  \* the request has no Authorization header, or no token in it
    NoUser    \* request.user is not set

ASSUME RequestAssumption ==
    /\ RoleOf \in [Users -> Roles]
    /\ Holder \in [Tokens -> Users]
    /\ Called \in [Slots -> SUBSET AllRoutes]
    /\ NoToken \notin Tokens
    /\ NoUser \notin Users

VARIABLES
    req,      \* req[r] : the request in slot r
    listed,   \* access tokens on the blacklist
    expired   \* access tokens past their expiry

requestVars == <<req, listed, expired>>

\* Status codes: 200 stands for each success, and 400 for each refusal of a
\* handler or a pipe that is neither 401 nor 500.
Codes == {200, 400, 401, 403, 500}

\* How the Authorization header spells the scheme before its token: AccessTokenGuard
\* takes "bearer", or another blank behind it, for the same.
Schemes == {"Bearer", "other"}

Steps == {"idle", "guards", "pipes", "handler", "answered"}

Requests ==
    [step : Steps,
     route : AllRoutes,
     token : Tokens \cup {NoToken},
     scheme : Schemes,
     came : {"timely", "late"},    \* history: late if the header was useless by then
     passed : 0 .. 4,    \* how many guards let it pass
     user : Users \cup {NoUser},
     lookups : {"done", "failed"}, \* history: whether Redis and MySQL told the guards
     code : Codes]       \* the status of the answer, once there is one

Idle ==
    [step |-> "idle", route |-> SignOut, token |-> NoToken, scheme |-> "Bearer",
     came |-> "timely", passed |-> 0, user |-> NoUser, lookups |-> "done", code |-> 200]

RequestTypeOK ==
    /\ req \in [Slots -> Requests]
    /\ listed \subseteq Tokens
    /\ expired \subseteq Tokens

RequestInit ==
    /\ req = [r \in Slots |-> Idle]
    /\ listed = {}
    /\ expired = {}

At(r, step) == req[r].step = step

\* GET of the blacklist key.  The key is made of the header without the literal
\* 'Bearer ': with another spelling it is none that sign-out writes.
isTokenBlacklisted(t, scheme) == scheme = "Bearer" /\ t \in listed

\* A header that lets nobody in.
Useless(t, scheme) == t = NoToken \/ isTokenBlacklisted(t, scheme) \/ t \in expired

-----------------------------------------------------------------------------
(* Middlewares, and the life of tokens and of the process                  *)

\* ClsMiddleware names the request, RequestLoggerMiddleware logs its start.
arrive(r, route, t, scheme) ==
    /\ At(r, "idle")
    /\ Public(route) => t = NoToken
    /\ t = NoToken => scheme = "Bearer"
    /\ req' = [req EXCEPT ![r] = [Idle EXCEPT !.step = "guards", !.route = route,
                                 !.token = t, !.scheme = scheme,
                                 !.came = IF Useless(t, scheme) THEN "late" ELSE "timely"]]
    /\ UNCHANGED <<listed, expired>>

expire(t) ==
    /\ t \notin expired
    /\ expired' = expired \cup {t}
    /\ UNCHANGED <<req, listed>>

\* The process ends, and with it all it was serving.
crash ==
    /\ req' = [r \in Slots |-> Idle]
    /\ UNCHANGED <<listed, expired>>

-----------------------------------------------------------------------------
(* Guards: the next one of the route lets the request pass, or throws      *)

NextGuard(r, guard) ==
    /\ At(r, "guards")
    /\ req[r].route.guards[req[r].passed + 1] = guard

Pass(r, user) ==
    LET n == req[r].passed + 1
    IN  req' = [req EXCEPT ![r].passed = n,
                           ![r].user = user,
                           ![r].step = IF n = Len(req[r].route.guards) THEN "pipes" ELSE @]

\* The answer is written; what the guards found out goes with the request.
Answer(r, code, lookups) ==
    req' = [req EXCEPT ![r].step = "answered", ![r].code = code, ![r].lookups = lookups,
                       ![r].came = "timely", ![r].passed = 0, ![r].user = NoUser]

\* ErrorFilter, @Catch(): it answers whatever was thrown, with the status of an
\* HttpException and with 500 for any other error.
Throw(r, code) == Answer(r, code, "done")

\* Mutant: a guard that cannot ask answers 503.
Fail_unavailable(r, code) == Answer(r, 503, "failed")

\* The same, after Redis or MySQL did not answer a guard.
Fail(r, code) == Answer(r, code, "failed")

\* The user of the payload: no route deletes a user, and its row is found.
validate(t) == Holder[t]

\* Mutant: a token is let pass when Redis cannot tell.
blacklistGuard_lenient(r) ==
    LET q == req[r]
    IN  /\ NextGuard(r, "blacklist")
        /\ \/ Pass(r, q.user)
           \/ ~Public(q.route) /\ q.token = NoToken /\ Throw(r, 401)
           \/ ~Public(q.route) /\ isTokenBlacklisted(q.token, q.scheme) /\ Throw(r, 401)
        /\ UNCHANGED <<listed, expired>>

\* JwtBlacklistGuard: nothing catches an error of Redis.
blacklistGuard(r) ==
    LET q == req[r]
        barred == isTokenBlacklisted(q.token, q.scheme)
    IN  /\ NextGuard(r, "blacklist")
        /\ \/ Public(q.route) /\ Pass(r, q.user)
           \/ ~Public(q.route) /\ q.token = NoToken /\ Throw(r, 401)
           \/ ~Public(q.route) /\ q.token \in Tokens /\ barred /\ Throw(r, 401)
           \/ ~Public(q.route) /\ q.token \in Tokens /\ ~barred /\ Pass(r, q.user)
           \/ ~Public(q.route) /\ q.token \in Tokens /\ Fail(r, 500)
        /\ UNCHANGED <<listed, expired>>

\* The signature and the expiry, then the row of the user.  handleRequest turns
\* every error, one of MySQL too, into 401.
accessTokenGuard(r) ==
    LET q == req[r]
        good == q.token \in Tokens \ expired
    IN  /\ NextGuard(r, "access")
        /\ \/ Public(q.route) /\ Pass(r, q.user)
           \/ ~Public(q.route) /\ ~good /\ Throw(r, 401)
           \/ ~Public(q.route) /\ good /\ Pass(r, validate(q.token))
           \/ ~Public(q.route) /\ good /\ Fail(r, 401)
        /\ UNCHANGED <<listed, expired>>

\* Mutant: a role that does not fit is not answered.
rolesGuard_silent(r) ==
    LET q == req[r]
    IN  /\ NextGuard(r, "roles")
        /\ q.route.roles = {} \/ (q.user # NoUser /\ RoleOf[q.user] \in q.route.roles)
        /\ Pass(r, q.user)
        /\ UNCHANGED <<listed, expired>>

\* Mutant: a role that does not fit counts as no user.
rolesGuard_401(r) ==
    LET q == req[r]
        allowed == q.route.roles = {} \/ (q.user # NoUser /\ RoleOf[q.user] \in q.route.roles)
    IN  /\ NextGuard(r, "roles")
        /\ IF allowed THEN Pass(r, q.user) ELSE Throw(r, 401)
        /\ UNCHANGED <<listed, expired>>

rolesGuard(r) ==
    LET q == req[r]
        allowed == q.route.roles = {} \/ (q.user # NoUser /\ RoleOf[q.user] \in q.route.roles)
    IN  /\ NextGuard(r, "roles")
        /\ IF allowed THEN Pass(r, q.user) ELSE Throw(r, 403)
        /\ UNCHANGED <<listed, expired>>

\* The refresh token is in a cookie; request.user becomes its payload, not a user.
refreshTokenGuard(r) ==
    /\ NextGuard(r, "refresh")
    /\ Pass(r, NoUser) \/ Throw(r, 401)
    /\ UNCHANGED <<listed, expired>>

Guard(r) ==
    \/ blacklistGuard(r)
    \/ accessTokenGuard(r)
    \/ rolesGuard(r)
    \/ refreshTokenGuard(r)

-----------------------------------------------------------------------------
(* Pipes, handler, answer                                                  *)

\* ValidationPipe and ParseUUIDPipe.
pipes(r) ==
    /\ At(r, "pipes")
    /\ \/ req' = [req EXCEPT ![r].step = "handler"]
       \/ req[r].route.path \notin NoInput /\ Throw(r, 400)
    /\ UNCHANGED <<listed, expired>>

\* SET of the blacklist key, on the way through the handler of sign-out: of the
\* token itself, which it reads from the header as AccessTokenGuard does.
signOut(r) ==
    /\ At(r, "handler")
    /\ req[r].route = SignOut
    /\ req[r].token \notin listed
    /\ listed' = listed \cup {req[r].token}
    /\ UNCHANGED <<req, expired>>

\* ApiResponseInterceptor wraps what the handler returned, and it is answered.
handlerReturns(r) ==
    /\ At(r, "handler")
    /\ req[r].route = SignOut => req[r].token \in listed
    /\ Answer(r, 200, "done")
    /\ UNCHANGED <<listed, expired>>

\* createRestaurant looks at the role once more, and answers 401 where the guard
\* answers 403.
RoleRefused(r) ==
    /\ req[r].route.path = "POST /restaurants"
    /\ req[r].user # NoUser => RoleOf[req[r].user] # "Owner"

\* Wrong credentials and refresh tokens are 401, all other refusals 400 here; an
\* error that is no HttpException becomes 500.
handlerThrows(r, code) ==
    /\ At(r, "handler")
    /\ req[r].route \notin HealthRoutes
    /\ code \in {400, 500} \/ (code = 401 /\ (Public(req[r].route) \/ RoleRefused(r)))
    /\ Throw(r, code)
    /\ UNCHANGED <<listed, expired>>

Handler(r) ==
    \/ signOut(r)
    \/ handlerReturns(r)
    \/ \E code \in Codes : handlerThrows(r, code)

\* "finish" of the response, which is logged; or "close", which is not, if the
\* client has hung up: no step before this one takes note of it.
finish(r) ==
    /\ At(r, "answered")
    /\ req' = [req EXCEPT ![r] = Idle]
    /\ UNCHANGED <<listed, expired>>

-----------------------------------------------------------------------------
Around(r) == Guard(r) \/ pipes(r)

RequestNext ==
    \/ \E r \in Slots : \E route \in Called[r], t \in Tokens \cup {NoToken}, scheme \in Schemes :
        arrive(r, route, t, scheme)
    \/ \E r \in Slots : Around(r) \/ Handler(r) \/ finish(r)
    \/ \E t \in Tokens : expire(t)
    \/ crash

RequestSpec == RequestInit /\ [][RequestNext]_requestVars

-----------------------------------------------------------------------------
(* Properties                                                              *)

\* A request that comes without an access token, with one that has expired, or with
\* 'Bearer <token>' after the token was signed out, reaches no handler but a public
\* one: the two lookups are made while the request runs, and a lookup that fails lets
\* nobody in.  (Another spelling of the scheme passes the blacklist.)
NoLateAdmission ==
    \A r \in Slots :
        At(r, "handler") /\ ~Public(req[r].route) =>
            req[r].came = "timely" /\ req[r].lookups = "done"

\* A handler that is not public acts for the user its token was signed for, whose
\* role is one the route declares: whatever guards the decorators list.
ActsForItsUser ==
    \A r \in Slots :
        LET q == req[r]
        IN  At(r, "handler") /\ ~Public(q.route) =>
                /\ q.user = Holder[q.token]
                /\ q.route.roles = {} \/ RoleOf[q.user] \in q.route.roles

\* A request is told 401 with a token that is good to the end only because MySQL
\* failed: handleRequest makes 401 of that, and the client cannot tell the two.
\* (The 401 of createRestaurant is out of reach behind its guards.)
UnauthorizedHasACause ==
    \A r \in Slots :
        LET q == req[r]
        IN  At(r, "answered") /\ ~Public(q.route) /\ q.code = 401 =>
                Useless(q.token, q.scheme) \/ q.lookups = "failed"
=============================================================================
