------------------------------ MODULE Sessions ------------------------------
(***************************************************************************)
(* The tokens of one user: sign-in, rotation of the refresh token and      *)
(* sign-out (TokenService), with the guards that let a token pass.  The    *)
(* keys refresh-token/<user> and token-blacklist/<token> in Redis are all  *)
(* the server remembers, and no two users share any.                       *)
(*                                                                         *)
(* A token is signed over the user, its type and the second of its issue,  *)
(* and nothing else: two of one second are the same string.  So a token is *)
(* modelled by that second, and the two tokens of a pair by the same one.  *)
(* Every Redis command is a step; time passes in between.                  *)
(***************************************************************************)
EXTENDS Integers

CONSTANTS
    Calls,        \* slots for the requests in flight
    AccessLife,   \* JWT_ACCESS_EXPIRATION in seconds
    RefreshLife,  \* JWT_REFRESH_EXPIRATION in seconds
    MaxTime       \* bound: the last second that is looked at

ASSUME LivesAssumption ==
    /\ AccessLife \in Nat \ {0}
    /\ RefreshLife \in Nat \ {0}
    /\ MaxTime \in Nat

VARIABLES
    now,     \* the clock, in seconds
    stored,  \* the refresh-token/<user> key: a token and the expiry of the key
    black,   \* black[t] : the expiry of the blacklist key of access token t
    held,    \* tokens (of both types) that have been handed to a client
    signed,  \* history: how often each token was signed; 2 stands for more
    spent,   \* history: refresh tokens that were exchanged for another pair
    out,     \* history: access tokens whose sign-out was answered
    ended,   \* history: refresh tokens handed out before a sign-out deleted the key
    call     \* call[c] : the request of slot c, or NoCall

vars == <<now, stored, black, held, signed, spent, out, ended, call>>

Times == 0 .. MaxTime

\* The expiry of a key that has none: SET was answered and EXPIRE not yet.
Never == -1

\* The expiry of a key that is not there, as good as one in the past.
Gone == 0

Expiries(life) == {Never, Gone} \cup {t + life : t \in Times}

NoKey == [token |-> 0, expiry |-> Gone]

NoCall == [kind |-> "none"]

SignIns == [kind : {"signIn"}, step : {"signed", "stored"}, new : Times]

Refreshes ==
    [kind : {"refresh"}, step : {"verified"}, old : Times]
        \cup [kind : {"refresh"}, step : {"signed", "stored"}, old : Times, new : Times]

SignOuts == [kind : {"signOut"}, step : {"passed", "revoked", "listed"}, token : Times]

SessionsTypeOK ==
    /\ now \in Times
    /\ stored \in [token : Times, expiry : Expiries(RefreshLife)]
    /\ black \in [Times -> Expiries(AccessLife)]
    /\ held \subseteq Times
    /\ signed \in [Times -> 0 .. 2]
    /\ spent \subseteq Times
    /\ out \subseteq Times
    /\ ended \subseteq Times
    /\ call \in [Calls -> SignIns \cup Refreshes \cup SignOuts \cup {NoCall}]

Init ==
    /\ now = 0
    /\ stored = NoKey
    /\ black = [t \in Times |-> Gone]
    /\ held = {}
    /\ signed = [t \in Times |-> 0]
    /\ spent = {}
    /\ out = {}
    /\ ended = {}
    /\ call = [c \in Calls |-> NoCall]

\* Redis answers with a key until it expires.
Alive(expiry) == expiry = Never \/ now < expiry

Becomes(c, request) == call' = [call EXCEPT ![c] = request]

At(c, step) == call[c] # NoCall /\ call[c].step = step

\* Both tokens of a pair are signed in this second.
Sign == signed' = [signed EXCEPT ![now] = IF @ = 0 THEN 1 ELSE 2]

-----------------------------------------------------------------------------
(* What the guards and verifyRefreshToken let pass.                        *)

\* How the header of a request spells what stands before the token: the literal
\* 'Bearer ' and nothing else, or another case or spacing of it.
Schemes == {"Bearer", "other"}

\* JwtBlacklistGuard looks up the header without a literal 'Bearer ', a key no
\* sign-out writes when the scheme is spelled otherwise; then AccessTokenGuard,
\* which takes the token after any spelling.
ValidAccess(t, scheme) == (scheme = "Bearer" => ~Alive(black[t])) /\ now < t + AccessLife

\* Mutant: the token is not compared with the one in Redis.
ValidRefresh_stateless(t) == now < t + RefreshLife

\* The signature and the expiry, then the comparison with the stored token.
ValidRefresh(t) ==
    /\ now < t + RefreshLife
    /\ Alive(stored.expiry)
    /\ stored.token = t

-----------------------------------------------------------------------------
(* generateTokenPair, for a sign-in or a refresh                           *)

\* The password is right and the account verified: a pair is signed.
openSignIn(c) ==
    /\ call[c] = NoCall
    /\ Sign
    /\ Becomes(c, [kind |-> "signIn", step |-> "signed", new |-> now])
    /\ UNCHANGED <<now, stored, black, held, spent, out, ended>>

\* The refresh token of a client passes the guard and the comparison.
openRefresh(c, t) ==
    /\ call[c] = NoCall
    /\ t \in held
    /\ ValidRefresh(t)
    /\ Becomes(c, [kind |-> "refresh", step |-> "verified", old |-> t])
    /\ UNCHANGED <<now, stored, black, held, signed, spent, out, ended>>

signPair(c) ==
    /\ At(c, "verified")
    /\ Sign
    /\ Becomes(c, [kind |-> "refresh", step |-> "signed", old |-> call[c].old, new |-> now])
    /\ UNCHANGED <<now, stored, black, held, spent, out, ended>>

\* SET of the refresh token: the one before, if any, is overwritten.
storePair(c) ==
    /\ At(c, "signed")
    /\ stored' = [token |-> call[c].new, expiry |-> Never]
    /\ Becomes(c, [call[c] EXCEPT !.step = "stored"])
    /\ UNCHANGED <<now, black, held, signed, spent, out, ended>>

\* Mutant: the key is written a second time, to give it its expiry.
answerPair_setAgain(c) ==
    /\ At(c, "stored")
    /\ stored' = [token |-> call[c].new, expiry |-> now + RefreshLife]
    /\ held' = held \cup {call[c].new}
    /\ spent' = IF call[c].kind = "refresh" THEN spent \cup {call[c].old} ELSE spent
    /\ Becomes(c, NoCall)
    /\ UNCHANGED <<now, black, signed, out, ended>>

\* EXPIRE, of whatever is under the key by now, and the answer with the pair.
answerPair(c) ==
    /\ At(c, "stored")
    /\ stored' = [stored EXCEPT !.expiry = IF Alive(@) THEN now + RefreshLife ELSE @]
    /\ held' = held \cup {call[c].new}
    /\ spent' = IF call[c].kind = "refresh" THEN spent \cup {call[c].old} ELSE spent
    /\ Becomes(c, NoCall)
    /\ UNCHANGED <<now, black, signed, out, ended>>

-----------------------------------------------------------------------------
(* signOut                                                                 *)

\* The access token of the request passes both guards; the controller takes it
\* from the header as AccessTokenGuard does, whatever the scheme.
openSignOut(c, t, scheme) ==
    /\ call[c] = NoCall
    /\ t \in held
    /\ ValidAccess(t, scheme)
    /\ Becomes(c, [kind |-> "signOut", step |-> "passed", token |-> t])
    /\ UNCHANGED <<now, stored, black, held, signed, spent, out, ended>>

\* Mutant: the DEL names another key.
revokeRefreshToken_otherKey(c) ==
    /\ At(c, "passed")
    /\ ended' = ended \cup held
    /\ Becomes(c, [call[c] EXCEPT !.step = "revoked"])
    /\ UNCHANGED <<now, stored, black, held, signed, spent, out>>

\* DEL of the refresh token, whichever it is.
revokeRefreshToken(c) ==
    /\ At(c, "passed")
    /\ stored' = NoKey
    /\ ended' = ended \cup held
    /\ Becomes(c, [call[c] EXCEPT !.step = "revoked"])
    /\ UNCHANGED <<now, black, held, signed, spent, out>>

\* SET of the blacklist key.
blacklist(c) ==
    /\ At(c, "revoked")
    /\ black' = [black EXCEPT ![call[c].token] = Never]
    /\ Becomes(c, [call[c] EXCEPT !.step = "listed"])
    /\ UNCHANGED <<now, stored, held, signed, spent, out, ended>>

\* Mutant: the key lives for one second less than the token.
answerSignOut_short(c) ==
    LET t == call[c].token
    IN  /\ At(c, "listed")
        /\ black' = [black EXCEPT ![t] = IF Alive(@) THEN now + AccessLife - 1 ELSE @]
        /\ out' = out \cup {t}
        /\ Becomes(c, NoCall)
        /\ UNCHANGED <<now, stored, held, signed, spent, ended>>

\* EXPIRE of the blacklist key after a whole life of an access token, and the
\* answer.
answerSignOut(c) ==
    LET t == call[c].token
    IN  /\ At(c, "listed")
        /\ black' = [black EXCEPT ![t] = IF Alive(@) THEN now + AccessLife ELSE @]
        /\ out' = out \cup {t}
        /\ Becomes(c, NoCall)
        /\ UNCHANGED <<now, stored, held, signed, spent, ended>>

-----------------------------------------------------------------------------
\* Redis fails or the process ends in the middle of a request.
dropCall(c) ==
    /\ call[c] # NoCall
    /\ Becomes(c, NoCall)
    /\ UNCHANGED <<now, stored, black, held, signed, spent, out, ended>>

tick ==
    /\ now < MaxTime
    /\ now' = now + 1
    /\ UNCHANGED <<stored, black, held, signed, spent, out, ended, call>>

Issue(c) ==
    \/ openSignIn(c)
    \/ \E t \in Times : openRefresh(c, t)
    \/ signPair(c)
    \/ storePair(c)
    \/ answerPair(c)

Revoke(c) ==
    \/ \E t \in Times, scheme \in Schemes : openSignOut(c, t, scheme)
    \/ revokeRefreshToken(c)
    \/ blacklist(c)
    \/ answerSignOut(c)

Next ==
    \/ \E c \in Calls : Issue(c) \/ Revoke(c) \/ dropCall(c)
    \/ tick

Spec == Init /\ [][Next]_vars

-----------------------------------------------------------------------------
(* Properties.                                                             *)

\* doc/2: once a sign-out has been answered its access token passes the guards
\* no more when it is sent as 'Bearer <token>': the blacklist key outlives the
\* token, whoever else sets it or lets it expire.  (Nothing is promised for the
\* other spellings, which the blacklist does not know.)
SignedOutForGood == \A t \in out : ~ValidAccess(t, "Bearer")

\* doc/2: rotation discards the old refresh token.  One that was exchanged is
\* never accepted again, also after concurrent refreshes and sign-ins, unless
\* it was signed twice, which takes two requests in one second.
SpentStaysSpent == \A t \in spent : ValidRefresh(t) => signed[t] > 1

\* A sign-out ends the session of the refresh tokens that had been handed out when
\* it deleted the key: none of them is ever accepted again, whatever the requests
\* under way store afterwards, unless it was signed twice.  (A refresh under way may
\* store a new token: what it returns then goes on.)
EndedStaysEnded == \A t \in ended : ValidRefresh(t) => signed[t] > 1
-----------------------------------------------------------------------------
(* Refinement.                                                             *)

\* Some request has signed the token and will store it.
Coming(t) == \E c \in Calls : At(c, "signed") /\ call[c].new = t

\* The life of a refresh token, as Redis and the requests in flight decide it.
Phase(t) ==
    IF signed[t] = 0 THEN "unsigned"
    ELSE IF ValidRefresh(t) THEN "accepted"
    ELSE IF Coming(t) THEN "coming" ELSE "dead"

Record ==
    INSTANCE SessionRecord WITH
        Tokens   <- Times,
        phase    <- [t \in Times |-> Phase(t)],
        twice    <- {t \in Times : signed[t] > 1},
        finished <- spent \cup ended,
        barred   <- {t \in Times : ~ValidAccess(t, "Bearer")}

\* Whatever requests overlap, and whichever of them die, the tokens obey
\* SessionRecord: a refresh token that is accepted no more never is again, unless
\* it was signed twice, and an access token that is refused as 'Bearer <token>'
\* stays so.
ImplementsSessionRecord == Record!Spec
=============================================================================
