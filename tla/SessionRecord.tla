---------------------------- MODULE SessionRecord ----------------------------
(***************************************************************************)
(* What the clients of the token service may rely on, for one user.        *)
(*                                                                         *)
(* A refresh token has a life: it is signed, it is on its way to Redis, it *)
(* is the one that is accepted, and it is dead.  No token comes back from  *)
(* the dead, and the one that is accepted replaces the one before, except  *)
(* that a token signed twice in one second is the same string twice and    *)
(* may live again.  An access token that is refused when it is sent the    *)
(* documented way, as 'Bearer <token>', is refused so for good.            *)
(*                                                                         *)
(* Here each of these is one step.  Sessions, where every Redis command is *)
(* one and requests overlap, is shown to implement this module.            *)
(***************************************************************************)

CONSTANT Tokens

VARIABLES
    phase,     \* phase[t] : where refresh token t is in its life
    twice,     \* tokens that were signed more than once
    finished,  \* refresh tokens exchanged, or handed out before a sign-out
    barred,    \* access tokens the guards refuse as 'Bearer <token>'
    out        \* access tokens whose sign-out was answered

vars == <<phase, twice, finished, barred, out>>

Phases == {"unsigned", "coming", "accepted", "dead"}

Init ==
    /\ phase = [t \in Tokens |-> "unsigned"]
    /\ twice = {}
    /\ finished = {}
    /\ barred = {}
    /\ out = {}

\* A pair is signed; a token signed before is the same string again.
Sign(t) ==
    /\ phase' = [phase EXCEPT ![t] = IF @ = "accepted" THEN @ ELSE "coming"]
    /\ twice' = IF phase[t] = "unsigned" THEN twice ELSE twice \cup {t}
    /\ UNCHANGED <<finished, barred, out>>

\* A token is accepted no more, or never will be.  It is still on its way only if
\* another request signed it too.
Leaves(t) == phase'[t] = "dead" \/ (phase'[t] = "coming" /\ t \in twice)

Stays(t) == phase'[t] = phase[t]

\* A token arrives in Redis and replaces the one that was there.
Accept(t) ==
    /\ phase[t] = "coming"
    /\ phase' \in [Tokens -> Phases]
    /\ phase'[t] = "accepted"
    /\ \A u \in Tokens \ {t} : IF phase[u] = "accepted" THEN Leaves(u) ELSE Stays(u)
    /\ UNCHANGED <<twice, finished, barred, out>>

\* Tokens grow too old, a request dies with the token it was bringing, or the
\* access token of a sign-out is listed.
Expire ==
    /\ UNCHANGED <<out, finished, twice>>
    /\ \A t \in Tokens : Stays(t) \/ (phase[t] \in {"coming", "accepted"} /\ Leaves(t))
    /\ phase' \in [Tokens -> Phases]
    /\ barred \subseteq barred' /\ barred' \subseteq Tokens

\* An exchange is answered, or a sign-out deletes the key: that is the end of
\* the old tokens.
Finish ==
    /\ UNCHANGED <<out, twice, barred>>
    /\ finished \subseteq finished' /\ finished' \subseteq Tokens
    /\ \A t \in finished' \ finished : phase'[t] = "dead" \/ t \in twice
    /\ \A t \in Tokens : Stays(t) \/ (phase[t] = "accepted" /\ Leaves(t))
    /\ phase' \in [Tokens -> Phases]

\* A sign-out is answered, which it is only when the access token is refused.
SignOut(t) ==
    /\ t \in barred
    /\ out' = out \cup {t}
    /\ UNCHANGED <<phase, twice, finished, barred>>

Next ==
    \/ Expire
    \/ Finish
    \/ \E t \in Tokens : Sign(t) \/ Accept(t) \/ SignOut(t)

Spec == Init /\ [][Next]_vars
=============================================================================
