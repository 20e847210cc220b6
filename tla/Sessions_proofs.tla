-------------------------- MODULE Sessions_proofs --------------------------
(***************************************************************************)
(* Proofs about Sessions for any number of requests, any lives of tokens   *)
(* and any bound on time.  What a signed token may still do depends on the *)
(* requests in flight: SInv says which of them can store it, and when.     *)
(***************************************************************************)
EXTENDS Sessions, TLAPS

\* The blacklist key of token t outlives it.
Outlives(t, expiry) == expiry = Never \/ expiry >= t + AccessLife

\* A token that some request has stored, as far as anyone remembers.
WasStored(t) ==
    \/ t \in spent \cup held
    \/ stored.expiry # Gone /\ stored.token = t
    \/ \E c \in Calls : At(c, "stored") /\ call[c].new = t
    \/ \E c \in Calls : call[c].kind = "refresh" /\ call[c].old = t

\* Tokens of requests are in the past, and what a listed sign-out has set lasts.
CallOK(c) ==
    /\ call[c].kind = "signOut" => call[c].token <= now
    /\ At(c, "listed") => Outlives(call[c].token, black[call[c].token])
    /\ At(c, "signed") \/ At(c, "stored") => call[c].new <= now
    /\ At(c, "signed") => signed[call[c].new] > 0
    /\ \A t \in Times : At(c, "signed") /\ call[c].new = t /\ WasStored(t) => signed[t] > 1
    /\ At(c, "stored") /\ call[c].kind = "refresh" /\ signed[call[c].old] <= 1 =>
          stored.expiry = Gone \/ stored.token # call[c].old

SInv ==
    /\ SessionsTypeOK
    /\ \A t \in held : t <= now
    /\ \A t \in out : Outlives(t, black[t])
    /\ \A t \in Times : WasStored(t) => signed[t] > 0
    /\ \A t \in spent : signed[t] > 1 \/ stored.expiry = Gone \/ stored.token # t
    /\ ended \subseteq held
    /\ \A t \in ended : signed[t] > 1 \/ stored.expiry = Gone \/ stored.token # t
    /\ \A c \in Calls : call[c] # NoCall => CallOK(c)
    /\ \A c, d \in Calls :
          c # d /\ At(c, "signed") /\ At(d, "signed") /\ call[c].new = call[d].new =>
              signed[call[c].new] > 1

Requests == SignIns \cup Refreshes \cup SignOuts \cup {NoCall}

-----------------------------------------------------------------------------
(* The shapes of requests, by their kind and their step.                   *)

LEMMA Shapes ==
    ASSUME SessionsTypeOK, NEW c \in Calls
    PROVE  /\ call[c] \in Requests
           /\ call[c] # NoCall <=> call[c] \in SignIns \cup Refreshes \cup SignOuts
           /\ call[c].kind = "refresh" => call[c] # NoCall /\ call[c].old \in Times
           /\ At(c, "verified") => call[c].kind = "refresh"
           /\ At(c, "signed") \/ At(c, "stored") =>
                 /\ call[c] \in SignIns \/ call[c] \in Refreshes
                 /\ call[c].new \in Times
                 /\ call[c].kind \in {"signIn", "refresh"}
           /\ At(c, "passed") \/ At(c, "revoked") \/ At(c, "listed") =>
                 /\ call[c] \in SignOuts
                 /\ call[c].token \in Times
                 /\ call[c].kind = "signOut"
  BY DEF SessionsTypeOK, Requests, SignIns, Refreshes, SignOuts, NoCall, At

LEMMA TimesAreNat == now \in Times => Times \subseteq Nat /\ now \in Nat /\ AccessLife \in Nat /\ RefreshLife \in Nat
  BY LivesAssumption DEF Times

\* A step of slot c leaves the other slots alone.
LEMMA Slots ==
    ASSUME SessionsTypeOK, NEW c \in Calls, NEW r, Becomes(c, r)
    PROVE  /\ call'[c] = r
           /\ \A d \in Calls : d # c => call'[d] = call[d]
           /\ r \in Requests => call' \in [Calls -> Requests]
  BY DEF SessionsTypeOK, Becomes, Requests

-----------------------------------------------------------------------------
(* Requests that begin without signing, and requests that end unanswered.  *)

LEMMA QuietStep ==
    ASSUME SInv, NEW c \in Calls, UNCHANGED <<now, stored, black, held, signed, spent, out, ended>>,
           NEW r \in Requests, Becomes(c, r),
           \/ r = NoCall
           \/ r.kind = "refresh" /\ r.step = "verified" /\ WasStored(r.old)
           \/ r.kind = "signOut" /\ r.step = "passed" /\ r.token <= now
    PROVE  SInv'
<1>1. /\ call'[c] = r
      /\ \A d \in Calls : d # c => call'[d] = call[d]
      /\ call' \in [Calls -> Requests]
  BY Slots DEF SInv
<1>2. SessionsTypeOK'
  BY <1>1 DEF SInv, SessionsTypeOK, Requests
<1>3. ASSUME NEW t, WasStored(t)' PROVE WasStored(t)
  <2>1. CASE t \in spent \cup held \/ (stored.expiry # Gone /\ stored.token = t)
    BY <2>1 DEF WasStored
  <2>2. ASSUME NEW d \in Calls, At(d, "stored")', call'[d].new = t PROVE WasStored(t)
    BY <2>2, <1>1 DEF WasStored, At, NoCall
  <2>3. ASSUME NEW d \in Calls, call'[d].kind = "refresh", call'[d].old = t PROVE WasStored(t)
    BY <2>3, <1>1 DEF WasStored, NoCall
  <2>. QED  BY <1>3, <2>1, <2>2, <2>3 DEF WasStored
<1>4. ASSUME NEW d \in Calls, call'[d] # NoCall PROVE CallOK(d)'
  <2>1. CASE d = c
    BY <2>1, <1>1, <1>4 DEF CallOK, At
  <2>2. CASE d # c
    <3>1. CallOK(d) /\ call'[d] = call[d]
      BY <2>2, <1>1, <1>4 DEF SInv
    <3>. QED  BY <3>1, <1>3 DEF CallOK, At, Times
  <2>. QED  BY <2>1, <2>2
<1>5. ASSUME NEW d \in Calls, NEW e \in Calls, d # e,
             At(d, "signed")', At(e, "signed")', call'[d].new = call'[e].new
      PROVE  signed[call'[d].new] > 1
  <2>1. d # c /\ e # c
    BY <1>1, <1>5 DEF At
  <2>. QED  BY <2>1, <1>1, <1>5 DEF SInv, At
<1>. QED  BY <1>2, <1>3, <1>4, <1>5 DEF SInv

LEMMA BeginStep ==
    ASSUME SInv, NEW c \in Calls, NEW t \in Times, NEW scheme \in Schemes,
           openRefresh(c, t) \/ openSignOut(c, t, scheme)
    PROVE  SInv'
<1>1. SessionsTypeOK /\ t <= now
  BY DEF SInv, openRefresh, openSignOut
<1>2. CASE openRefresh(c, t)
  <2> DEFINE r == [kind |-> "refresh", step |-> "verified", old |-> t]
  <2>1. r \in Requests
    BY DEF Requests, Refreshes
  <2>2. stored.expiry # Gone /\ stored.token = t
    BY <1>1, <1>2, TimesAreNat DEF openRefresh, ValidRefresh, Alive, Gone, Never, SessionsTypeOK
  <2>3. WasStored(r.old)
    BY <2>2 DEF WasStored
  <2>. QED  BY <1>2, <2>1, <2>3, QuietStep DEF openRefresh
<1>3. CASE openSignOut(c, t, scheme)
  <2> DEFINE r == [kind |-> "signOut", step |-> "passed", token |-> t]
  <2>1. r \in Requests /\ r.token <= now
    BY <1>1 DEF Requests, SignOuts
  <2>. QED  BY <1>3, <2>1, QuietStep DEF openSignOut
<1>. QED  BY <1>2, <1>3

LEMMA DropStep ==
    ASSUME SInv, NEW c \in Calls, dropCall(c)
    PROVE  SInv'
<1>1. NoCall \in Requests
  BY DEF Requests
<1>. QED  BY <1>1, QuietStep DEF dropCall

-----------------------------------------------------------------------------
(* Signing: a token signed for the second time is counted as such.         *)

LEMMA SignStep ==
    ASSUME SInv, NEW c \in Calls, openSignIn(c) \/ signPair(c)
    PROVE  SInv'
<1>1. SessionsTypeOK /\ now \in Times /\ now \in Nat
  BY TimesAreNat DEF SInv, SessionsTypeOK
<1>2. /\ signed' \in [Times -> 0 .. 2]
      /\ \A t \in Times : signed'[t] >= signed[t] /\ signed[t] \in 0 .. 2
      /\ signed'[now] > 0
      /\ signed[now] > 0 => signed'[now] > 1
  BY <1>1 DEF openSignIn, signPair, Sign, SessionsTypeOK
<1>3. PICK r \in Requests : /\ Becomes(c, r)
                            /\ r.step = "signed" /\ r.new = now
                            /\ r # NoCall
                            /\ r.kind = "signIn" \/ (/\ r.kind = "refresh"
                                                     /\ call[c].kind = "refresh"
                                                     /\ r.old = call[c].old)
  <2>1. CASE openSignIn(c)
    <3> DEFINE r == [kind |-> "signIn", step |-> "signed", new |-> now]
    <3>1. r \in SignIns
      BY <1>1 DEF SignIns
    <3>. QED  BY <2>1, <3>1 DEF openSignIn, Requests, NoCall
  <2>2. CASE signPair(c)
    <3> DEFINE r == [kind |-> "refresh", step |-> "signed", old |-> call[c].old, new |-> now]
    <3>1. call[c].kind = "refresh" /\ call[c].old \in Times
      BY <1>1, <2>2, Shapes DEF signPair
    <3>2. r \in Refreshes
      BY <1>1, <3>1 DEF Refreshes
    <3>. QED  BY <2>2, <3>1, <3>2 DEF signPair, Requests, NoCall
  <2>. QED  BY <2>1, <2>2
<1>4. /\ call'[c] = r
      /\ \A d \in Calls : d # c => call'[d] = call[d]
      /\ call' \in [Calls -> Requests]
  BY <1>1, <1>3, Slots
<1>5. UNCHANGED <<now, stored, black, held, spent, out, ended>>
  BY DEF openSignIn, signPair
<1>6. SessionsTypeOK'
  BY <1>2, <1>4, <1>5 DEF SInv, SessionsTypeOK, Requests
<1>7. ASSUME NEW t, WasStored(t)' PROVE WasStored(t)
  <2>1. CASE t \in spent \cup held \/ (stored.expiry # Gone /\ stored.token = t)
    BY <2>1 DEF WasStored
  <2>2. ASSUME NEW d \in Calls, At(d, "stored")', call'[d].new = t PROVE WasStored(t)
    BY <2>2, <1>3, <1>4 DEF WasStored, At
  <2>3. ASSUME NEW d \in Calls, call'[d].kind = "refresh", call'[d].old = t PROVE WasStored(t)
    BY <2>3, <1>3, <1>4 DEF WasStored
  <2>. QED  BY <1>5, <1>7, <2>1, <2>2, <2>3 DEF WasStored
<1>8. \A t \in Times : WasStored(t) => signed[t] > 0
  BY DEF SInv
<1>9. ASSUME NEW d \in Calls, call'[d] # NoCall PROVE CallOK(d)'
  <2>1. CASE d = c
    <3>1. ~At(d, "listed")' /\ ~At(d, "stored")' /\ call'[d].kind # "signOut" /\ call'[d].new = now
      BY <2>1, <1>3, <1>4 DEF At
    <3>2. \A t \in Times : call'[d].new = t /\ WasStored(t)' => signed'[t] > 1
      BY <3>1, <1>2, <1>7, <1>8
    <3>. QED  BY <3>1, <3>2, <1>1, <1>2, <1>5 DEF CallOK
  <2>2. CASE d # c
    <3>1. CallOK(d) /\ call'[d] = call[d]
      BY <2>2, <1>4, <1>9 DEF SInv
    <3>2. At(d, "signed") => call[d].new \in Times
      BY <1>1, Shapes
    <3>3. At(d, "stored") /\ call[d].kind = "refresh" => call[d].old \in Times
      BY <1>1, Shapes
    <3>. QED  BY <3>1, <3>2, <3>3, <1>2, <1>5, <1>7 DEF CallOK, At
  <2>. QED  BY <2>1, <2>2
<1>10. ASSUME NEW d \in Calls, NEW e \in Calls, d # e,
              At(d, "signed")', At(e, "signed")', call'[d].new = call'[e].new
       PROVE  signed'[call'[d].new] > 1
  <2>1. CASE d # c /\ e # c
    <3>1. call[d].new \in Times
      BY <2>1, <1>1, <1>4, <1>10, Shapes DEF At
    <3>. QED  BY <2>1, <3>1, <1>2, <1>4, <1>10 DEF SInv, At
  <2>2. ASSUME NEW f \in Calls, f # c, call'[f].new = now, At(f, "signed")'
        PROVE  signed'[now] > 1
    BY <2>2, <1>2, <1>4 DEF SInv, CallOK, At
  <2>. QED  BY <2>1, <2>2, <1>3, <1>4, <1>10
<1>11. \A t \in spent \cup ended : signed'[t] > 1 \/ stored.expiry = Gone \/ stored.token # t
  BY <1>1, <1>2 DEF SInv, SessionsTypeOK
<1>. QED  BY <1>2, <1>5, <1>6, <1>7, <1>8, <1>9, <1>10, <1>11 DEF SInv

-----------------------------------------------------------------------------
(* Storing: whoever else could store the same token was signed in the same *)
(* second, so the token counts as signed twice.                            *)

LEMMA StoreStep ==
    ASSUME SInv, NEW c \in Calls, storePair(c)
    PROVE  SInv'
<1> DEFINE n == call[c].new
           r == [call[c] EXCEPT !.step = "stored"]
<1>1. /\ SessionsTypeOK
      /\ At(c, "signed")
      /\ n \in Times
      /\ call[c].kind \in {"signIn", "refresh"}
      /\ call[c].kind = "refresh" => call[c].old \in Times
      /\ CallOK(c)
  BY Shapes DEF SInv, storePair, At
<1>2. /\ r \in Requests
      /\ r # NoCall
      /\ r.step = "stored" /\ r.new = n /\ r.kind = call[c].kind
      /\ r.kind = "refresh" => r.old = call[c].old
  BY <1>1, Shapes DEF Requests, SignIns, Refreshes, NoCall, At
<1>3. /\ call'[c] = r
      /\ \A d \in Calls : d # c => call'[d] = call[d]
      /\ call' \in [Calls -> Requests]
  BY <1>1, <1>2, Slots DEF storePair
<1>4. /\ UNCHANGED <<now, black, held, signed, spent, out, ended>>
      /\ stored' = [token |-> n, expiry |-> Never]
  BY DEF storePair
<1>5. SessionsTypeOK'
  BY <1>1, <1>3, <1>4 DEF SessionsTypeOK, Requests, Expiries
<1>6. ASSUME NEW t, WasStored(t)', t # n PROVE WasStored(t)
  <2>1. CASE t \in spent \cup held
    BY <2>1 DEF WasStored
  <2>2. ASSUME NEW d \in Calls, At(d, "stored")', call'[d].new = t PROVE WasStored(t)
    <3>1. d # c
      BY <2>2, <1>2, <1>3, <1>6
    <3>. QED  BY <3>1, <2>2, <1>3 DEF WasStored, At
  <2>3. ASSUME NEW d \in Calls, call'[d].kind = "refresh", call'[d].old = t PROVE WasStored(t)
    BY <2>3, <1>2, <1>3 DEF WasStored
  <2>. QED  BY <1>4, <1>6, <2>1, <2>2, <2>3 DEF WasStored
<1>7. signed[n] > 0 /\ (WasStored(n) => signed[n] > 1)
  BY <1>1 DEF CallOK
<1>8. ASSUME NEW d \in Calls, call'[d] # NoCall PROVE CallOK(d)'
  <2>1. /\ call'[d].kind = "refresh" => call'[d].old = call[d].old /\ call[d].kind = "refresh"
        /\ call'[d].kind = "refresh" /\ call[d].old = n => WasStored(n)
    BY <1>2, <1>3 DEF WasStored
  <2>2. call'[d].kind = "refresh" /\ signed[call[d].old] <= 1 => stored'.token # call[d].old
    <3>1. n \in Times => signed[n] \in 0 .. 2
      BY <1>1 DEF SessionsTypeOK
    <3>. QED  BY <2>1, <3>1, <1>1, <1>4, <1>7
  <2>3. CASE d = c
    <3>1. ~At(d, "listed")' /\ ~At(d, "signed")' /\ call'[d].kind # "signOut" /\ call'[d].new <= now
      BY <2>3, <1>1, <1>2, <1>3 DEF At, CallOK
    <3>. QED  BY <3>1, <2>1, <2>2, <1>4 DEF CallOK
  <2>4. CASE d # c
    <3>1. CallOK(d) /\ call'[d] = call[d]
      BY <2>4, <1>3, <1>8 DEF SInv
    <3>2. At(d, "signed") /\ call[d].new = n => signed[n] > 1
      BY <2>4, <1>1 DEF SInv
    <3>3. \A t \in Times : At(d, "signed") /\ call[d].new = t /\ WasStored(t)' => signed[t] > 1
      BY <3>1, <3>2, <1>6 DEF CallOK
    <3>. QED  BY <3>1, <3>3, <2>1, <2>2, <1>4 DEF CallOK, At
  <2>. QED  BY <2>3, <2>4
<1>9. ASSUME NEW d \in Calls, NEW e \in Calls, d # e,
             At(d, "signed")', At(e, "signed")', call'[d].new = call'[e].new
      PROVE  signed[call'[d].new] > 1
  <2>1. d # c /\ e # c
    BY <1>2, <1>3, <1>9 DEF At
  <2>. QED  BY <2>1, <1>3, <1>9 DEF SInv, At
<1>10. ASSUME NEW t \in spent \cup ended PROVE signed[t] > 1 \/ stored'.token # t
  BY <1>4, <1>7 DEF WasStored, SInv
<1>11. ASSUME NEW t \in Times, WasStored(t)' PROVE signed[t] > 0
  BY <1>6, <1>7, <1>11 DEF SInv
<1>. QED  BY <1>4, <1>5, <1>8, <1>9, <1>10, <1>11 DEF SInv

-----------------------------------------------------------------------------
(* Answers, the sign-out and the clock: nothing is stored, so what could   *)
(* be stored again does not grow.                                          *)

\* The refresh-token key keeps its token or is gone, the slot of c has moved on
\* and no pair was signed.
LEMMA RestStep ==
    ASSUME SInv, NEW c \in Calls,
           NEW r \in Requests, Becomes(c, r),
           r # NoCall => r.kind = "signOut" /\ r.step \in {"revoked", "listed"}
                         /\ r.token = call[c].token /\ call[c].kind = "signOut",
           UNCHANGED <<now, signed>>,
           stored' \in [token : Times, expiry : Expiries(RefreshLife)],
           stored'.expiry = Gone \/ (stored.expiry # Gone /\ stored'.token = stored.token),
           black' \in [Times -> Expiries(AccessLife)],
           \A t \in Times : Outlives(t, black[t]) => Outlives(t, black'[t]),
           r # NoCall /\ r.step = "listed" => Outlives(r.token, black'[r.token]),
           held' \subseteq Times, \A t \in held' : t <= now,
           held \subseteq held',
           \A t \in held' : t \in held \/ (At(c, "stored") /\ t = call[c].new),
           ended' \subseteq held', \A t \in ended' : t \in ended \/ stored'.expiry = Gone,
           out' \subseteq Times, \A t \in out' : Outlives(t, black'[t]),
           \A t \in spent' : \/ t \in spent
                             \/ /\ At(c, "stored") /\ call[c].kind = "refresh"
                                /\ t = call[c].old
    PROVE  SInv'
<1>1. /\ call'[c] = r
      /\ \A d \in Calls : d # c => call'[d] = call[d]
      /\ call' \in [Calls -> Requests]
      /\ SessionsTypeOK
  BY Slots DEF SInv
<1>2. ASSUME NEW t \in spent'
      PROVE  /\ t \in Times
             /\ WasStored(t)
             /\ signed[t] > 1 \/ stored.expiry = Gone \/ stored.token # t
  <2>1. CASE t \in spent
    BY <2>1, <1>1 DEF WasStored, SInv, SessionsTypeOK
  <2>2. CASE At(c, "stored") /\ call[c].kind = "refresh" /\ t = call[c].old
    <3>1. t \in Times /\ signed[t] \in 0 .. 2
      BY <2>2, <1>1, Shapes DEF SessionsTypeOK
    <3>. QED  BY <3>1, <2>2 DEF WasStored, SInv, CallOK, At
  <2>. QED  BY <2>1, <2>2
<1>3. SessionsTypeOK'
  BY <1>1, <1>2 DEF SessionsTypeOK, Requests
<1>4. ASSUME NEW t, WasStored(t)' PROVE WasStored(t)
  <2>1. CASE t \in spent' \cup held'
    BY <2>1, <1>2 DEF WasStored
  <2>2. CASE stored'.expiry # Gone /\ stored'.token = t
    BY <2>2 DEF WasStored
  <2>3. ASSUME NEW d \in Calls, At(d, "stored")', call'[d].new = t PROVE WasStored(t)
    BY <2>3, <1>1 DEF WasStored, At
  <2>4. ASSUME NEW d \in Calls, call'[d].kind = "refresh", call'[d].old = t PROVE WasStored(t)
    BY <2>4, <1>1 DEF WasStored, NoCall
  <2>. QED  BY <1>4, <2>1, <2>2, <2>3, <2>4 DEF WasStored
<1>5. ASSUME NEW d \in Calls, call'[d] # NoCall PROVE CallOK(d)'
  <2>1. CASE d = c
    <3>1. /\ call'[d].kind = "signOut" /\ call'[d].step \in {"revoked", "listed"}
          /\ call'[d].token <= now
      BY <2>1, <1>1, <1>5 DEF SInv, CallOK, NoCall
    <3>. QED  BY <3>1, <2>1, <1>1, <1>5 DEF CallOK, At
  <2>2. CASE d # c
    <3>1. CallOK(d) /\ call'[d] = call[d]
      BY <2>2, <1>1, <1>5 DEF SInv
    <3>2. At(d, "listed") => call[d].token \in Times
      BY <1>1, Shapes
    <3>. QED  BY <3>1, <3>2, <1>4 DEF CallOK, At
  <2>. QED  BY <2>1, <2>2
<1>6. ASSUME NEW d \in Calls, NEW e \in Calls, d # e,
             At(d, "signed")', At(e, "signed")', call'[d].new = call'[e].new
      PROVE  signed[call'[d].new] > 1
  <2>1. d # c /\ e # c
    BY <1>1, <1>6 DEF At
  <2>. QED  BY <2>1, <1>1, <1>6 DEF SInv, At
<1>7. \A t \in ended' : signed[t] > 1 \/ stored'.expiry = Gone \/ stored'.token # t
  BY DEF SInv
<1>. QED  BY <1>2, <1>3, <1>4, <1>5, <1>6, <1>7 DEF SInv

LEMMA AnswerStep ==
    ASSUME SInv, NEW c \in Calls, answerPair(c)
    PROVE  SInv'
<1>1. /\ SessionsTypeOK
      /\ now \in Times /\ now \in Nat /\ RefreshLife \in Nat \ {0}
      /\ call[c].new \in Times /\ call[c].new <= now
      /\ call[c].kind = "refresh" => call[c].old \in Times
  BY TimesAreNat, Shapes, LivesAssumption DEF SInv, SessionsTypeOK, answerPair, CallOK, At
<1>2. /\ stored' \in [token : Times, expiry : Expiries(RefreshLife)]
      /\ stored'.expiry = Gone \/ (stored.expiry # Gone /\ stored'.token = stored.token)
  BY <1>1 DEF answerPair, SessionsTypeOK, Alive, Expiries, Gone, Never
<1>3. /\ held' \subseteq Times /\ \A t \in held' : t <= now
      /\ held \subseteq held' /\ ended \subseteq held'
      /\ \A t \in held' : t \in held \/ (At(c, "stored") /\ t = call[c].new)
  BY <1>1 DEF answerPair, SInv, SessionsTypeOK
<1>4. \A t \in spent' : \/ t \in spent
                        \/ /\ At(c, "stored") /\ call[c].kind = "refresh"
                           /\ t = call[c].old
  BY DEF answerPair
<1>5. NoCall \in Requests /\ Becomes(c, NoCall) /\ UNCHANGED <<now, black, signed, out, ended>>
  BY DEF Requests, answerPair
<1>. QED  BY <1>1, <1>2, <1>3, <1>4, <1>5, RestStep DEF SInv, SessionsTypeOK

LEMMA RevokeStep ==
    ASSUME SInv, NEW c \in Calls, revokeRefreshToken(c) \/ blacklist(c)
    PROVE  SInv'
<1>1. /\ SessionsTypeOK
      /\ call[c] \in SignOuts /\ call[c].kind = "signOut" /\ call[c].token \in Times
      /\ 0 \in Times
  BY Shapes, LivesAssumption DEF SInv, revokeRefreshToken, blacklist, Times
<1>2. CASE revokeRefreshToken(c)
  <2> DEFINE r == [call[c] EXCEPT !.step = "revoked"]
  <2>1. r \in Requests /\ r.kind = "signOut" /\ r.step = "revoked" /\ r.token = call[c].token
    BY <1>1 DEF Requests, SignOuts
  <2>2. /\ stored' \in [token : Times, expiry : Expiries(RefreshLife)]
        /\ stored'.expiry = Gone
    BY <1>1, <1>2 DEF revokeRefreshToken, NoKey, Expiries
  <2>3. /\ Becomes(c, r) /\ UNCHANGED <<now, black, held, signed, spent, out>>
        /\ ended' = ended \cup held
    BY <1>2 DEF revokeRefreshToken
  <2>. HIDE DEF r
  <2>. QED  BY <1>1, <2>1, <2>2, <2>3, RestStep DEF SInv, SessionsTypeOK
<1>3. CASE blacklist(c)
  <2> DEFINE r == [call[c] EXCEPT !.step = "listed"]
  <2>1. r \in Requests /\ r.kind = "signOut" /\ r.step = "listed" /\ r.token = call[c].token
    BY <1>1 DEF Requests, SignOuts
  <2>2. /\ black' \in [Times -> Expiries(AccessLife)]
        /\ \A t \in Times : Outlives(t, black[t]) => Outlives(t, black'[t])
        /\ Outlives(r.token, black'[r.token])
    BY <1>1, <1>3 DEF blacklist, SessionsTypeOK, Expiries, Outlives
  <2>3. Becomes(c, r) /\ UNCHANGED <<now, stored, held, signed, spent, out, ended>>
    BY <1>3 DEF blacklist
  <2>4. stored.expiry = Gone \/ stored.expiry # Gone
    OBVIOUS
  <2>5. out \subseteq Times /\ \A t \in out : Outlives(t, black'[t])
    BY <2>2 DEF SInv, SessionsTypeOK
  <2>. HIDE DEF r
  <2>. QED  BY <1>1, <2>1, <2>2, <2>3, <2>4, <2>5, RestStep DEF SInv, SessionsTypeOK
<1>. QED  BY <1>2, <1>3

\* The key a sign-out leaves behind outlives the token, whether this EXPIRE
\* found it or the one of another sign-out had run out.
LEMMA SignOutStep ==
    ASSUME SInv, NEW c \in Calls, answerSignOut(c)
    PROVE  SInv'
<1> DEFINE s == call[c].token
<1>1. /\ SessionsTypeOK
      /\ now \in Times /\ now \in Nat /\ AccessLife \in Nat
      /\ s \in Times /\ s \in Nat /\ s <= now
      /\ Outlives(s, black[s])
  BY TimesAreNat, Shapes DEF SInv, SessionsTypeOK, answerSignOut, CallOK, At
<1>2. /\ black' \in [Times -> Expiries(AccessLife)]
      /\ \A t \in Times : t # s => black'[t] = black[t]
      /\ black'[s] = black[s] \/ black'[s] = now + AccessLife
  BY <1>1 DEF answerSignOut, SessionsTypeOK, Expiries
<1>3. Outlives(s, black'[s])
  BY <1>1, <1>2 DEF Outlives
<1>4. \A t \in Times : Outlives(t, black[t]) => Outlives(t, black'[t])
  BY <1>2, <1>3
<1>5. out' \subseteq Times /\ \A t \in out' : Outlives(t, black'[t])
  BY <1>1, <1>3, <1>4 DEF answerSignOut, SInv, SessionsTypeOK
<1>6. NoCall \in Requests /\ Becomes(c, NoCall) /\ UNCHANGED <<now, stored, held, signed, spent, ended>>
  BY DEF Requests, answerSignOut
<1>. QED  BY <1>1, <1>2, <1>4, <1>5, <1>6, RestStep DEF SInv, SessionsTypeOK

LEMMA ClockStep ==
    ASSUME SInv, tick \/ UNCHANGED vars
    PROVE  SInv'
<1>1. UNCHANGED <<stored, black, held, signed, spent, out, ended, call>>
  BY DEF tick, vars
<1>2. now' \in Times /\ now' >= now /\ now \in Nat /\ now' \in Nat
  BY LivesAssumption DEF tick, vars, SInv, SessionsTypeOK, Times
<1>3. \A t : WasStored(t)' <=> WasStored(t)
  BY <1>1 DEF WasStored, At
<1>4. ASSUME NEW c \in Calls, call[c] # NoCall PROVE CallOK(c)'
  <2>1. CallOK(c)
    BY <1>4 DEF SInv
  <2>2. /\ call[c].kind = "signOut" => call[c].token \in Nat
        /\ At(c, "signed") \/ At(c, "stored") => call[c].new \in Nat
    <3>1. SessionsTypeOK
      BY DEF SInv
    <3>2. call[c].kind = "signOut" => call[c] \in SignOuts
      BY <3>1, <1>4 DEF SessionsTypeOK, SignIns, Refreshes, SignOuts
    <3>. QED  BY <3>1, <3>2, Shapes, TimesAreNat DEF SInv, SessionsTypeOK, SignOuts
  <2>. QED  BY <2>1, <2>2, <1>1, <1>2, <1>3 DEF CallOK, At, Outlives
<1>5. \A t \in held : t <= now'
  BY <1>2, TimesAreNat DEF SInv, SessionsTypeOK
<1>6. SessionsTypeOK'
  BY <1>1, <1>2 DEF SInv, SessionsTypeOK
<1>7. \A t \in out : Outlives(t, black[t])'
  BY <1>1 DEF SInv, Outlives
<1>. QED  BY <1>1, <1>2, <1>3, <1>4, <1>5, <1>6, <1>7 DEF SInv, At, Outlives

LEMMA SInvStep == SInv /\ [Next]_vars => SInv'
<1> SUFFICES ASSUME SInv, [Next]_vars PROVE SInv'
    OBVIOUS
<1>1. ASSUME NEW c \in Calls, Issue(c) PROVE SInv'
  BY <1>1, SignStep, BeginStep, StoreStep, AnswerStep DEF Issue, Schemes
<1>2. ASSUME NEW c \in Calls, Revoke(c) PROVE SInv'
  BY <1>2, BeginStep, RevokeStep, SignOutStep DEF Revoke
<1>. QED  BY <1>1, <1>2, DropStep, ClockStep DEF Next

-----------------------------------------------------------------------------
(* The theorems.                                                           *)

\* The strengthening: blacklist keys outlive their tokens, and a token that was
\* stored can be stored again only if it was signed twice.
THEOREM SessionsInvariant == Spec => []SInv
<1>1. Init => SInv
  <2> SUFFICES ASSUME Init PROVE SInv
      OBVIOUS
  <2>1. 0 \in Times
    BY LivesAssumption DEF Times
  <2>2. SessionsTypeOK
    BY <2>1 DEF Init, SessionsTypeOK, NoKey, Expiries
  <2>3. \A c \in Calls : call[c] = NoCall /\ call[c].kind # "refresh"
    BY DEF Init, NoCall
  <2>4. \A t : ~WasStored(t)
    BY <2>3 DEF Init, WasStored, At, NoKey
  <2>. QED  BY <2>2, <2>3, <2>4 DEF Init, SInv, At
<1>2. SInv /\ [Next]_vars => SInv'
  BY SInvStep
<1>. QED  BY <1>1, <1>2, PTL DEF Spec

\* Every reachable state has the declared types; no key gets an expiry other
\* than a whole life of its token after some second.
THEOREM SessionsTypeCorrect == Spec => []SessionsTypeOK
<1>1. SInv => SessionsTypeOK
  BY DEF SInv
<1>. QED  BY <1>1, SessionsInvariant, PTL

\* An access token whose sign-out was answered never passes the guards again as
\* 'Bearer <token>', however long tokens live and however sign-outs, which may
\* come under any spelling of the scheme, overlap.
THEOREM SignOutIsFinal == Spec => []SignedOutForGood
<1>1. SInv => SignedOutForGood
  <2> SUFFICES ASSUME SInv, NEW t \in out, now < t + AccessLife PROVE Alive(black[t])
      BY DEF SignedOutForGood, ValidAccess
  <2>1. black[t] = Never \/ black[t] >= t + AccessLife
    BY DEF SInv, Outlives
  <2>2. now \in Nat /\ AccessLife \in Nat /\ t \in Times /\ t \in Nat /\ black[t] \in Expiries(AccessLife)
    BY TimesAreNat DEF SInv, SessionsTypeOK
  <2>3. black[t] \in Int
    BY <2>2, TimesAreNat DEF Expiries, Never, Gone, SInv, SessionsTypeOK
  <2>. QED  BY <2>1, <2>2, <2>3 DEF Alive
<1>. QED  BY <1>1, SessionsInvariant, PTL

\* A refresh token that was exchanged is never accepted again, unless two pairs
\* were signed in its second, for any number of concurrent requests.
THEOREM ExchangedOnce == Spec => []SpentStaysSpent
<1>1. SInv => SpentStaysSpent
  <2> SUFFICES ASSUME SInv, NEW t \in spent, ValidRefresh(t) PROVE signed[t] > 1
      BY DEF SpentStaysSpent
  <2>1. stored.token = t /\ stored.expiry # Gone
    BY DEF ValidRefresh, Alive, Gone, Never, SInv, SessionsTypeOK, Times
  <2>. QED  BY <2>1 DEF SInv
<1>. QED  BY <1>1, SessionsInvariant, PTL

\* A refresh token handed out before a sign-out deleted the key is never accepted
\* again, unless two pairs were signed in its second, whatever was under way.
THEOREM SignOutEndsSessions == Spec => []EndedStaysEnded
<1>1. SInv => EndedStaysEnded
  <2> SUFFICES ASSUME SInv, NEW t \in ended, ValidRefresh(t) PROVE signed[t] > 1
      BY DEF EndedStaysEnded
  <2>1. stored.token = t /\ stored.expiry # Gone
    BY DEF ValidRefresh, Alive, Gone, Never, SInv, SessionsTypeOK, Times
  <2>. QED  BY <2>1 DEF SInv
<1>. QED  BY <1>1, SessionsInvariant, PTL

-----------------------------------------------------------------------------
(* Refinement: the tokens obey SessionRecord.  A blacklist key that is     *)
(* there at all outlives its token, also one whose sign-out has died.      *)

RInv ==
    /\ SInv
    /\ \A t \in Times : black[t] = Gone \/ Outlives(t, black[t])

LEMMA RInvStep == RInv /\ [Next]_vars => RInv'
<1> SUFFICES ASSUME RInv, [Next]_vars PROVE RInv'
    OBVIOUS
<1>1. SInv /\ SInv' /\ SessionsTypeOK
  BY SInvStep DEF RInv, SInv
<1>2. ASSUME NEW t \in Times PROVE black'[t] = Gone \/ Outlives(t, black'[t])
  <2>1. ASSUME NEW c \in Calls, blacklist(c) PROVE black'[t] = Gone \/ Outlives(t, black'[t])
    BY <1>1, <2>1 DEF blacklist, SessionsTypeOK, Outlives, RInv
  <2>2. ASSUME NEW c \in Calls, answerSignOut(c) PROVE black'[t] = Gone \/ Outlives(t, black'[t])
    <3>1. /\ call[c].token \in Times /\ call[c].token <= now
          /\ now \in Nat /\ AccessLife \in Nat /\ call[c].token \in Nat
      BY <1>1, <2>2, Shapes, TimesAreNat DEF answerSignOut, At, SInv, CallOK, SessionsTypeOK
    <3>2. black'[t] = black[t] \/ (t = call[c].token /\ black'[t] = now + AccessLife)
      BY <1>1, <2>2 DEF answerSignOut, SessionsTypeOK
    <3>. QED  BY <3>1, <3>2 DEF RInv, Outlives
  <2>3. CASE UNCHANGED black
    BY <2>3 DEF RInv, Outlives
  <2>. QED
    BY <2>1, <2>2, <2>3
    DEF Next, Issue, Revoke, vars, openSignIn, openRefresh, signPair, storePair, answerPair,
        openSignOut, revokeRefreshToken, dropCall, tick
<1>. QED  BY <1>1, <1>2 DEF RInv

LEMMA RefinementInvariant == Spec => []RInv
<1>1. Init => RInv
  <2>1. Init => SInv
    <3> SUFFICES ASSUME Init PROVE SInv
        OBVIOUS
    <3>1. SessionsTypeOK
      BY LivesAssumption DEF Init, SessionsTypeOK, NoKey, Expiries, Times
    <3>2. \A c \in Calls : call[c] = NoCall /\ call[c].kind # "refresh"
      BY DEF Init, NoCall
    <3>. QED  BY <3>1, <3>2 DEF Init, SInv, WasStored, At, NoKey
  <2>. QED  BY <2>1 DEF Init, RInv
<1>. QED  BY <1>1, RInvStep, PTL DEF Spec

\* An accepted token has been stored, and one that was stored is on its way again
\* only if it was signed twice.
LEMMA Accepted ==
    ASSUME SInv, NEW t \in Times
    PROVE  /\ ValidRefresh(t) => stored.token = t /\ WasStored(t)
           /\ signed[t] = 0 => ~ValidRefresh(t) /\ ~Coming(t)
           /\ WasStored(t) /\ Coming(t) => signed[t] > 1
           /\ Phase(t) = "accepted" <=> ValidRefresh(t)
           /\ Phase(t) = "coming" <=> ~ValidRefresh(t) /\ Coming(t)
           /\ Phase(t) = "unsigned" <=> signed[t] = 0
           /\ Phase(t) \in Record!Phases
<1>1. ValidRefresh(t) => stored.token = t /\ WasStored(t)
  BY DEF ValidRefresh, Alive, Gone, Never, SInv, SessionsTypeOK, WasStored, Times
<1>2. Coming(t) => signed[t] > 0 /\ (WasStored(t) => signed[t] > 1)
  BY DEF Coming, SInv, CallOK, At
<1>3. signed[t] \in 0 .. 2 /\ (WasStored(t) => signed[t] > 0)
  BY DEF SInv, SessionsTypeOK
<1>. QED  BY <1>1, <1>2, <1>3 DEF Phase, Record!Phases

\* Which tokens are on their way changes with the slot of the step only.
LEMMA Comings ==
    ASSUME NEW c \in Calls, NEW t, \A d \in Calls : d # c => call'[d] = call[d]
    PROVE  /\ (At(c, "signed") /\ call[c].new = t) <=> (At(c, "signed")' /\ call'[c].new = t)
                 => (Coming(t)' <=> Coming(t))
           /\ ~(At(c, "signed")' /\ call'[c].new = t) => (Coming(t)' => Coming(t))
  BY DEF Coming, At

LEMMA SameCalls == UNCHANGED call => \A t : Coming(t)' <=> Coming(t)
  BY DEF Coming, At

\* The requests of a sign-in or a refresh sign at this second.
LEMMA SignRefines ==
    ASSUME RInv, RInv', NEW c \in Calls, openSignIn(c) \/ signPair(c), NEW s \in Times, s = now
    PROVE  Record!Sign(s)
<1>1. SInv /\ SInv' /\ SessionsTypeOK /\ now \in Times
  BY DEF RInv, SInv, SessionsTypeOK
<1>2. /\ \A t \in Times \ {now} : signed'[t] = signed[t]
      /\ signed'[now] = IF signed[now] = 0 THEN 1 ELSE 2
      /\ \A t \in Times : signed[t] \in 0 .. 2
      /\ UNCHANGED <<now, stored, black, spent, out, ended>>
  BY <1>1 DEF openSignIn, signPair, Sign, SessionsTypeOK
<1>3. /\ ~At(c, "signed")
      /\ At(c, "signed")' /\ call'[c].new = now
      /\ \A d \in Calls : d # c => call'[d] = call[d]
  BY <1>1, Slots DEF openSignIn, signPair, At, NoCall
<1>4. ASSUME NEW t \in Times, t # now PROVE Phase(t)' = Phase(t)
  <2>1. Coming(t)' <=> Coming(t)
    BY <1>3, <1>4, Comings
  <2>. QED  BY <2>1, <1>2, <1>4 DEF Phase, ValidRefresh, Alive
<1>5. Phase(now)' = IF Phase(now) = "accepted" THEN "accepted" ELSE "coming"
  <2>1. Coming(now)'
    BY <1>2, <1>3 DEF Coming
  <2>2. ValidRefresh(now)' <=> ValidRefresh(now)
    BY <1>2 DEF ValidRefresh, Alive
  <2>. QED  BY <2>1, <2>2, <1>1, <1>2, Accepted DEF Phase
<1>6. [t \in Times |-> Phase(t)]' =
        [[t \in Times |-> Phase(t)] EXCEPT ![now] = IF @ = "accepted" THEN @ ELSE "coming"]
  BY <1>1, <1>2, <1>4, <1>5
<1>7. {t \in Times : signed[t] > 1}' =
        IF Phase(now) = "unsigned" THEN {t \in Times : signed[t] > 1}
        ELSE {t \in Times : signed[t] > 1} \cup {now}
  BY <1>1, <1>2, Accepted
<1>8. {t \in Times : ~ValidAccess(t, "Bearer")}' = {t \in Times : ~ValidAccess(t, "Bearer")}
  BY <1>2 DEF ValidAccess, Alive
<1>. QED  BY <1>1, <1>2, <1>6, <1>7, <1>8 DEF Record!Sign

\* The token that is stored is accepted, or has expired on its way.
LEMMA StoreRefines ==
    ASSUME RInv, RInv', NEW c \in Calls, storePair(c), NEW n \in Times, n = call[c].new
    PROVE  Record!Accept(n) \/ Record!Expire
<1>1. SInv /\ SInv' /\ SessionsTypeOK /\ At(c, "signed") /\ n \in Times
  BY DEF RInv, SInv, storePair
<1>2. /\ \A d \in Calls : d # c => call'[d] = call[d]
      /\ ~At(c, "signed")'
      /\ UNCHANGED <<now, black, signed, spent, out, ended>>
      /\ stored' = [token |-> n, expiry |-> Never]
  BY <1>1, Shapes, Slots DEF storePair, At, SignIns, Refreshes
<1>3. ASSUME NEW t \in Times, t # n
      PROVE  IF Phase(t) = "accepted"
             THEN Phase(t)' = "dead" \/ (Phase(t)' = "coming" /\ signed[t] > 1)
             ELSE Phase(t)' = Phase(t)
  <2>1. Coming(t)' <=> Coming(t)
    BY <1>2, <1>3, Comings
  <2>2. ~ValidRefresh(t)'
    BY <1>2, <1>3 DEF ValidRefresh
  <2>. QED  BY <2>1, <2>2, <1>1, <1>2, Accepted DEF Phase
<1>4. \A t \in Times : Phase(t)' \in Record!Phases
  BY <1>1, Accepted DEF Phase, Record!Phases
<1>5. {t \in Times : ~ValidAccess(t, "Bearer")}' = {t \in Times : ~ValidAccess(t, "Bearer")}
  BY <1>2 DEF ValidAccess, Alive
<1>6. Phase(n) \in {"coming", "accepted"}
  BY <1>1, Accepted DEF Coming
<1>7. CASE Phase(n) = "coming" /\ now < n + RefreshLife
  <2>1. Phase(n)' = "accepted"
    BY <1>1, <1>2, <1>7, Accepted DEF Phase, ValidRefresh, Alive
  <2>. QED  BY <2>1, <1>1, <1>2, <1>3, <1>4, <1>5, <1>7 DEF Record!Accept, Record!Leaves, Record!Stays
<1>8. CASE Phase(n) = "accepted"
  <2>1. \A t \in Times : t # n => Phase(t) # "accepted"
    BY <1>1, <1>8, Accepted
  <2>2. Phase(n)' = "accepted"
    BY <1>1, <1>2, <1>8, Accepted DEF Phase, ValidRefresh, Alive
  <2>3. \A t \in Times : Phase(t)' = Phase(t)
    BY <2>1, <2>2, <1>3, <1>8
  <2>. QED  BY <2>3, <1>2, <1>4, <1>5 DEF Record!Expire, Record!Stays
<1>9. CASE Phase(n) = "coming" /\ ~(now < n + RefreshLife)
  <2>1. Phase(n)' \in {"coming", "dead"}
    BY <1>1, <1>2, <1>9, Accepted DEF Phase, ValidRefresh
  <2>2. \A t \in Times : \/ Record!Stays(t)
                         \/ Phase(t) \in {"coming", "accepted"} /\ Record!Leaves(t)
    BY <2>1, <1>2, <1>3, <1>9 DEF Record!Stays, Record!Leaves
  <2>. QED  BY <2>2, <1>2, <1>4, <1>5 DEF Record!Expire
<1>. QED  BY <1>6, <1>7, <1>8, <1>9

\* Steps after which every token is as it was, or was on its way and is dead.
LEMMA DropRefines ==
    ASSUME RInv, RInv', NEW c \in Calls, NEW r, Becomes(c, r), ~(r # NoCall /\ r.step = "signed"),
           UNCHANGED <<now, stored, signed, spent, ended, out>>,
           {t \in Times : ~ValidAccess(t, "Bearer")} \subseteq {t \in Times : ~ValidAccess(t, "Bearer")}'
    PROVE  Record!Expire
<1>1. SInv /\ SInv' /\ SessionsTypeOK
  BY DEF RInv, SInv
<1>2. (\A d \in Calls : d # c => call'[d] = call[d]) /\ ~At(c, "signed")'
  BY <1>1, Slots DEF At
<1>3. ASSUME NEW t \in Times
      PROVE  Phase(t)' = Phase(t) \/ (Phase(t) = "coming" /\ Phase(t)' = "dead")
  <2>1. Coming(t)' => Coming(t)
    BY <1>2, Comings
  <2>. QED  BY <2>1, <1>1, Accepted DEF Phase, ValidRefresh, Alive
<1>4. \A t \in Times : Phase(t)' \in Record!Phases
  BY <1>1, Accepted DEF Phase, Record!Phases
<1>. QED  BY <1>3, <1>4 DEF Record!Expire, Record!Stays, Record!Leaves

LEMMA AnswerRefines ==
    ASSUME RInv, RInv', NEW c \in Calls, answerPair(c)
    PROVE  Record!Finish
<1>1. /\ SInv /\ SInv' /\ SessionsTypeOK /\ At(c, "stored") /\ CallOK(c)
      /\ now \in Nat /\ RefreshLife \in Nat \ {0}
  BY LivesAssumption, TimesAreNat DEF RInv, SInv, SessionsTypeOK, answerPair, At
<1>2. /\ \A d \in Calls : d # c => call'[d] = call[d]
      /\ ~At(c, "signed") /\ ~At(c, "signed")'
      /\ UNCHANGED <<now, black, signed, out, ended>>
      /\ stored'.token = stored.token /\ (Alive(stored.expiry) <=> Alive(stored'.expiry))
  BY <1>1, Slots DEF answerPair, At, Alive, Never, SessionsTypeOK
<1>3. ASSUME NEW t \in Times PROVE Phase(t)' = Phase(t)
  <2>1. Coming(t)' <=> Coming(t)
    BY <1>2, Comings
  <2>2. ValidRefresh(t)' <=> ValidRefresh(t)
    BY <1>2 DEF ValidRefresh, Alive
  <2>. QED  BY <2>1, <2>2, <1>2 DEF Phase
<1>4. ASSUME NEW t \in spent', t \notin spent
      PROVE  t \in Times /\ (Phase(t)' = "dead" \/ signed[t] > 1)
  <2>1. call[c].kind = "refresh" /\ t = call[c].old /\ t \in Times
    BY <1>1, <1>4, Shapes DEF answerPair
  <2>2. WasStored(t) /\ signed[t] \in 0 .. 2 /\ signed[t] > 0
    BY <1>1, <2>1 DEF WasStored, SInv, SessionsTypeOK
  <2>3. signed[t] > 1 \/ ~ValidRefresh(t)
    BY <1>1, <2>1, <2>2 DEF CallOK, ValidRefresh, Alive, Gone, Never
  <2>. QED  BY <2>1, <2>2, <2>3, <1>1, <1>3, Accepted DEF Phase
<1>5. spent \subseteq spent' /\ spent' \cup ended \subseteq Times
  BY <1>1, <1>4 DEF answerPair, SessionsTypeOK
<1>6. {t \in Times : ~ValidAccess(t, "Bearer")}' = {t \in Times : ~ValidAccess(t, "Bearer")}
  BY <1>2 DEF ValidAccess, Alive
<1>7. \A t \in Times : Phase(t)' \in Record!Phases
  BY <1>1, Accepted DEF Phase, Record!Phases
<1>. QED  BY <1>2, <1>3, <1>4, <1>5, <1>6, <1>7 DEF Record!Finish, Record!Stays

LEMMA RevokeRefines ==
    ASSUME RInv, RInv', NEW c \in Calls, revokeRefreshToken(c)
    PROVE  Record!Finish
<1>1. SInv /\ SInv' /\ SessionsTypeOK /\ At(c, "passed") /\ call[c] \in SignOuts
  BY Shapes DEF RInv, SInv, revokeRefreshToken
<1>2. /\ \A d \in Calls : d # c => call'[d] = call[d]
      /\ ~At(c, "signed") /\ ~At(c, "signed")'
      /\ UNCHANGED <<now, black, held, signed, spent, out>>
      /\ stored' = NoKey /\ ended' = ended \cup held
  BY <1>1, Slots DEF revokeRefreshToken, At, SignOuts
<1>3. \A t \in Times : ~ValidRefresh(t)'
  BY <1>1, <1>2 DEF ValidRefresh, Alive, NoKey, Gone, Never, SessionsTypeOK, Times
<1>4. ASSUME NEW t \in Times
      PROVE  \/ Phase(t)' = Phase(t)
             \/ /\ Phase(t) = "accepted"
                /\ Phase(t)' = "dead" \/ (Phase(t)' = "coming" /\ signed[t] > 1)
  <2>1. Coming(t)' <=> Coming(t)
    BY <1>2, Comings
  <2>. QED  BY <2>1, <1>1, <1>2, <1>3, Accepted DEF Phase
<1>5. ASSUME NEW t \in held PROVE t \in Times /\ (Phase(t)' = "dead" \/ signed[t] > 1)
  <2>1. t \in Times /\ WasStored(t) /\ signed[t] \in 0 .. 2 /\ signed[t] > 0
    BY <1>1 DEF WasStored, SInv, SessionsTypeOK
  <2>2. Coming(t)' <=> Coming(t)
    BY <1>2, Comings
  <2>. QED  BY <2>1, <2>2, <1>1, <1>2, <1>3, Accepted DEF Phase
<1>6. spent \cup ended' \subseteq Times
  BY <1>1, <1>2 DEF SessionsTypeOK
<1>7. {t \in Times : ~ValidAccess(t, "Bearer")}' = {t \in Times : ~ValidAccess(t, "Bearer")}
  BY <1>2 DEF ValidAccess, Alive
<1>8. \A t \in Times : Phase(t)' \in Record!Phases
  BY <1>1, Accepted DEF Phase, Record!Phases
<1>. QED
  BY <1>2, <1>4, <1>5, <1>6, <1>7, <1>8 DEF Record!Finish, Record!Stays, Record!Leaves

\* The key of a sign-out that is answered is there as long as the token lives.
LEMMA SignOutRefines ==
    ASSUME RInv, RInv', NEW c \in Calls, answerSignOut(c), NEW s \in Times, s = call[c].token
    PROVE  Record!SignOut(s)
<1>1. /\ SInv /\ SInv' /\ SessionsTypeOK /\ At(c, "listed") /\ Outlives(s, black[s])
      /\ now \in Nat /\ AccessLife \in Nat \ {0} /\ s \in Nat
  BY LivesAssumption, TimesAreNat DEF RInv, SInv, SessionsTypeOK, answerSignOut, CallOK, At
<1>2. /\ \A d \in Calls : d # c => call'[d] = call[d]
      /\ ~At(c, "signed") /\ ~At(c, "signed")'
      /\ UNCHANGED <<now, stored, held, signed, spent, ended>>
      /\ out' = out \cup {s}
      /\ \A t \in Times : Alive(black[t]) <=> Alive(black'[t])
  BY <1>1, Slots DEF answerSignOut, At, Alive, Never, SessionsTypeOK
<1>3. ASSUME NEW t \in Times PROVE Phase(t)' = Phase(t)
  <2>1. Coming(t)' <=> Coming(t)
    BY <1>2, Comings
  <2>. QED  BY <2>1, <1>2 DEF Phase, ValidRefresh, Alive
<1>4. {t \in Times : ~ValidAccess(t, "Bearer")}' = {t \in Times : ~ValidAccess(t, "Bearer")}
  BY <1>2 DEF ValidAccess, Alive
<1>5. ~ValidAccess(s, "Bearer")
  <2>1. black[s] \in Int
    BY <1>1, TimesAreNat DEF SInv, SessionsTypeOK, Expiries, Never, Gone
  <2>. QED  BY <2>1, <1>1 DEF ValidAccess, Alive, Outlives
<1>. QED  BY <1>2, <1>3, <1>4, <1>5 DEF Record!SignOut

\* The clock makes tokens and keys expire; a blacklist key expires no sooner than
\* its token.
LEMMA ClockRefines ==
    ASSUME RInv, RInv', tick
    PROVE  Record!Expire
<1>1. /\ SInv /\ SInv' /\ SessionsTypeOK
      /\ now \in Nat /\ now' = now + 1 /\ AccessLife \in Nat /\ RefreshLife \in Nat
      /\ UNCHANGED <<stored, black, held, signed, spent, out, ended, call>>
  BY TimesAreNat DEF RInv, SInv, SessionsTypeOK, tick
<1>2. ASSUME NEW t \in Times
      PROVE  \/ Phase(t)' = Phase(t)
             \/ /\ Phase(t) = "accepted"
                /\ Phase(t)' = "dead" \/ (Phase(t)' = "coming" /\ signed[t] > 1)
  <2>1. Coming(t)' <=> Coming(t)
    BY <1>1, SameCalls
  <2>2. t \in Nat /\ stored.expiry \in Int
    BY <1>1, TimesAreNat DEF SessionsTypeOK, Expiries, Never, Gone
  <2>3. ValidRefresh(t)' => ValidRefresh(t)
    BY <2>2, <1>1 DEF ValidRefresh, Alive
  <2>. QED  BY <2>1, <2>3, <1>1, Accepted DEF Phase
<1>3. ASSUME NEW t \in Times, ~ValidAccess(t, "Bearer") PROVE ~ValidAccess(t, "Bearer")'
  <2>1. t \in Nat /\ black[t] \in Int
    BY <1>1, TimesAreNat DEF SessionsTypeOK, Expiries, Never, Gone
  <2>. QED  BY <2>1, <1>1, <1>3 DEF ValidAccess, Alive, Outlives, RInv, Gone, Never
<1>4. \A t \in Times : Phase(t)' \in Record!Phases
  BY <1>1, Accepted DEF Phase, Record!Phases
<1>. QED  BY <1>1, <1>2, <1>3, <1>4 DEF Record!Expire, Record!Stays, Record!Leaves

LEMMA StepRefines == RInv /\ RInv' /\ [Next]_vars => [Record!Next]_Record!vars
<1> SUFFICES ASSUME RInv, RInv', [Next]_vars PROVE [Record!Next]_Record!vars
    OBVIOUS
<1>0. SInv /\ SessionsTypeOK /\ now \in Times
  BY DEF RInv, SInv, SessionsTypeOK
<1>1. ASSUME NEW c \in Calls, Issue(c) PROVE Record!Next
  <2>1. CASE openSignIn(c) \/ signPair(c)
    BY <2>1, <1>0, SignRefines DEF Record!Next
  <2>2. ASSUME NEW t \in Times, openRefresh(c, t) PROVE Record!Expire
    <3> DEFINE r == [kind |-> "refresh", step |-> "verified", old |-> t]
    <3>1. Becomes(c, r) /\ r.step # "signed"
      BY <2>2 DEF openRefresh
    <3>. HIDE DEF r
    <3>. QED  BY <2>2, <3>1, DropRefines DEF openRefresh, ValidAccess, Alive
  <2>3. CASE storePair(c)
    BY <2>3, <1>0, Shapes, StoreRefines DEF storePair, Record!Next
  <2>4. CASE answerPair(c)
    BY <2>4, AnswerRefines DEF Record!Next
  <2>. QED  BY <1>1, <2>1, <2>2, <2>3, <2>4 DEF Issue, Record!Next
<1>2. ASSUME NEW c \in Calls, Revoke(c) PROVE Record!Next
  <2>1. ASSUME NEW t \in Times, NEW scheme \in Schemes, openSignOut(c, t, scheme)
        PROVE  Record!Expire
    <3> DEFINE r == [kind |-> "signOut", step |-> "passed", token |-> t]
    <3>1. Becomes(c, r) /\ r.step # "signed"
      BY <2>1 DEF openSignOut
    <3>. HIDE DEF r
    <3>. QED  BY <2>1, <3>1, DropRefines DEF openSignOut, ValidAccess, Alive
  <2>2. CASE revokeRefreshToken(c)
    BY <2>2, RevokeRefines DEF Record!Next
  <2>3. CASE blacklist(c)
    <3> DEFINE r == [call[c] EXCEPT !.step = "listed"]
    <3>1. Becomes(c, r) /\ r.step # "signed"
      BY <2>3, <1>0, Shapes DEF blacklist, SignOuts
    <3>2. \A t \in Times : ~ValidAccess(t, "Bearer") => ~ValidAccess(t, "Bearer")'
      BY <2>3, <1>0, Shapes DEF blacklist, ValidAccess, Alive, Never, SessionsTypeOK
    <3>. HIDE DEF r
    <3>. QED  BY <2>3, <3>1, <3>2, DropRefines DEF blacklist, Record!Next
  <2>4. CASE answerSignOut(c)
    BY <2>4, <1>0, Shapes, SignOutRefines DEF answerSignOut, Record!Next
  <2>. QED  BY <1>2, <2>1, <2>2, <2>3, <2>4 DEF Revoke, Record!Next
<1>3. ASSUME NEW c \in Calls, dropCall(c) PROVE Record!Next
  BY <1>3, DropRefines DEF dropCall, ValidAccess, Alive, Record!Next
<1>4. CASE tick
  BY <1>4, ClockRefines DEF Record!Next
<1>5. CASE UNCHANGED vars
  <2>1. \A t \in Times : Phase(t)' = Phase(t) /\ (ValidAccess(t, "Bearer")' <=> ValidAccess(t, "Bearer"))
    BY <1>5, SameCalls DEF vars, Phase, ValidRefresh, ValidAccess, Alive
  <2>. QED  BY <1>5, <2>1 DEF vars, Record!vars
<1>. QED  BY <1>1, <1>2, <1>3, <1>4, <1>5 DEF Next

\* Sessions implements SessionRecord, for any number of overlapping requests and any
\* lives of the tokens: a refresh token that is accepted no more, for whatever
\* reason, is never accepted again unless it was signed twice, the exchange and the
\* sign-out that are answered leave none behind, and an access token refused as
\* 'Bearer <token>' stays so.
THEOREM SessionsRefine == Spec => ImplementsSessionRecord
<1>1. Init /\ SInv => Record!Init
  <2> SUFFICES ASSUME Init, SInv PROVE Record!Init
      OBVIOUS
  <2>1. \A t \in Times : signed[t] = 0 /\ ValidAccess(t, "Bearer")
    BY LivesAssumption DEF Init, ValidAccess, Alive, Gone, Never, Times
  <2>. QED  BY <2>1 DEF Init, Record!Init, Phase
<1>. QED
  BY <1>1, SessionsInvariant, RefinementInvariant, StepRefines, PTL
  DEF Spec, ImplementsSessionRecord, Record!Spec

=============================================================================
