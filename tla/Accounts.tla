------------------------------ MODULE Accounts ------------------------------
(***************************************************************************)
(* The rows of the "user" table and what Redis keeps about them: sign-up   *)
(* and e-mail verification (AuthService, AuthTxService), sign-in, the      *)
(* profile (UserService) and its entries in the cache of @Cache methods.   *)
(*                                                                         *)
(* Except for createUserOrThrow nothing is transactional: every request is *)
(* a chain of awaited queries to MySQL and Redis, and others come between  *)
(* any two of them.  save() of a loaded entity is two queries: it reads    *)
(* the row again, and then updates the columns in which the entity differs *)
(* from what that read returned, the stale ones included.                  *)
(*                                                                         *)
(* The body of a sign-up goes into the entity whole (signUp.body.ts), and  *)
(* the validation has no whitelist: it may carry an id, verified and       *)
(* deletedAt too.  A row with that id is updated instead of a new one      *)
(* being made.                                                             *)
(***************************************************************************)

CONSTANTS
    Users,      \* ids of users
    Emails,     \* e-mail addresses
    Names,      \* values of the name column
    Passwords,  \* values of the password column (hashes)
    Unset,      \* a column that a body leaves out
    Bodies,     \* the bodies of sign-ups
    Profiles,   \* the bodies of updateUser
    Asked,      \* bound: the users whom getUser is asked for
    Calls       \* slots for the requests in flight

Maybe(values) == values \cup {Unset}

\* The columns id, verified and deleted (deletedAt) are not declared by SignUpBody.
ASSUME BodiesAssumption ==
    Bodies \subseteq [id : Maybe(Users), email : Emails, name : Names, password : Passwords,
                      verified : Maybe(BOOLEAN), deleted : Maybe(BOOLEAN)]

ASSUME ProfilesAssumption == Profiles \subseteq [name : Maybe(Names), password : Maybe(Passwords)]

ASSUME UnsetAssumption == Unset \notin Users \cup Emails

ASSUME AskedAssumption == Asked \subseteq Users

VARIABLES
    user,    \* user[i] : the row with id i, or NoRow
    links,   \* addresses with an email-verify/<token> key in Redis
    mailed,  \* addresses that a verification mail has reached
    members, \* users that have been given an access token
    cache,   \* cache[i] : the user/<id> key in Redis, or NoEntry
    cut,     \* history: users whose user/<id> key has lost an EXPIRE
    named,   \* history: users whose row was there when a sign-up wrote it by its id
    lost,    \* history: addresses that such a row has had before
    call     \* call[c] : the request of slot c, or NoCall

vars == <<user, links, mailed, members, cache, cut, named, lost, call>>

Rows == [email : Emails, name : Names, password : Passwords, verified : BOOLEAN, deleted : BOOLEAN]

NoRow == [email |-> "none"]

Columns == {"email", "name", "password", "verified", "deleted"}

\* What a sign-up hands to save().
NewUsers ==
    [email : Emails, name : Names, password : Passwords,
     verified : Maybe(BOOLEAN), deleted : Maybe(BOOLEAN)]

Entries == [row : Rows, expiring : BOOLEAN]

NoEntry == [row |-> "none"]

\* Requests that carry nothing from query to query but an address or a user; that
\* carry a row; that create a user; and that are saving an entity, of which they are
\* about to write the columns in "writes".
PlainCalls ==
    [kind : {"signUp"}, step : {"saved", "stored"}, of : Emails]
        \cup [kind : {"verifyEmail"}, step : {"found", "saved"}, of : Emails]
        \cup [kind : {"signIn"}, step : {"checked"}, of : Users]
        \cup [kind : {"getUser"}, step : {"missed", "filled"}, of : Users]
        \cup [kind : {"updateUser"}, step : {"saved"}, of : Users]

RowCalls == [kind : {"getUser"}, step : {"read"}, of : Users, row : Rows]

SignUpCalls ==
    [kind : {"signUp"}, step : {"checked"}, of : Maybe(Users), found : BOOLEAN,
     row : NewUsers, writes : SUBSET Columns]

SaveCalls ==
    [kind : {"verifyEmail", "updateUser"}, step : {"loaded", "compared"}, of : Users,
     row : Rows, writes : SUBSET Columns]

NoCall == [kind |-> "none"]

Requests == PlainCalls \cup RowCalls \cup SignUpCalls \cup SaveCalls \cup {NoCall}

AccountsTypeOK ==
    /\ user \in [Users -> Rows \cup {NoRow}]
    /\ links \subseteq Emails
    /\ mailed \subseteq Emails
    /\ members \subseteq Users
    /\ cache \in [Users -> Entries \cup {NoEntry}]
    /\ cut \subseteq Users
    /\ named \subseteq Users
    /\ lost \subseteq Emails
    /\ call \in [Calls -> Requests]

Init ==
    /\ user = [i \in Users |-> NoRow]
    /\ links = {}
    /\ mailed = {}
    /\ members = {}
    /\ cache = [i \in Users |-> NoEntry]
    /\ cut = {}
    /\ named = {}
    /\ lost = {}
    /\ call = [c \in Calls |-> NoCall]

\* What a find returns.
Live(i) == user[i] # NoRow /\ user[i].deleted = FALSE

Verified(i) == user[i] # NoRow /\ user[i].verified = TRUE

\* Some row has this address, deleted or not.
Registered(a) == \E i \in Users : user[i] # NoRow /\ user[i].email = a

\* The unique index on the address.
Accepts(i, a) == \A j \in Users \ {i} : user[j] # NoRow => user[j].email # a

\* The columns of old, those in cols replaced by the ones of entity.
Merge(old, entity, cols) ==
    [email    |-> IF "email" \in cols THEN entity.email ELSE old.email,
     name     |-> IF "name" \in cols THEN entity.name ELSE old.name,
     password |-> IF "password" \in cols THEN entity.password ELSE old.password,
     verified |-> IF "verified" \in cols THEN entity.verified ELSE old.verified,
     deleted  |-> IF "deleted" \in cols THEN entity.deleted ELSE old.deleted]

\* The columns of a sent entity in which the row read by save() differs.
Differing(entity, row) == {k \in Columns : entity[k] \notin {Unset, row[k]}}

\* The request of slot c is of this kind and has come to this step.
At(c, kind, step) == call[c] # NoCall /\ call[c].kind = kind /\ call[c].step = step

Plain(kind, step, a) == [kind |-> kind, step |-> step, of |-> a]

Becomes(c, request) == call' = [call EXCEPT ![c] = request]

\* Row i is written.  If a sign-up has named it, the address it has had is noted.
Writes(i, row) ==
    /\ user' = [user EXCEPT ![i] = row]
    /\ lost' = IF i \in named' THEN lost \cup {user[i].email} ELSE lost

-----------------------------------------------------------------------------
(* signUp                                                                  *)

\* Mutant: createUserOrThrow is not awaited.
openSignUp_noAwait(c, body) ==
    /\ call[c] = NoCall
    /\ \A i \in Users : Live(i) => user[i].email # body.email
    /\ Becomes(c, Plain("signUp", "saved", body.email))
    /\ UNCHANGED <<user, links, mailed, members, cache, cut, named, lost>>

\* The transaction finds no account with this address (otherwise 409), and reads, in
\* the same snapshot, the row whose id the body names, if it names one.
openSignUp(c, body) ==
    LET found == body.id # Unset /\ user[body.id] # NoRow
        row   == [email |-> body.email, name |-> body.name, password |-> body.password,
                  verified |-> body.verified, deleted |-> body.deleted]
    IN  /\ call[c] = NoCall
        /\ \A i \in Users : Live(i) => user[i].email # body.email
        /\ Becomes(c, [kind |-> "signUp", step |-> "checked", of |-> body.id, found |-> found,
                       row |-> row,
                       writes |-> IF found THEN Differing(row, user[body.id]) ELSE {}])
        /\ UNCHANGED <<user, links, mailed, members, cache, cut, named, lost>>

\* An INSERT has the defaults of the columns that were not sent.
Defaulted(entity) ==
    [entity EXCEPT !.verified = IF @ = Unset THEN FALSE ELSE @,
                   !.deleted  = IF @ = Unset THEN FALSE ELSE @]

\* The INSERT, under a new id unless the body names one.
insertUser(c) ==
    LET r == call[c]
    IN  \E i \in IF r.of = Unset THEN {j \in Users : user[j] = NoRow} ELSE {r.of} :
            /\ user[i] = NoRow
            /\ Accepts(i, r.row.email)
            /\ UNCHANGED named
            /\ Writes(i, Defaulted(r.row))

\* The UPDATE of the row that the body names.
overwriteUser(c) ==
    LET r == call[c]
        row == Merge(user[r.of], r.row, r.writes)
    IN  /\ Accepts(r.of, row.email)
        /\ named' = named \cup {r.of}
        /\ Writes(r.of, row)

\* The primary key or the unique index refuses the row.
Refused(c) ==
    LET r == call[c]
    IN  IF r.found THEN ~Accepts(r.of, Merge(user[r.of], r.row, r.writes).email)
        ELSE Registered(r.row.email) \/ (r.of # Unset /\ user[r.of] # NoRow)

\* INSERT or UPDATE, and the commit; or a 500.
createUser(c) ==
    /\ At(c, "signUp", "checked")
    /\ \/ /\ IF call[c].found THEN overwriteUser(c) ELSE insertUser(c)
          /\ Becomes(c, Plain("signUp", "saved", call[c].row.email))
       \/ /\ Refused(c)
          /\ Becomes(c, NoCall)
          /\ UNCHANGED <<user, named, lost>>
    /\ UNCHANGED <<links, mailed, members, cache, cut>>

\* SET and EXPIRE of the verification key: until both have answered there is
\* no mail, so nobody can tell them apart.
storeLink(c) ==
    LET a == call[c].of
    IN  /\ At(c, "signUp", "saved")
        /\ links' = links \cup {a}
        /\ Becomes(c, Plain("signUp", "stored", a))
        /\ UNCHANGED <<user, mailed, members, cache, cut, named, lost>>

\* SES takes the mail, which ends the request (it may refuse it: dropCall).
sendMail(c) ==
    /\ At(c, "signUp", "stored")
    /\ mailed' = mailed \cup {call[c].of}
    /\ Becomes(c, NoCall)
    /\ UNCHANGED <<user, links, members, cache, cut, named, lost>>

\* 300 seconds have passed.
expireLink(a) ==
    /\ a \in links
    /\ links' = links \ {a}
    /\ UNCHANGED <<user, mailed, members, cache, cut, named, lost, call>>

-----------------------------------------------------------------------------
(* signIn                                                                  *)

\* Mutant: unverified users may sign in.
openSignIn_unverified(c, i) ==
    /\ call[c] = NoCall
    /\ Live(i)
    /\ Becomes(c, Plain("signIn", "checked", i))
    /\ UNCHANGED <<user, links, mailed, members, cache, cut, named, lost>>

\* The password is right and the account verified.
openSignIn(c, i) ==
    /\ call[c] = NoCall
    /\ Live(i) /\ Verified(i)
    /\ Becomes(c, Plain("signIn", "checked", i))
    /\ UNCHANGED <<user, links, mailed, members, cache, cut, named, lost>>

issueTokens(c) ==
    /\ At(c, "signIn", "checked")
    /\ members' = members \cup {call[c].of}
    /\ Becomes(c, NoCall)
    /\ UNCHANGED <<user, links, mailed, cache, cut, named, lost>>

-----------------------------------------------------------------------------
(* save() of an entity that was loaded before, outside a transaction.      *)

\* The row is read again, deleted or not, and compared with the entity.
compareRow(c) ==
    LET r == call[c]
    IN  /\ At(c, "verifyEmail", "loaded") \/ At(c, "updateUser", "loaded")
        /\ Becomes(c, [r EXCEPT !.step = "compared", !.writes = Differing(r.row, user[r.of])])
        /\ UNCHANGED <<user, links, mailed, members, cache, cut, named, lost>>

\* One UPDATE of the columns that differed; a 500 if the unique index refuses it.
writeRow(c) ==
    LET r == call[c]
        row == Merge(user[r.of], r.row, r.writes)
    IN  /\ At(c, "verifyEmail", "compared") \/ At(c, "updateUser", "compared")
        /\ UNCHANGED named
        /\ IF Accepts(r.of, row.email)
           THEN /\ Writes(r.of, row)
                /\ Becomes(c, Plain(r.kind, "saved",
                                    IF r.kind = "verifyEmail" THEN r.row.email ELSE r.of))
           ELSE /\ Becomes(c, NoCall)
                /\ UNCHANGED <<user, lost>>
        /\ UNCHANGED <<links, mailed, members, cache, cut>>

-----------------------------------------------------------------------------
(* verifyEmail                                                             *)

\* The holder of the mail opens the link while the key is there (else 400).
openLink(c, a) ==
    /\ call[c] = NoCall
    /\ a \in mailed
    /\ a \in links
    /\ Becomes(c, Plain("verifyEmail", "found", a))
    /\ UNCHANGED <<user, links, mailed, members, cache, cut, named, lost>>

\* The user with the address is loaded (404 if there is none); one who is verified
\* already needs nothing more.
loadToVerify(c) ==
    LET a == call[c].of
        owners == {i \in Users : Live(i) /\ user[i].email = a}
    IN  /\ At(c, "verifyEmail", "found")
        /\ \/ /\ \A i \in owners : Verified(i)
              /\ Becomes(c, NoCall)
           \/ \E i \in owners :
              /\ ~Verified(i)
              /\ Becomes(c, [kind |-> "verifyEmail", step |-> "loaded", of |-> i,
                             row |-> [user[i] EXCEPT !.verified = TRUE], writes |-> {}])
        /\ UNCHANGED <<user, links, mailed, members, cache, cut, named, lost>>

\* The key has served and is deleted.  Another sign-up with this address may have
\* left one of its own.
dropLink(c) ==
    /\ At(c, "verifyEmail", "saved")
    /\ links' = links \ {call[c].of} \/ (call[c].of \in lost /\ UNCHANGED links)
    /\ Becomes(c, NoCall)
    /\ UNCHANGED <<user, mailed, members, cache, cut, named, lost>>

-----------------------------------------------------------------------------
(* updateUser, by a user with an access token.                             *)

\* The row with the name and the hashed password that were given.
Given(row, dto) ==
    [row EXCEPT !.name     = IF dto.name = Unset THEN @ ELSE dto.name,
                !.password = IF dto.password = Unset THEN @ ELSE dto.password]

\* Mutant: the entity is taken from the DTO alone, verified at its default.
openUpdate_fromDto(c, i, dto) ==
    /\ call[c] = NoCall
    /\ i \in members
    /\ Live(i)
    /\ Becomes(c, [kind |-> "updateUser", step |-> "loaded", of |-> i,
                   row |-> [Given(user[i], dto) EXCEPT !.verified = FALSE],
                   writes |-> {}])
    /\ UNCHANGED <<user, links, mailed, members, cache, cut, named, lost>>

\* The row is loaded and gets what was given.
openUpdate(c, i, dto) ==
    /\ call[c] = NoCall
    /\ i \in members
    /\ Live(i)
    /\ Becomes(c, [kind |-> "updateUser", step |-> "loaded", of |-> i,
                   row |-> Given(user[i], dto), writes |-> {}])
    /\ UNCHANGED <<user, links, mailed, members, cache, cut, named, lost>>

\* After the save the cache entry is deleted.
dropEntry(c) ==
    /\ At(c, "updateUser", "saved")
    /\ cache' = [cache EXCEPT ![call[c].of] = NoEntry]
    /\ Becomes(c, NoCall)
    /\ UNCHANGED <<user, links, mailed, members, cut, named, lost>>

-----------------------------------------------------------------------------
(* getUser, wrapped by @Cache: any signed-in user may ask for any user.    *)

\* The key is not there; a hit answers at once and changes nothing.
missEntry(c, i) ==
    /\ call[c] = NoCall
    /\ members # {}
    /\ cache[i] = NoEntry
    /\ Becomes(c, Plain("getUser", "missed", i))
    /\ UNCHANGED <<user, links, mailed, members, cache, cut, named, lost>>

\* 404, which is not cached, if there is no such user.
readRow(c) ==
    LET i == call[c].of
    IN  /\ At(c, "getUser", "missed")
        /\ Becomes(c, IF Live(i) THEN [kind |-> "getUser", step |-> "read", of |-> i, row |-> user[i]]
                      ELSE NoCall)
        /\ UNCHANGED <<user, links, mailed, members, cache, cut, named, lost>>

\* Mutant: the options of @Cache carry no ttl.
fillEntry_noTtl(c) ==
    /\ At(c, "getUser", "read")
    /\ cache' = [cache EXCEPT ![call[c].of] = [row |-> call[c].row, expiring |-> FALSE]]
    /\ Becomes(c, NoCall)
    /\ UNCHANGED <<user, links, mailed, members, cut, named, lost>>

\* SET, which also takes away the expiry an older entry had.
fillEntry(c) ==
    /\ At(c, "getUser", "read")
    /\ cache' = [cache EXCEPT ![call[c].of] = [row |-> call[c].row, expiring |-> FALSE]]
    /\ Becomes(c, Plain("getUser", "filled", call[c].of))
    /\ UNCHANGED <<user, links, mailed, members, cut, named, lost>>

\* EXPIRE, of whatever entry is under the key by now.
expireSoon(c) ==
    LET i == call[c].of
    IN  /\ At(c, "getUser", "filled")
        /\ cache' = [cache EXCEPT ![i] = IF @ = NoEntry THEN @ ELSE [@ EXCEPT !.expiring = TRUE]]
        /\ Becomes(c, NoCall)
        /\ UNCHANGED <<user, links, mailed, members, cut, named, lost>>

\* 60 seconds have passed.
expireEntry(i) ==
    /\ cache[i] # NoEntry
    /\ cache[i].expiring
    /\ cache' = [cache EXCEPT ![i] = NoEntry]
    /\ UNCHANGED <<user, links, mailed, members, cut, named, lost, call>>

-----------------------------------------------------------------------------
\* A query, Redis or SES fails, or the process ends, in the middle of a request.
dropCall(c) ==
    /\ call[c] # NoCall
    /\ cut' = cut \cup {i \in Users : call[c] = Plain("getUser", "filled", i)}
    /\ Becomes(c, NoCall)
    /\ UNCHANGED <<user, links, mailed, members, cache, named, lost>>

\* A request begins.
Open(c) ==
    \/ \E body \in Bodies : openSignUp(c, body)
    \/ \E a \in Emails : openLink(c, a)
    \/ \E i \in Users :
          \/ openSignIn(c, i)
          \/ \E dto \in Profiles : openUpdate(c, i, dto)
    \/ \E i \in Asked : missEntry(c, i)

\* A request goes on.
Continue(c) ==
    \/ createUser(c)
    \/ storeLink(c)
    \/ sendMail(c)
    \/ issueTokens(c)
    \/ compareRow(c)
    \/ writeRow(c)
    \/ loadToVerify(c)
    \/ dropLink(c)
    \/ dropEntry(c)
    \/ readRow(c)
    \/ fillEntry(c)
    \/ expireSoon(c)

Next ==
    \/ \E c \in Calls : Open(c) \/ Continue(c) \/ dropCall(c)
    \/ \E a \in Emails : expireLink(a)
    \/ \E i \in Users : expireEntry(i)

Spec == Init /\ [][Next]_vars

\* A process that lives goes on with its requests; Redis lets keys expire.
FairSpec ==
    /\ Spec
    /\ \A c \in Calls : WF_vars(Continue(c))
    /\ \A i \in Asked : WF_vars(expireEntry(i))

-----------------------------------------------------------------------------
(* Properties.                                                             *)

\* Who is verified stays so, although saves write whole stale entities: no
\* entity on its way to the table is one of an unverified user, because only
\* verified users get the token updateUser asks for.  A sign-up that names the id of
\* a row writes over it whatever it holds.
VerifiedStays == [][\A i \in Users : Verified(i) /\ i \notin named' => Verified(i)']_vars

\* A verification mail, and so a link that leads somewhere, exists only for an
\* address whose row is committed, unless a sign-up has named that row since.
MailedIsCommitted == \A a \in mailed \cup links : Registered(a) \/ a \in lost

\* A cached entry the table has left behind goes away, by invalidation or by
\* its expiry, unless a crash has cut off the EXPIRE of that key.  (Nobody else's key
\* is ever set.)
StaleEntryGoes ==
    \A i \in Asked :
        (cache[i] # NoEntry /\ cache[i].row # user[i]) ~>
            (cache[i] = NoEntry \/ cache[i].row = user[i] \/ i \in cut)

\* What StaleEntryGoes rests on: an entry that SET has left without an expiry is
\* still in the hands of a request about to set it, or the EXPIRE was lost.
EntryIsMinded ==
    \A i \in Users :
        cache[i] # NoEntry =>
            \/ cache[i].expiring
            \/ \E c \in Calls : call[c] = Plain("getUser", "filled", i)
            \/ i \in cut

-----------------------------------------------------------------------------
(* Refinement.                                                             *)

Record == INSTANCE AccountRecord

\* However the saves of stale entities interleave, the accounts obey AccountRecord:
\* an account nobody's sign-up has named keeps its address, is not verified by anybody
\* but the holder of a mail, and has the name and the password it was made with until
\* it has been signed in to.
ImplementsAccountRecord == Record!Spec
=============================================================================
