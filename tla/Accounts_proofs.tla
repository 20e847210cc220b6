-------------------------- MODULE Accounts_proofs --------------------------
(***************************************************************************)
(* Proofs about Accounts for every set of users, addresses, names,         *)
(* passwords, bodies and request slots.  Saves write stale columns, so     *)
(* what lasts in the table rests on what the requests in flight carry:     *)
(* CallOK.  Of the rows a sign-up has named little is left to say.         *)
(***************************************************************************)
EXTENDS Accounts, TLAPS

SameProfile(row, other) == row.name = other.name /\ row.password = other.password

\* The addresses of all the rows there are, and of those that were written over.
Known == {a \in Emails : Registered(a) \/ a \in lost}

\* What a sign-up carries can be written, and the row it names stays.
SignUpOK(r) ==
    /\ r.found => r.of \in Users /\ user[r.of] # NoRow
    /\ "email" \notin r.writes => ~r.found \/ r.row.email \in Known
    /\ "verified" \in r.writes => r.row.verified \in BOOLEAN
    /\ "deleted" \in r.writes => r.row.deleted \in BOOLEAN

\* The entity of a save is verified and has what may not change as the row has it.
SaveOK(r) ==
    /\ user[r.of] # NoRow
    /\ r.of \notin named =>
          /\ r.row.verified = TRUE
          /\ r.row.email = user[r.of].email
          /\ r.row.deleted = user[r.of].deleted
          /\ r.kind = "verifyEmail" =>
                /\ r.row.email \in mailed
                /\ r.of \in members \/ SameProfile(r.row, user[r.of])

\* What request r may rely on, whatever others do meanwhile.
CallOK(r) ==
    /\ r.kind = "signUp" /\ r.step \in {"saved", "stored"} => r.of \in Known
    /\ r.kind = "signUp" /\ r.step = "checked" => SignUpOK(r)
    /\ r.kind = "verifyEmail" /\ r.step = "found" => r.of \in mailed
    /\ r.kind = "signIn" => user[r.of] # NoRow /\ (user[r.of].verified = TRUE \/ r.of \in named)
    /\ r.kind = "updateUser" => r.of \in members
    /\ r.step \in {"loaded", "compared"} => SaveOK(r)

AInv ==
    /\ AccountsTypeOK
    /\ MailedIsCommitted
    /\ \A i \in members : user[i] # NoRow /\ (user[i].verified = TRUE \/ i \in named)
    /\ \A i \in named : user[i] # NoRow
    /\ \A c \in Calls : call[c] # NoCall => CallOK(call[c])

-----------------------------------------------------------------------------
(* The shapes of rows and requests.                                        *)

LEMMA NoRowIsNoRow == NoRow \notin Rows
<1> SUFFICES ASSUME NoRow \in Rows PROVE FALSE
    OBVIOUS
<1>1. "verified" \in DOMAIN NoRow
    BY DEF Rows
<1>. QED  BY <1>1 DEF NoRow

LEMMA MergeIsRow ==
    ASSUME NEW old \in Rows, NEW entity, NEW cols,
           entity.email \in Emails, entity.name \in Names, entity.password \in Passwords,
           "verified" \in cols => entity.verified \in BOOLEAN,
           "deleted" \in cols => entity.deleted \in BOOLEAN
    PROVE  /\ Merge(old, entity, cols) \in Rows
           /\ Merge(old, entity, cols).email \in {old.email, entity.email}
           /\ "email" \in cols => Merge(old, entity, cols).email = entity.email
           /\ Merge(old, entity, cols).deleted \in {old.deleted, entity.deleted}
           /\ Merge(old, entity, cols).verified \in {old.verified, entity.verified}
           /\ Merge(old, entity, cols).name \in {old.name, entity.name}
           /\ Merge(old, entity, cols).password \in {old.password, entity.password}
  BY DEF Merge, Rows

LEMMA CallShapes ==
    ASSUME AccountsTypeOK, NEW c \in Calls, call[c] # NoCall
    PROVE  /\ call[c] \in PlainCalls \cup RowCalls \cup SignUpCalls \cup SaveCalls
           /\ At(c, "signUp", "checked") => call[c] \in SignUpCalls
           /\ call[c].step \in {"loaded", "compared"} => call[c] \in SaveCalls
           /\ call[c].kind = "signUp" /\ call[c].step \in {"saved", "stored"} =>
                 call[c].of \in Emails
           /\ call[c].kind = "verifyEmail" /\ call[c].step \in {"found", "saved"} =>
                 call[c].of \in Emails
           /\ call[c].kind \in {"signIn", "getUser", "updateUser"} => call[c].of \in Users
           /\ At(c, "getUser", "read") => call[c].row \in Rows
  BY DEF AccountsTypeOK, Requests, PlainCalls, RowCalls, SignUpCalls, SaveCalls, At

-----------------------------------------------------------------------------
(* What a step of a request leaves in its own slot is all a proof has to    *)
(* look at: the other slots are untouched, and what they rely on lasts.     *)

\* No step takes away a row, an address, a mail or an access token; and of the rows
\* no sign-up has named, nothing changes but what AccountRecord lets change.
RowsLast ==
    /\ \A i \in Users :
          /\ user[i] # NoRow => user'[i] # NoRow
          /\ user[i] # NoRow /\ i \notin named' =>
                /\ user'[i].email = user[i].email
                /\ user'[i].deleted = user[i].deleted
                /\ user[i].verified = TRUE => user'[i].verified = TRUE
                /\ i \in members \/ SameProfile(user'[i], user[i])
    /\ named \subseteq named'
    /\ Known \subseteq Known'
    /\ mailed \subseteq mailed'
    /\ members \subseteq members'

\* What is proved of every step.
Good == AInv' /\ RowsLast /\ [Record!Next]_Record!vars

LEMMA CallLasts ==
    ASSUME AInv, RowsLast, NEW c \in Calls, call[c] # NoCall, call'[c] = call[c]
    PROVE  CallOK(call[c])'
<1> DEFINE r == call[c]
<1>1. CallOK(r)
  BY DEF AInv
<1>2. RowsLast
  OBVIOUS
<1>3. r.kind = "signUp" /\ r.step = "checked" => SignUpOK(call[c])'
  <2>1. SUFFICES ASSUME r.kind = "signUp", r.step = "checked" PROVE SignUpOK(call[c])'
    OBVIOUS
  <2>2. SignUpOK(r)
    BY <1>1, <2>1 DEF CallOK
  <2>. QED  BY <1>2, <2>2 DEF SignUpOK, RowsLast
<1>4. r.step \in {"loaded", "compared"} => SaveOK(call[c])'
  <2>1. SUFFICES ASSUME r.step \in {"loaded", "compared"} PROVE SaveOK(call[c])'
    OBVIOUS
  <2>2. SaveOK(r) /\ r.of \in Users
    BY <1>1, <2>1, CallShapes DEF CallOK, AInv, SaveCalls
  <2>. QED  BY <1>2, <2>2 DEF SaveOK, RowsLast, SameProfile
<1>5. r.kind = "signIn" => r.of \in Users
  BY CallShapes DEF AInv
<1>. QED  BY <1>1, <1>2, <1>3, <1>4, <1>5 DEF CallOK, RowsLast

LEMMA SlotStep ==
    ASSUME AInv, NEW c \in Calls, RowsLast, NEW r \in Requests, Becomes(c, r),
           r # NoCall => CallOK(r)'
    PROVE  /\ call' \in [Calls -> Requests]
           /\ \A d \in Calls : call'[d] # NoCall => CallOK(call[d])'
<1>1. /\ call' \in [Calls -> Requests]
      /\ call'[c] = r
      /\ \A d \in Calls \ {c} : call'[d] = call[d]
  BY DEF AInv, AccountsTypeOK, Becomes
<1>2. ASSUME NEW d \in Calls, call'[d] # NoCall PROVE CallOK(call[d])'
  <2>1. CASE d = c
    BY <1>1, <1>2, <2>1 DEF CallOK, SignUpOK, SaveOK
  <2>2. CASE d # c
    BY <1>1, <1>2, <2>2, CallLasts
  <2>. QED  BY <2>1, <2>2
<1>. QED  BY <1>1, <1>2

\* Facts about accounts last.
LEMMA AccountStep ==
    ASSUME AInv, RowsLast,
           \A a \in (mailed \cup links)' : a \in mailed \cup links \/ a \in Known',
           \A i \in members' : i \in members \/ (user'[i] # NoRow /\ (user'[i].verified = TRUE \/ i \in named')),
           \A i \in named' : i \in named \/ (i \in Users /\ user'[i] # NoRow)
    PROVE  /\ MailedIsCommitted'
           /\ \A i \in members' : user'[i] # NoRow /\ (user'[i].verified = TRUE \/ i \in named')
           /\ \A i \in named' : user'[i] # NoRow
<1>1. mailed \cup links \subseteq Known
  BY DEF AInv, AccountsTypeOK, MailedIsCommitted, Known
<1>2. \A a \in (mailed \cup links)' : a \in Known'
  BY <1>1 DEF RowsLast
<1>3. MailedIsCommitted'
  BY <1>2 DEF MailedIsCommitted, Known
<1>4. members \subseteq Users /\ named \subseteq Users
  BY DEF AInv, AccountsTypeOK
<1>. QED  BY <1>3, <1>4 DEF AInv, RowsLast

\* A step that writes no row: a request moves on, a link or an entry may go.
LEMMA QuietStep ==
    ASSUME AInv, NEW c \in Calls, UNCHANGED <<user, mailed, members, named, lost>>,
           links' \subseteq links, cut' \subseteq Users,
           cache' \in [Users -> Entries \cup {NoEntry}],
           NEW r \in Requests, Becomes(c, r), r # NoCall => CallOK(r)
    PROVE  Good
<1>1. Known' = Known
  BY DEF Known, Registered
<1>2. RowsLast
  BY <1>1 DEF RowsLast, SameProfile
<1>3. r # NoCall => CallOK(r)'
  BY <1>1 DEF CallOK, SignUpOK, SaveOK
<1>4. /\ call' \in [Calls -> Requests]
      /\ \A d \in Calls : call'[d] # NoCall => CallOK(call[d])'
  BY <1>2, <1>3, SlotStep
<1>5. /\ MailedIsCommitted'
      /\ \A i \in members' : user'[i] # NoRow /\ (user'[i].verified = TRUE \/ i \in named')
      /\ \A i \in named' : user'[i] # NoRow
  BY <1>2, AccountStep
<1>6. AccountsTypeOK'
  BY <1>4 DEF AInv, AccountsTypeOK
<1>. QED  BY <1>2, <1>4, <1>5, <1>6 DEF Good, AInv, Record!vars

LEMMA NoRecordIsNoRow == Record!NoRow = NoRow
  BY DEF Record!NoRow, NoRow

-----------------------------------------------------------------------------
(* The steps that write no row.                                            *)

\* One more fact about the rows that are there.
LEMMA LiveIsRow == ASSUME AInv, NEW i \in Users, Live(i) PROVE user[i] \in Rows /\ user[i] # NoRow
  BY DEF Live, AInv, AccountsTypeOK

LEMMA OpenStep ==
    ASSUME AInv, NEW c \in Calls, Open(c)
    PROVE  Good
<1> USE DEF Plain
<1>1. ASSUME NEW r \in Requests, Becomes(c, r), r # NoCall => CallOK(r),
             UNCHANGED <<user, links, mailed, members, cache, cut, named, lost>>
      PROVE  Good
  <2>1. cache' \in [Users -> Entries \cup {NoEntry}] /\ cut' \subseteq Users
    BY <1>1 DEF AInv, AccountsTypeOK
  <2>. QED  BY <1>1, <2>1, QuietStep
<1>2. ASSUME NEW body \in Bodies, openSignUp(c, body)
      PROVE  Good
  <2> DEFINE found == body.id # Unset /\ user[body.id] # NoRow
             row == [email |-> body.email, name |-> body.name, password |-> body.password,
                     verified |-> body.verified, deleted |-> body.deleted]
             writes == IF found THEN Differing(row, user[body.id]) ELSE {}
             r == [kind |-> "signUp", step |-> "checked", of |-> body.id, found |-> found,
                   row |-> row, writes |-> writes]
  <2>1. /\ body.id \in Maybe(Users)
        /\ row \in NewUsers
    BY BodiesAssumption DEF NewUsers
  <2>2. found => body.id \in Users /\ user[body.id] \in Rows
    BY <2>1 DEF Maybe, AInv, AccountsTypeOK
  <2>3. writes \subseteq Columns
    BY DEF Differing
  <2>4. r \in SignUpCalls
    <3> HIDE DEF found, row, writes
    <3>1. found \in BOOLEAN
      BY DEF found
    <3>. QED  BY <2>1, <2>3, <3>1 DEF SignUpCalls
  <2>5. SignUpOK(r)
    <3>1. "verified" \in writes => row.verified \in BOOLEAN
      BY <2>1 DEF Differing, NewUsers, Maybe
    <3>2. "deleted" \in writes => row.deleted \in BOOLEAN
      BY <2>1 DEF Differing, NewUsers, Maybe
    <3>3. ASSUME "email" \notin writes, found PROVE row.email \in Known
      <4>1. row.email = Unset \/ row.email = user[body.id].email
        BY <3>3 DEF Differing, Columns
      <4>2. row.email \in Emails
        BY <2>1 DEF NewUsers
      <4>3. user[body.id].email = row.email
        BY <4>1, <4>2, UnsetAssumption
      <4>. QED  BY <4>2, <4>3, <3>3, <2>2, NoRowIsNoRow DEF Known, Registered
    <3>4. found => user[body.id] # NoRow
      OBVIOUS
    <3>. HIDE DEF found, row, writes
    <3>. QED  BY <2>2, <3>1, <3>2, <3>3, <3>4 DEF SignUpOK
  <2>6. CallOK(r) /\ r # NoCall
    <3> HIDE DEF found, row, writes
    <3>1. r.kind = "signUp" /\ r.step = "checked"
      OBVIOUS
    <3>. QED  BY <2>5, <3>1 DEF CallOK, NoCall
  <2>7. /\ Becomes(c, r)
        /\ UNCHANGED <<user, links, mailed, members, cache, cut, named, lost>>
    BY <1>2 DEF openSignUp
  <2>. HIDE DEF r
  <2>. QED  BY <1>1, <2>4, <2>6, <2>7 DEF Requests
<1>3. ASSUME NEW i \in Users, openSignIn(c, i)
      PROVE  Good
  <2>1. Plain("signIn", "checked", i) \in Requests
    BY DEF Requests, PlainCalls
  <2>2. CallOK(Plain("signIn", "checked", i))
    BY <1>3 DEF CallOK, openSignIn, Verified
  <2>. QED  BY <1>1, <1>3, <2>1, <2>2 DEF openSignIn
<1>4. ASSUME NEW a \in Emails, openLink(c, a)
      PROVE  Good
  <2>1. Plain("verifyEmail", "found", a) \in Requests
    BY DEF Requests, PlainCalls
  <2>2. CallOK(Plain("verifyEmail", "found", a))
    BY <1>4 DEF CallOK, openLink
  <2>. QED  BY <1>1, <1>4, <2>1, <2>2 DEF openLink
<1>5. ASSUME NEW i \in Users, NEW dto \in Profiles, openUpdate(c, i, dto)
      PROVE  Good
  <2> DEFINE given == Given(user[i], dto)
             r == [kind |-> "updateUser", step |-> "loaded", of |-> i, row |-> given, writes |-> {}]
  <2>1. user[i] \in Rows /\ user[i] # NoRow /\ i \in members
    BY <1>5, LiveIsRow DEF openUpdate
  <2>2. /\ given \in Rows
        /\ given.email = user[i].email
        /\ given.deleted = user[i].deleted
        /\ given.verified = user[i].verified
    BY <2>1, ProfilesAssumption DEF Given, Rows, Maybe
  <2>3. i \notin named => user[i].verified = TRUE
    BY <2>1 DEF AInv
  <2>. HIDE DEF given
  <2>4. r \in SaveCalls
    BY <2>2 DEF SaveCalls, Columns
  <2>5. SaveOK(r)
    BY <2>1, <2>2, <2>3 DEF SaveOK
  <2>6. CallOK(r)
    BY <2>1, <2>5 DEF CallOK
  <2>7. /\ Becomes(c, r)
        /\ UNCHANGED <<user, links, mailed, members, cache, cut, named, lost>>
    BY <1>5 DEF openUpdate, given
  <2>. HIDE DEF r
  <2>. QED  BY <1>1, <2>4, <2>6, <2>7 DEF Requests
<1>6. ASSUME NEW i \in Users, missEntry(c, i)
      PROVE  Good
  <2>1. Plain("getUser", "missed", i) \in Requests
    BY DEF Requests, PlainCalls
  <2>2. CallOK(Plain("getUser", "missed", i))
    BY DEF CallOK
  <2>. QED  BY <1>1, <1>6, <2>1, <2>2 DEF missEntry
<1>. QED  BY <1>2, <1>3, <1>4, <1>5, <1>6, AskedAssumption DEF Open

\* A save reads the row again: what it differs in is what it will write.
LEMMA CompareStep ==
    ASSUME AInv, NEW c \in Calls, compareRow(c)
    PROVE  Good
<1> DEFINE r == call[c]
           q == [r EXCEPT !.step = "compared", !.writes = Differing(r.row, user[r.of])]
<1>1. r \in SaveCalls /\ r.step = "loaded" /\ CallOK(r)
  BY CallShapes DEF compareRow, At, AInv
<1>2. Differing(r.row, user[r.of]) \subseteq Columns
  BY DEF Differing
<1>3. /\ q \in SaveCalls
      /\ q.kind = r.kind /\ q.of = r.of /\ q.row = r.row /\ q.step = "compared"
  BY <1>1, <1>2 DEF SaveCalls
<1>. HIDE DEF q
<1>4. CallOK(q)
  <2>1. SaveOK(q)
    BY <1>1, <1>3 DEF CallOK, SaveOK
  <2>2. q.kind = "updateUser" => q.of \in members
    BY <1>1, <1>3 DEF CallOK
  <2>3. q.kind \in {"verifyEmail", "updateUser"}
    BY <1>3 DEF SaveCalls
  <2>. QED  BY <1>3, <2>1, <2>2, <2>3 DEF CallOK
<1>5. Becomes(c, q)
  BY DEF compareRow, q
<1>6. /\ UNCHANGED <<user, mailed, members, named, lost>>
      /\ links' \subseteq links /\ cut' \subseteq Users
      /\ cache' \in [Users -> Entries \cup {NoEntry}]
  BY DEF compareRow, AInv, AccountsTypeOK
<1>. QED  BY <1>3, <1>4, <1>5, <1>6, QuietStep DEF Requests

\* The loads: what is found belongs to somebody a mail has reached.
LEMMA LoadStep ==
    ASSUME AInv, NEW c \in Calls, loadToVerify(c) \/ readRow(c)
    PROVE  Good
<1>1. /\ UNCHANGED <<user, mailed, members, named, lost>>
      /\ links' \subseteq links /\ cut' \subseteq Users
      /\ cache' \in [Users -> Entries \cup {NoEntry}]
  BY DEF loadToVerify, readRow, AInv, AccountsTypeOK
<1>2. CASE Becomes(c, NoCall)
  BY <1>1, <1>2, QuietStep DEF Requests
<1>3. ASSUME NEW i \in Users, Live(i), user[i].email = call[c].of,
             At(c, "verifyEmail", "found"),
             Becomes(c, [kind |-> "verifyEmail", step |-> "loaded", of |-> i,
                         row |-> [user[i] EXCEPT !.verified = TRUE], writes |-> {}])
      PROVE  Good
  <2> DEFINE q == [kind |-> "verifyEmail", step |-> "loaded", of |-> i,
                   row |-> [user[i] EXCEPT !.verified = TRUE], writes |-> {}]
  <2>1. user[i] \in Rows /\ user[i] # NoRow /\ user[i].email \in mailed
    BY <1>3, LiveIsRow DEF At, AInv, CallOK
  <2>2. /\ [user[i] EXCEPT !.verified = TRUE] \in Rows
        /\ [user[i] EXCEPT !.verified = TRUE].verified = TRUE
        /\ [user[i] EXCEPT !.verified = TRUE].email = user[i].email
        /\ [user[i] EXCEPT !.verified = TRUE].deleted = user[i].deleted
        /\ SameProfile([user[i] EXCEPT !.verified = TRUE], user[i])
    BY <2>1 DEF Rows, SameProfile
  <2>3. q \in SaveCalls
    BY <2>2 DEF SaveCalls, Columns
  <2>4. SaveOK(q)
    BY <2>1, <2>2 DEF SaveOK
  <2>5. CallOK(q)
    BY <2>4 DEF CallOK
  <2>. HIDE DEF q
  <2>6. Becomes(c, q)
    BY <1>3 DEF q
  <2>. QED  BY <1>1, <2>3, <2>5, <2>6, QuietStep DEF Requests
<1>4. CASE readRow(c) /\ Live(call[c].of)
  <2> DEFINE i == call[c].of
             q == [kind |-> "getUser", step |-> "read", of |-> i, row |-> user[i]]
  <2>1. i \in Users
    BY <1>4, CallShapes DEF readRow, At, AInv
  <2>2. q \in Requests
    BY <1>4, <2>1, LiveIsRow DEF Requests, RowCalls
  <2>3. CallOK(q)
    BY DEF CallOK
  <2>4. Becomes(c, q)
    BY <1>4 DEF readRow
  <2>. QED  BY <1>1, <2>2, <2>3, <2>4, QuietStep
<1>5. CASE readRow(c) /\ ~Live(call[c].of)
  BY <1>2, <1>5 DEF readRow
<1>6. CASE loadToVerify(c)
  BY <1>2, <1>3, <1>6 DEF loadToVerify
<1>. QED  BY <1>4, <1>5, <1>6

\* Steps that move a link or a cache entry, and requests that end.
LEMMA RedisStep ==
    ASSUME AInv, NEW c \in Calls,
           \/ dropLink(c) \/ dropEntry(c) \/ dropCall(c) \/ fillEntry(c) \/ expireSoon(c)
    PROVE  Good
<1> DEFINE i == call[c].of
           filled == Plain("getUser", "filled", i)
<1>1. /\ UNCHANGED <<user, mailed, members, named, lost>>
      /\ links' \subseteq links /\ cut' \subseteq Users
  BY DEF dropLink, dropEntry, dropCall, fillEntry, expireSoon, AInv, AccountsTypeOK
<1>2. dropEntry(c) \/ fillEntry(c) \/ expireSoon(c) => i \in Users
  BY CallShapes DEF dropEntry, fillEntry, expireSoon, At, AInv
<1>3. cache' \in [Users -> Entries \cup {NoEntry}]
  <2>1. CASE dropLink(c) \/ dropCall(c)
    BY <2>1 DEF dropLink, dropCall, AInv, AccountsTypeOK
  <2>2. CASE dropEntry(c)
    BY <1>2, <2>2 DEF dropEntry, AInv, AccountsTypeOK
  <2>3. CASE fillEntry(c)
    <3>1. call[c].row \in Rows
      BY <2>3, CallShapes DEF fillEntry, At, AInv
    <3>. QED  BY <1>2, <2>3, <3>1 DEF fillEntry, Entries, AInv, AccountsTypeOK
  <2>4. CASE expireSoon(c)
    BY <1>2, <2>4 DEF expireSoon, Entries, AInv, AccountsTypeOK
  <2>. QED  BY <2>1, <2>2, <2>3, <2>4
<1>4. CASE Becomes(c, NoCall)
  BY <1>1, <1>3, <1>4, QuietStep DEF Requests
<1>5. CASE fillEntry(c)
  <2>1. filled \in Requests
    BY <1>2, <1>5 DEF Requests, PlainCalls, Plain
  <2>2. CallOK(filled)
    BY DEF CallOK, Plain
  <2>3. Becomes(c, filled)
    BY <1>5 DEF fillEntry
  <2>. QED  BY <1>1, <1>3, <2>1, <2>2, <2>3, QuietStep
<1>. QED  BY <1>4, <1>5 DEF dropLink, dropEntry, dropCall, expireSoon

\* The clock, and steps that change nothing.
LEMMA ExpiryStep ==
    ASSUME AInv,
           \/ \E a \in Emails : expireLink(a)
           \/ \E i \in Users : expireEntry(i)
           \/ UNCHANGED vars
    PROVE  Good
<1>1. /\ UNCHANGED <<user, mailed, members, named, lost, cut, call>>
      /\ links' \subseteq links
  BY DEF expireLink, expireEntry, vars
<1>2. cache' \in [Users -> Entries \cup {NoEntry}]
  BY DEF expireLink, expireEntry, vars, AInv, AccountsTypeOK
<1>3. Known' = Known
  BY <1>1 DEF Known, Registered
<1>4. RowsLast
  BY <1>1, <1>3 DEF RowsLast, SameProfile
<1>5. \A d \in Calls : call'[d] # NoCall => CallOK(call[d])'
  BY <1>1, <1>4, CallLasts
<1>6. /\ MailedIsCommitted'
      /\ \A i \in members' : user'[i] # NoRow /\ (user'[i].verified = TRUE \/ i \in named')
      /\ \A i \in named' : user'[i] # NoRow
  BY <1>1, <1>4, AccountStep
<1>7. AccountsTypeOK'
  BY <1>1, <1>2 DEF AInv, AccountsTypeOK
<1>. QED  BY <1>1, <1>4, <1>5, <1>6, <1>7 DEF Good, AInv, Record!vars

-----------------------------------------------------------------------------
(* The steps that write a row.                                             *)

\* What is asked of a written row: of a user no sign-up has named, only what
\* AccountRecord lets change may be new.
MayWrite(i, row) ==
    /\ row \in Rows
    /\ user[i] # NoRow /\ i \notin named' =>
          /\ row.email = user[i].email
          /\ row.deleted = user[i].deleted
          /\ user[i].verified = TRUE => row.verified = TRUE
          /\ i \in members \/ SameProfile(row, user[i])

LEMMA WrittenStep ==
    ASSUME AInv, NEW i \in Users, NEW row, Writes(i, row), MayWrite(i, row),
           UNCHANGED <<mailed, members>>,
           named' = named \/ (named' = named \cup {i} /\ user[i] # NoRow)
    PROVE  /\ RowsLast
           /\ user' \in [Users -> Rows \cup {NoRow}]
           /\ user' = [user EXCEPT ![i] = row]
           /\ user'[i] = row /\ row # NoRow
           /\ row.email \in Known'
           /\ named' \subseteq Users /\ lost' \subseteq Emails
           /\ \A j \in named' : j \in named \/ (j \in Users /\ user'[j] # NoRow)
           /\ i \in named' => user[i] # NoRow /\ lost' = lost \cup {user[i].email}
           /\ i \notin named' => lost' = lost
<1>1. row \in Rows /\ row # NoRow
  BY NoRowIsNoRow DEF MayWrite
<1>2. /\ user' = [user EXCEPT ![i] = row]
      /\ user' \in [Users -> Rows \cup {NoRow}]
      /\ user'[i] = row
      /\ \A j \in Users \ {i} : user'[j] = user[j]
  BY <1>1 DEF Writes, AInv, AccountsTypeOK
<1>3. i \in named' => user[i] # NoRow /\ lost' = lost \cup {user[i].email}
  BY DEF Writes, AInv
<1>4. i \notin named' => lost' = lost
  BY DEF Writes
<1>5. user[i] # NoRow => user[i] \in Rows
  BY DEF AInv, AccountsTypeOK
<1>6. lost' \subseteq Emails
  BY <1>3, <1>4, <1>5 DEF AInv, AccountsTypeOK, Rows
<1>7. row.email \in Known'
  BY <1>1, <1>2 DEF Known, Registered, Rows
<1>8. Known \subseteq Known'
  <2> SUFFICES ASSUME NEW a \in Known PROVE a \in Known'
    OBVIOUS
  <2>1. CASE a \in lost
    BY <1>3, <1>4, <2>1 DEF Known
  <2>2. ASSUME NEW j \in Users, user[j] # NoRow, user[j].email = a PROVE a \in Known'
    <3>1. CASE j # i
      BY <1>2, <2>2, <3>1 DEF Known, Registered
    <3>2. CASE j = i /\ i \in named'
      BY <1>3, <2>2, <3>2 DEF Known
    <3>3. CASE j = i /\ i \notin named'
      BY <1>7, <2>2, <3>3 DEF MayWrite
    <3>. QED  BY <3>1, <3>2, <3>3
  <2>. QED  BY <2>1, <2>2 DEF Known, Registered
<1>9. RowsLast
  <2>1. ASSUME NEW j \in Users
        PROVE  /\ user[j] # NoRow => user'[j] # NoRow
               /\ user[j] # NoRow /\ j \notin named' =>
                     /\ user'[j].email = user[j].email
                     /\ user'[j].deleted = user[j].deleted
                     /\ user[j].verified = TRUE => user'[j].verified = TRUE
                     /\ j \in members \/ SameProfile(user'[j], user[j])
    <3>1. CASE j = i
      BY <1>1, <1>2, <3>1 DEF MayWrite
    <3>2. CASE j # i
      BY <1>2, <3>2 DEF SameProfile
    <3>. QED  BY <3>1, <3>2
  <2>. QED  BY <1>8, <2>1 DEF RowsLast
<1>. QED  BY <1>1, <1>2, <1>3, <1>4, <1>6, <1>7, <1>9 DEF AInv, AccountsTypeOK

\* A step that writes a row and leaves links and mails alone, or adds a known one.
LEMMA TableStep ==
    ASSUME AInv, NEW c \in Calls, RowsLast, [Record!Next]_Record!vars,
           user' \in [Users -> Rows \cup {NoRow}], named' \subseteq Users, lost' \subseteq Emails,
           links' \subseteq Emails, mailed' \subseteq Emails, members' \subseteq Users,
           UNCHANGED <<cache, cut>>,
           \A a \in (mailed \cup links)' : a \in mailed \cup links \/ a \in Known',
           \A i \in members' : i \in members \/ (user'[i] # NoRow /\ (user'[i].verified = TRUE \/ i \in named')),
           \A i \in named' : i \in named \/ (i \in Users /\ user'[i] # NoRow),
           NEW r \in Requests, Becomes(c, r), r # NoCall => CallOK(r)'
    PROVE  Good
<1>1. /\ call' \in [Calls -> Requests]
      /\ \A d \in Calls : call'[d] # NoCall => CallOK(call[d])'
  BY SlotStep
<1>2. /\ MailedIsCommitted'
      /\ \A i \in members' : user'[i] # NoRow /\ (user'[i].verified = TRUE \/ i \in named')
      /\ \A i \in named' : user'[i] # NoRow
  BY AccountStep
<1>3. AccountsTypeOK'
  BY <1>1 DEF AInv, AccountsTypeOK
<1>. QED  BY <1>1, <1>2, <1>3 DEF Good, AInv

\* The link is stored and the mail sent for an address that is known.
LEMMA MailStep ==
    ASSUME AInv, NEW c \in Calls, storeLink(c) \/ sendMail(c)
    PROVE  Good
<1> DEFINE a == call[c].of
           stored == Plain("signUp", "stored", a)
<1>1. a \in Emails /\ a \in Known
  BY CallShapes DEF storeLink, sendMail, At, AInv, CallOK
<1>2. UNCHANGED <<user, members, named, lost, cache, cut>>
  BY DEF storeLink, sendMail
<1>3. Known' = Known
  BY <1>2 DEF Known, Registered
<1>4. mailed \subseteq mailed' /\ mailed' \subseteq Emails /\ links' \subseteq Emails
  BY <1>1 DEF storeLink, sendMail, AInv, AccountsTypeOK
<1>5. RowsLast
  BY <1>2, <1>3, <1>4 DEF RowsLast, SameProfile
<1>6. PICK r \in {stored, NoCall} : Becomes(c, r)
  BY DEF storeLink, sendMail
<1>7. r \in Requests /\ (r # NoCall => CallOK(r)')
  BY <1>1, <1>3, <1>6 DEF Requests, PlainCalls, Plain, CallOK
<1>8. [Record!Next]_Record!vars
  <2>1. CASE storeLink(c)
    BY <2>1 DEF storeLink, Record!vars
  <2>2. CASE sendMail(c)
    <3>1. Record!Mail(a)
      BY <1>1, <2>2, NoRecordIsNoRow DEF sendMail, Record!Mail, Known, Registered
    <3>. QED  BY <1>1, <3>1 DEF Record!Next
  <2>. QED  BY <2>1, <2>2
<1>9. \A b \in (mailed \cup links)' : b \in mailed \cup links \/ b \in Known'
  BY <1>1, <1>3 DEF storeLink, sendMail
<1>. QED  BY <1>2, <1>4, <1>5, <1>6, <1>7, <1>8, <1>9, TableStep DEF AInv, AccountsTypeOK

\* Who gets tokens was verified when the password was compared, and still is.
LEMMA TokenStep ==
    ASSUME AInv, NEW c \in Calls, issueTokens(c)
    PROVE  Good
<1> DEFINE i == call[c].of
<1>1. i \in Users /\ user[i] # NoRow /\ (user[i].verified = TRUE \/ i \in named)
  BY CallShapes DEF issueTokens, At, AInv, CallOK
<1>2. /\ UNCHANGED <<user, links, mailed, named, lost, cache, cut>>
      /\ members' = members \cup {i} /\ Becomes(c, NoCall)
  BY DEF issueTokens
<1>3. Known' = Known
  BY <1>2 DEF Known, Registered
<1>4. RowsLast
  BY <1>2, <1>3 DEF RowsLast, SameProfile
<1>5. Record!SignIn(i)
  <2>1. user[i] \in Rows
    BY <1>1 DEF AInv, AccountsTypeOK
  <2>2. user[i].verified \/ i \in named
    BY <1>1, <2>1
  <2>. QED  BY <1>1, <1>2, <2>2, NoRecordIsNoRow DEF Record!SignIn
<1>6. [Record!Next]_Record!vars
  BY <1>1, <1>5 DEF Record!Next
<1>7. NoCall \in Requests
  BY DEF Requests
<1>. QED  BY <1>1, <1>2, <1>4, <1>6, <1>7, TableStep DEF AInv, AccountsTypeOK

\* The row is there before the request goes on to its link and its mail.
LEMMA CreateStep ==
    ASSUME AInv, NEW c \in Calls, createUser(c)
    PROVE  Good
<1> DEFINE r == call[c]
<1>1. r \in SignUpCalls /\ SignUpOK(r)
  BY CallShapes DEF createUser, At, AInv, CallOK
<1>2. /\ r.row \in NewUsers /\ r.row.email \in Emails
      /\ r.row.name \in Names /\ r.row.password \in Passwords
  BY <1>1 DEF SignUpCalls, NewUsers
<1>3. UNCHANGED <<links, mailed, members, cache, cut>>
  BY DEF createUser
<1>4. PICK saved \in Requests : saved = Plain("signUp", "saved", r.row.email) /\ saved # NoCall
  <2>1. Plain("signUp", "saved", r.row.email) \in Requests
    BY <1>2 DEF Requests, PlainCalls, Plain
  <2>2. Plain("signUp", "saved", r.row.email).kind # NoCall.kind
    BY DEF Plain, NoCall
  <2>. QED  BY <2>1, <2>2
<1>5. ASSUME NEW i \in Users, NEW row, Writes(i, row), MayWrite(i, row), Becomes(c, saved),
             row.email = r.row.email \/ r.row.email \in Known,
             \/ named' = named /\ user[i] = NoRow
             \/ named' = named \cup {i} /\ user[i] # NoRow,
             Accepts(i, row.email)
      PROVE  Good
  <2>1. /\ RowsLast
        /\ user' \in [Users -> Rows \cup {NoRow}]
        /\ user' = [user EXCEPT ![i] = row]
        /\ row.email \in Known'
        /\ named' \subseteq Users /\ lost' \subseteq Emails
        /\ \A j \in named' : j \in named \/ (j \in Users /\ user'[j] # NoRow)
        /\ i \in named' => user[i] # NoRow /\ lost' = lost \cup {user[i].email}
        /\ i \notin named' => lost' = lost
    BY <1>3, <1>5, WrittenStep
  <2>2. row \in Rows
    BY <1>5 DEF MayWrite
  <2>3. Record!SignUp(i, row) \/ Record!WriteOver(i, row)
    BY <1>3, <1>5, <2>1, NoRecordIsNoRow
       DEF Record!SignUp, Record!WriteOver, Record!Alone, Accepts
  <2>4. [Record!Next]_Record!vars
    BY <2>2, <2>3 DEF Record!Next, Record!Rows, Rows
  <2>5. r.row.email \in Known'
    BY <1>5, <2>1 DEF RowsLast
  <2>6. CallOK(saved)'
    BY <1>4, <2>5 DEF CallOK, Plain
  <2>7. links' \subseteq Emails /\ mailed' \subseteq Emails /\ members' \subseteq Users
    BY <1>3 DEF AInv, AccountsTypeOK
  <2>8. /\ \A a \in (mailed \cup links)' : a \in mailed \cup links \/ a \in Known'
        /\ \A j \in members' : j \in members
    BY <1>3
  <2>. QED  BY <1>3, <1>4, <1>5, <2>1, <2>4, <2>6, <2>7, <2>8, TableStep
<1>6. CASE r.found /\ overwriteUser(c) /\ Becomes(c, saved)
  <2> DEFINE i == r.of
             row == Merge(user[i], r.row, r.writes)
  <2>1. i \in Users /\ user[i] # NoRow /\ user[i] \in Rows
    BY <1>1, <1>6 DEF SignUpOK, AInv, AccountsTypeOK
  <2>2. row \in Rows /\ ("email" \in r.writes => row.email = r.row.email)
    BY <1>1, <1>2, <2>1, MergeIsRow DEF SignUpOK
  <2>3. row.email = r.row.email \/ r.row.email \in Known
    BY <1>1, <1>6, <2>2 DEF SignUpOK
  <2>4. named' = named \cup {i} /\ Accepts(i, row.email) /\ Writes(i, row)
    BY <1>6 DEF overwriteUser
  <2>5. MayWrite(i, row)
    BY <2>2, <2>4 DEF MayWrite
  <2>. HIDE DEF row, i
  <2>. QED  BY <1>5, <1>6, <2>1, <2>3, <2>4, <2>5
<1>7. CASE ~r.found /\ insertUser(c) /\ Becomes(c, saved)
  <2> DEFINE row == Defaulted(r.row)
  <2>1. row \in Rows /\ row.email = r.row.email
    BY <1>2 DEF Defaulted, NewUsers, Rows, Maybe
  <2>2. PICK i \in IF r.of = Unset THEN {j \in Users : user[j] = NoRow} ELSE {r.of} :
             user[i] = NoRow /\ Accepts(i, r.row.email) /\ Writes(i, row)
    BY <1>7 DEF insertUser
  <2>3. i \in Users
    BY <1>1, <2>2 DEF SignUpCalls, Maybe
  <2>4. MayWrite(i, row) /\ named' = named
    BY <1>7, <2>1, <2>2 DEF MayWrite, insertUser
  <2>. HIDE DEF row
  <2>. QED  BY <1>5, <1>7, <2>1, <2>2, <2>3, <2>4
<1>8. CASE Becomes(c, NoCall) /\ UNCHANGED <<user, named, lost>>
  <2>1. links' \subseteq links /\ cut' \subseteq Users /\ cache' \in [Users -> Entries \cup {NoEntry}]
    BY <1>3 DEF AInv, AccountsTypeOK
  <2>. QED  BY <1>3, <1>8, <2>1, QuietStep DEF Requests
<1>9. r.found \in BOOLEAN
  BY <1>1 DEF SignUpCalls
<1>. QED  BY <1>4, <1>6, <1>7, <1>8, <1>9 DEF createUser

\* The save of a user no sign-up has named changes the profile of a member, or
\* verifies somebody a mail has reached, or nothing.
LEMMA WriteEffect ==
    ASSUME AInv, NEW i \in Users, NEW r \in SaveCalls, r.of = i, CallOK(r), r.step = "compared",
           i \notin named, user[i] \in Rows, user[i] # NoRow,
           user' = [user EXCEPT ![i] = Merge(user[i], r.row, r.writes)],
           UNCHANGED <<mailed, members, named, lost>>
    PROVE  /\ MayWrite(i, Merge(user[i], r.row, r.writes))
           /\ [Record!Next]_Record!vars
<1> DEFINE old == user[i]
           new == Merge(old, r.row, r.writes)
<1>0. old \in Rows
  OBVIOUS
<1>1. /\ r.row \in Rows /\ SaveOK(r)
      /\ r.kind \in {"verifyEmail", "updateUser"}
      /\ r.row.verified = TRUE /\ r.row.email = old.email /\ r.row.deleted = old.deleted
  BY DEF CallOK, SaveOK, SaveCalls
<1>2. /\ new \in Rows /\ new.email = old.email /\ new.deleted = old.deleted
      /\ new.verified \in {old.verified, TRUE}
      /\ new.name \in {old.name, r.row.name} /\ new.password \in {old.password, r.row.password}
  <2>1. /\ r.row.email \in Emails /\ r.row.name \in Names /\ r.row.password \in Passwords
        /\ r.row.verified \in BOOLEAN /\ r.row.deleted \in BOOLEAN
    BY <1>1 DEF Rows
  <2>2. /\ new \in Rows
        /\ new.email \in {old.email, r.row.email}
        /\ new.deleted \in {old.deleted, r.row.deleted}
        /\ new.verified \in {old.verified, r.row.verified}
        /\ new.name \in {old.name, r.row.name}
        /\ new.password \in {old.password, r.row.password}
    BY <2>1, MergeIsRow
  <2>. HIDE DEF new, old
  <2>. QED  BY <1>1, <2>2
<1>. HIDE DEF new
<1>3. CASE i \in members
  <2>1. old.verified = TRUE /\ new.verified = TRUE
    BY <1>2, <1>3 DEF AInv
  <2>2. new.name \in Names /\ new.password \in Passwords
    BY <1>2 DEF Rows
  <2>3. new = [old EXCEPT !.name = new.name, !.password = new.password]
    BY <1>2, <2>1 DEF Rows
  <2>4. user' = [user EXCEPT ![i].name = new.name, ![i].password = new.password]
    BY <2>3 DEF new, AInv, AccountsTypeOK
  <2>5. Record!Change(i, new.name, new.password)
    BY <1>3, <2>4, NoRecordIsNoRow DEF Record!Change
  <2>6. [Record!Next]_Record!vars
    BY <2>2, <2>5 DEF Record!Next
  <2>. QED  BY <1>2, <1>3, <2>1, <2>6 DEF MayWrite, new
<1>4. CASE i \notin members
  <2>1. r.kind = "verifyEmail" /\ old.email \in mailed /\ SameProfile(r.row, old)
    BY <1>1, <1>4 DEF CallOK, SaveOK
  <2>2. SameProfile(new, old)
    BY <1>2, <2>1 DEF SameProfile
  <2>3. new = old \/ new = [old EXCEPT !.verified = TRUE]
    <3>1. new.name = old.name /\ new.password = old.password
      BY <2>2 DEF SameProfile
    <3>. HIDE DEF old
    <3>2. CASE new.verified = TRUE
      BY <1>2, <3>1, <3>2, <1>0 DEF Rows
    <3>3. CASE new.verified = old.verified
      BY <1>2, <3>1, <3>3, <1>0 DEF Rows
    <3>. QED  BY <1>2, <3>2, <3>3
  <2>4. UNCHANGED user \/ user' = [user EXCEPT ![i].verified = TRUE]
    BY <2>3 DEF new, AInv, AccountsTypeOK
  <2>5. UNCHANGED user \/ Record!Verify(i)
    BY <2>1, <2>4, NoRecordIsNoRow DEF Record!Verify
  <2>6. [Record!Next]_Record!vars
    BY <2>5 DEF Record!Next, Record!vars
  <2>. QED  BY <1>2, <2>2, <2>6 DEF MayWrite, new
<1>. QED  BY <1>3, <1>4

LEMMA WriteStep ==
    ASSUME AInv, NEW c \in Calls, writeRow(c)
    PROVE  Good
<1> DEFINE r == call[c]
           i == r.of
           row == Merge(user[i], r.row, r.writes)
<1>1. /\ r \in SaveCalls /\ r.row \in Rows /\ i \in Users
      /\ r.kind \in {"verifyEmail", "updateUser"} /\ r.step = "compared"
      /\ CallOK(r) /\ SaveOK(r)
      /\ user[i] # NoRow /\ user[i] \in Rows
  BY CallShapes DEF writeRow, At, AInv, AccountsTypeOK, CallOK, SaveOK, SaveCalls
<1>2. UNCHANGED <<links, mailed, members, cache, cut, named>>
  BY DEF writeRow
<1>. PICK saved \in Requests :
       saved = Plain(r.kind, "saved", IF r.kind = "verifyEmail" THEN r.row.email ELSE i)
  <2>1. r.row.email \in Emails
    BY <1>1 DEF Rows
  <2>. QED  BY <1>1, <2>1 DEF Requests, PlainCalls, Plain
<1>3. CASE Becomes(c, NoCall) /\ UNCHANGED <<user, lost>>
  <2>1. links' \subseteq links /\ cut' \subseteq Users /\ cache' \in [Users -> Entries \cup {NoEntry}]
    BY <1>2 DEF AInv, AccountsTypeOK
  <2>. QED  BY <1>2, <1>3, <2>1, QuietStep DEF Requests
<1>4. CASE Accepts(i, row.email) /\ Writes(i, row) /\ Becomes(c, saved)
  <2>1. row \in Rows
    BY <1>1, MergeIsRow DEF Rows
  <2>2. /\ user' = [user EXCEPT ![i] = row]
        /\ i \notin named => lost' = lost
        /\ i \in named => lost' = lost \cup {user[i].email}
    BY <1>2, <1>4 DEF Writes
  <2>3. MayWrite(i, row) /\ [Record!Next]_Record!vars
    <3>1. CASE i \in named
      <4>1. MayWrite(i, row)
        BY <1>2, <2>1, <3>1 DEF MayWrite
      <4>. HIDE DEF row
      <4>2. Record!WriteOver(i, row)
        BY <1>1, <1>2, <1>4, <2>2, <3>1, NoRecordIsNoRow
           DEF Record!WriteOver, Record!Alone, Accepts
      <4>. QED  BY <1>1, <2>1, <4>1, <4>2 DEF Record!Next, Record!Rows, Rows
    <3>2. CASE i \notin named
      BY <1>1, <1>2, <2>2, <3>2, WriteEffect
    <3>. QED  BY <3>1, <3>2
  <2>. HIDE DEF row
  <2>4. /\ RowsLast
        /\ user' \in [Users -> Rows \cup {NoRow}]
        /\ named' \subseteq Users /\ lost' \subseteq Emails
        /\ \A j \in named' : j \in named \/ (j \in Users /\ user'[j] # NoRow)
    BY <1>1, <1>2, <1>4, <2>3, WrittenStep
  <2>5. CallOK(saved)'
    <3>1. r.kind = "updateUser" => i \in members'
      BY <1>1, <1>2 DEF CallOK
    <3>. QED  BY <1>1, <3>1 DEF CallOK, Plain
  <2>6. /\ links' \subseteq Emails /\ mailed' \subseteq Emails /\ members' \subseteq Users
        /\ \A a \in (mailed \cup links)' : a \in mailed \cup links \/ a \in Known'
        /\ \A j \in members' : j \in members
    BY <1>2 DEF AInv, AccountsTypeOK
  <2>. QED  BY <1>2, <1>4, <2>3, <2>4, <2>5, <2>6, TableStep
<1>. QED  BY <1>3, <1>4 DEF writeRow

LEMMA Preserved == AInv /\ [Next]_vars => Good
<1> SUFFICES ASSUME AInv, [Next]_vars PROVE Good
    OBVIOUS
<1>1. ASSUME NEW c \in Calls, Open(c) \/ Continue(c) \/ dropCall(c) PROVE Good
  BY <1>1, OpenStep, CreateStep, MailStep, TokenStep, CompareStep, WriteStep, LoadStep, RedisStep
     DEF Continue
<1>. QED  BY <1>1, ExpiryStep DEF Next

-----------------------------------------------------------------------------
(* The theorems.                                                           *)

\* The strengthening holds in every reachable state: members are verified unless a
\* sign-up has named them, and every entity on its way to the table is verified and
\* has the address of its row.
THEOREM AccountsInvariant == Spec => []AInv
<1>1. Init => AInv
  BY DEF Init, AInv, AccountsTypeOK, MailedIsCommitted, Requests
<1>2. AInv /\ [Next]_vars => AInv'
  BY Preserved DEF Good
<1>. QED  BY <1>1, <1>2, PTL DEF Spec

\* Every reachable state has the declared types; no password column ever holds
\* anything but a hash.
THEOREM AccountsTypeCorrect == Spec => []AccountsTypeOK
<1>1. AInv => AccountsTypeOK
  BY DEF AInv
<1>. QED  BY <1>1, AccountsInvariant, PTL

\* Links and mails of signUp exist only for committed rows, however many sign-ups
\* and saves interleave, but for addresses a sign-up has written over.
THEOREM MailedAccountsExist == Spec => []MailedIsCommitted
<1>1. AInv => MailedIsCommitted
  BY DEF AInv
<1>. QED  BY <1>1, AccountsInvariant, PTL

\* However the saves of verifyEmail and updateUser interleave, no account that
\* is verified is ever unverified again, unless a sign-up has named its row.
THEOREM VerifiedForGood == Spec => VerifiedStays
<1>1. AInv /\ [Next]_vars => [\A i \in Users : Verified(i) /\ i \notin named' => Verified(i)']_vars
  <2> SUFFICES ASSUME AInv, [Next]_vars, NEW i \in Users, Verified(i), i \notin named'
               PROVE  Verified(i)'
    OBVIOUS
  <2>1. RowsLast
    BY Preserved DEF Good
  <2>. QED  BY <2>1 DEF RowsLast, Verified
<1>. QED  BY <1>1, AccountsInvariant, PTL DEF VerifiedStays, Spec

\* Accounts implements AccountRecord: an account is made once and never removed; one
\* that no sign-up has named is verified only after a mail has reached its address,
\* never changes address, and keeps its profile until it has been signed in to; for
\* any users, any bodies of sign-ups and any number of concurrent requests.
THEOREM AccountsRefine == Spec => ImplementsAccountRecord
<1>1. Init => Record!Init
  BY NoRecordIsNoRow DEF Init, Record!Init
<1>2. AInv /\ [Next]_vars => [Record!Next]_Record!vars
  BY Preserved DEF Good
<1>. QED  BY <1>1, <1>2, AccountsInvariant, PTL DEF Spec, ImplementsAccountRecord, Record!Spec

-----------------------------------------------------------------------------
(* The cache.  The request that left an entry without an expiry is the      *)
(* witness to follow: it stays where it is until it, and nobody else, moves. *)

\* Steps that touch neither the cache nor a request that has just filled it.
LEMMA MindedElsewhere ==
    ASSUME AccountsTypeOK, EntryIsMinded, NEW c \in Calls, NEW r, Becomes(c, r),
           call[c] = NoCall \/ call[c].kind # "getUser" \/ call[c].step # "filled",
           UNCHANGED cut,
           \A i \in Users : cache'[i] \in {cache[i], NoEntry}
    PROVE  EntryIsMinded'
<1> SUFFICES ASSUME NEW i \in Users, cache'[i] # NoEntry
             PROVE  \/ cache'[i].expiring
                    \/ \E d \in Calls : call'[d] = Plain("getUser", "filled", i)
                    \/ i \in cut'
    BY DEF EntryIsMinded, Plain
<1>1. cache'[i] = cache[i]
  OBVIOUS
<1>2. ASSUME NEW d \in Calls, call[d] = Plain("getUser", "filled", i)
      PROVE  call'[d] = Plain("getUser", "filled", i)
  <2>1. d # c
    BY <1>2 DEF Plain, NoCall
  <2>. QED  BY <1>2, <2>1 DEF Becomes, AccountsTypeOK
<1>. QED  BY <1>1, <1>2 DEF EntryIsMinded

LEMMA FillMinds ==
    ASSUME AccountsTypeOK, EntryIsMinded, NEW c \in Calls, fillEntry(c)
    PROVE  EntryIsMinded'
<1> DEFINE mine == call[c].of
<1>1. mine \in Users
  BY CallShapes DEF fillEntry, At
<1>2. SUFFICES ASSUME NEW i \in Users, cache'[i] # NoEntry
               PROVE  \/ cache'[i].expiring
                      \/ \E d \in Calls : call'[d] = Plain("getUser", "filled", i)
                      \/ i \in cut'
  BY DEF EntryIsMinded, Plain
<1>3. call' = [call EXCEPT ![c] = Plain("getUser", "filled", mine)]
  BY DEF fillEntry, Becomes
<1>4. CASE i = mine
  BY <1>3, <1>4 DEF AccountsTypeOK
<1>5. CASE i # mine
  <2>1. cache'[i] = cache[i] /\ cut' = cut
    BY <1>5 DEF fillEntry, AccountsTypeOK
  <2>2. ASSUME NEW d \in Calls, call[d] = Plain("getUser", "filled", i)
        PROVE  call'[d] = call[d]
    <3>1. d # c
      BY <2>2, <1>5 DEF Plain
    <3>. QED  BY <3>1, <1>3 DEF AccountsTypeOK
  <2>. QED  BY <1>2, <2>1, <2>2 DEF EntryIsMinded
<1>. QED  BY <1>4, <1>5

\* EXPIRE reaches the entry that is under the key by now, whoever has set it.
LEMMA ExpireMinds ==
    ASSUME AccountsTypeOK, EntryIsMinded, NEW c \in Calls, expireSoon(c)
    PROVE  EntryIsMinded'
<1> DEFINE mine == call[c].of
<1>1. mine \in Users
  BY CallShapes DEF expireSoon, At
<1>2. SUFFICES ASSUME NEW i \in Users, cache'[i] # NoEntry
               PROVE  \/ cache'[i].expiring
                      \/ \E d \in Calls : call'[d] = Plain("getUser", "filled", i)
                      \/ i \in cut'
  BY DEF EntryIsMinded, Plain
<1>3. CASE i = mine
  <2>1. cache[i] \in Entries /\ cache'[i] = [cache[i] EXCEPT !.expiring = TRUE]
    BY <1>2, <1>3 DEF expireSoon, AccountsTypeOK
  <2>. QED  BY <2>1 DEF Entries
<1>4. CASE i # mine
  <2>1. cache'[i] = cache[i] /\ cut' = cut
    BY <1>4 DEF expireSoon, AccountsTypeOK
  <2>2. ASSUME NEW d \in Calls, call[d] = Plain("getUser", "filled", i)
        PROVE  call'[d] = call[d]
    <3>1. d # c
      BY <2>2, <1>4 DEF Plain
    <3>. QED  BY <3>1 DEF expireSoon, Becomes, AccountsTypeOK
  <2>. QED  BY <1>2, <2>1, <2>2 DEF EntryIsMinded
<1>. QED  BY <1>3, <1>4

\* A request that dies between SET and EXPIRE enters its key in cut.
LEMMA DropMinds ==
    ASSUME AccountsTypeOK, EntryIsMinded, NEW c \in Calls, dropCall(c)
    PROVE  EntryIsMinded'
<1> SUFFICES ASSUME NEW i \in Users, cache'[i] # NoEntry
             PROVE  \/ cache'[i].expiring
                    \/ \E d \in Calls : call'[d] = Plain("getUser", "filled", i)
                    \/ i \in cut'
    BY DEF EntryIsMinded, Plain
<1>1. cache' = cache /\ cut' = cut \cup {b \in Users : call[c] = Plain("getUser", "filled", b)}
  BY DEF dropCall
<1>2. ASSUME NEW d \in Calls, call[d] = Plain("getUser", "filled", i)
      PROVE  call'[d] = call[d] \/ i \in cut'
  BY <1>1, <1>2 DEF dropCall, Becomes, AccountsTypeOK
<1>. QED  BY <1>1, <1>2 DEF EntryIsMinded

LEMMA MindedStep == AccountsTypeOK /\ EntryIsMinded /\ [Next]_vars => EntryIsMinded'
<1> SUFFICES ASSUME AccountsTypeOK, EntryIsMinded, [Next]_vars PROVE EntryIsMinded'
    OBVIOUS
<1>1. ASSUME NEW c \in Calls, Open(c) PROVE EntryIsMinded'
  BY <1>1, MindedElsewhere DEF Open, openSignUp, openSignIn, openLink, openUpdate, missEntry
<1>2. ASSUME NEW c \in Calls,
             \/ createUser(c) \/ storeLink(c) \/ sendMail(c) \/ issueTokens(c) \/ compareRow(c)
             \/ writeRow(c) \/ loadToVerify(c) \/ dropLink(c) \/ readRow(c)
      PROVE  EntryIsMinded'
  BY <1>2, MindedElsewhere
     DEF createUser, storeLink, sendMail, issueTokens, compareRow, writeRow, loadToVerify,
         dropLink, readRow, At
<1>3. ASSUME NEW c \in Calls, dropEntry(c) PROVE EntryIsMinded'
  <2>1. \A i \in Users : cache'[i] \in {cache[i], NoEntry}
    BY <1>3 DEF dropEntry, AccountsTypeOK
  <2>. QED  BY <1>3, <2>1, MindedElsewhere DEF dropEntry, At
<1>4. ASSUME (\E a \in Emails : expireLink(a)) \/ \E i \in Users : expireEntry(i)
      PROVE  EntryIsMinded'
  BY <1>4 DEF expireLink, expireEntry, EntryIsMinded, AccountsTypeOK
<1>5. CASE UNCHANGED vars
  BY <1>5 DEF vars, EntryIsMinded
<1>. QED  BY <1>1, <1>2, <1>3, <1>4, <1>5, FillMinds, ExpireMinds, DropMinds DEF Next, Continue

\* However many requests fill and drop the same key, an entry never stays in the
\* cache without an expiry unless the one EXPIRE that was due has failed.
THEOREM EntriesAreMinded == Spec => []EntryIsMinded
<1>1. Init => EntryIsMinded
  BY DEF Init, EntryIsMinded
<1>. QED  BY <1>1, MindedStep, AccountsTypeCorrect, PTL DEF Spec
=============================================================================
