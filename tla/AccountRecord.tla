---------------------------- MODULE AccountRecord ----------------------------
(***************************************************************************)
(* What the rest of the shop may rely on about an account.  It is made     *)
(* once, as its sign-up asks, and never removed; no two have one address.  *)
(* One that was made unverified is verified when a mail has reached its    *)
(* address; then its owner signs in, and only from then on do its name and *)
(* password change.  Its address never does.                               *)
(*                                                                         *)
(* A sign-up that names the id of an account ends these promises for it:   *)
(* it is written over from then on.                                        *)
(*                                                                         *)
(* Every save of Accounts writes an entity read some queries before;       *)
(* Accounts is shown to implement this module all the same.                *)
(***************************************************************************)

CONSTANTS
    Users,      \* ids of users
    Emails,     \* e-mail addresses
    Names,      \* values of the name column
    Passwords   \* values of the password column (hashes)

VARIABLES
    user,       \* user[i] : the account with id i, or NoRow
    mailed,     \* addresses that a verification mail has reached
    members,    \* users that have been given an access token
    named,      \* accounts that a sign-up has written over
    lost        \* the addresses these have had

vars == <<user, mailed, members, named, lost>>

Rows == [email : Emails, name : Names, password : Passwords, verified : BOOLEAN, deleted : BOOLEAN]

NoRow == [email |-> "none"]

Init ==
    /\ user = [i \in Users |-> NoRow]
    /\ mailed = {}
    /\ members = {}
    /\ named = {}
    /\ lost = {}

\* The address is that of no other account.
Alone(i, a) == \A j \in Users \ {i} : user[j] # NoRow => user[j].email # a

SignUp(i, row) ==
    /\ user[i] = NoRow
    /\ Alone(i, row.email)
    /\ user' = [user EXCEPT ![i] = row]
    /\ UNCHANGED <<mailed, members, named, lost>>

WriteOver(i, row) ==
    /\ user[i] # NoRow
    /\ Alone(i, row.email)
    /\ user' = [user EXCEPT ![i] = row]
    /\ named' = named \cup {i}
    /\ lost' = lost \cup {user[i].email}
    /\ UNCHANGED <<mailed, members>>

Mail(a) ==
    /\ a \in lost \/ \E i \in Users : user[i] # NoRow /\ user[i].email = a
    /\ mailed' = mailed \cup {a}
    /\ UNCHANGED <<user, members, named, lost>>

Verify(i) ==
    /\ user[i] # NoRow
    /\ user[i].email \in mailed
    /\ user' = [user EXCEPT ![i].verified = TRUE]
    /\ UNCHANGED <<mailed, members, named, lost>>

SignIn(i) ==
    /\ user[i] # NoRow
    /\ user[i].verified \/ i \in named
    /\ members' = members \cup {i}
    /\ UNCHANGED <<user, mailed, named, lost>>

Change(i, n, p) ==
    /\ i \in members
    /\ user[i] # NoRow
    /\ user' = [user EXCEPT ![i].name = n, ![i].password = p]
    /\ UNCHANGED <<mailed, members, named, lost>>

Next ==
    \/ \E a \in Emails : Mail(a)
    \/ \E i \in Users :
          \/ Verify(i) \/ SignIn(i)
          \/ \E row \in Rows : SignUp(i, row) \/ WriteOver(i, row)
          \/ \E n \in Names, p \in Passwords : Change(i, n, p)

Spec == Init /\ [][Next]_vars
=============================================================================
