----------------------------- MODULE MCAccounts -----------------------------
(***************************************************************************)
(* Small instances of Accounts: two values of each column are enough to    *)
(* tell a stale one from a new one, and two requests to interleave.  Of    *)
(* the sign-ups one is as the DTO declares it, one names an id, and one is *)
(* for an account that is deleted already.                                 *)
(***************************************************************************)
EXTENDS Accounts, TLC

CONSTANTS u1, u2, a1, a2, n1, n2, p1, c1, c2

MCBodies ==
    LET Body(id, a, n, verified, deleted) ==
            [id |-> id, email |-> a, name |-> n, password |-> p1,
             verified |-> verified, deleted |-> deleted]
    IN  {Body(Unset, a1, n1, Unset, Unset),
         Body(u1, a2, n2, TRUE, Unset),
         Body(Unset, a2, n2, TRUE, TRUE)}

MCProfiles == {[name |-> n2, password |-> Unset]}
=============================================================================
