----------------------------- MODULE MCRequests -----------------------------
(***************************************************************************)
(* A small instance of Uploads: one access token, of a client, and routes  *)
(* that have all the guards between them.  The slots are alike, so it is   *)
(* enough that routes that matter to each other are called in different    *)
(* ones.                                                                   *)
(***************************************************************************)
EXTENDS Uploads

CONSTANTS r1, r2, client, token

MCRoleOf == [u \in Users |-> "Client"]

MCHolder == [t \in Tokens |-> client]

MCCalled ==
    LET Paths(r) == IF r = r1 THEN {"POST /auth/sign-out", "POST /uploads/batch"}
                    ELSE {"POST /auth/refresh", "DELETE /dishes/:id", "POST /uploads/batch"}
    IN  [r \in Slots |-> {route \in AllRoutes : route.path \in Paths(r)}]
=============================================================================
