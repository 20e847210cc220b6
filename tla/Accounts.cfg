CONSTANTS
    u1 = u1
    u2 = u2
    a1 = a1
    a2 = a2
    n1 = n1
    n2 = n2
    p1 = p1
    c1 = c1
    c2 = c2
    Users = {u1, u2}
    Emails = {a1, a2}
    Names = {n1, n2}
    Passwords = {p1}
    Unset = Unset
    Bodies <- MCBodies
    Profiles <- MCProfiles
    Asked = {u1}
    Calls = {c1, c2}
CHECK_DEADLOCK FALSE
SPECIFICATION FairSpec
INVARIANTS
    MailedIsCommitted
PROPERTIES
    VerifiedStays
    ImplementsAccountRecord
    StaleEntryGoes
