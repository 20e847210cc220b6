CONSTANTS
    r1 = r1
    r2 = r2
    client = client
    token = token
    NoToken = NoToken
    NoUser = NoUser
    Slots = {r1, r2}
    Users = {client}
    Tokens = {token}
    MaxKeys = 2
    BatchSize = 2
    RoleOf <- MCRoleOf
    Holder <- MCHolder
    Called <- MCCalled
SPECIFICATION Spec
INVARIANTS
    UploadsTypeOK
    NoLateAdmission
    ActsForItsUser
    UnauthorizedHasACause
    ToldIsStored
    StrayHasACause
PROPERTIES
    RunsAsRequests
    EveryRequestEnds
