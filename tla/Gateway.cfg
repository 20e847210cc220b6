CONSTANTS
    c1 = c1
    w1 = w1
    o1 = o1
    r1 = r1
    r2 = r2
    s1 = s1
    NoDriver = NoDriver
    NoAnswer = NoAnswer
    NothingShown = NothingShown
    Clients = {c1}
    Owners = {w1}
    Drivers = {}
    CustomerOf <- MCCustomerOf
    OwnerOf <- MCOwnerOf
    UserOf <- MCUserOf
    Orders = {o1}
    Requests = {r1, r2}
    Sockets = {s1}
SPECIFICATION GatewaySpec
SYMMETRY Interchangeable
INVARIANTS
    OwnerMissesNoOrder
    FirmPageIsUpToDate
