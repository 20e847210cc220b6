CONSTANTS
    c1 = c1
    w1 = w1
    w2 = w2
    d1 = d1
    d2 = d2
    o1 = o1
    o2 = o2
    r1 = r1
    r2 = r2
    NoDriver = NoDriver
    Clients = {c1}
    Owners = {w1, w2}
    Drivers = {d1, d2}
    CustomerOf <- MCCustomerOf
    OwnerOf <- MCOwnerOf
    Orders = {o1}
    Requests = {r1, r2}
SPECIFICATION Spec
SYMMETRY Interchangeable
CHECK_DEADLOCK FALSE
INVARIANTS
    RoadListedToOneDriver
    StatusWasTold
    DeliveredWasPickedUp
    AnnouncedWasPlaced
PROPERTY
    ImplementsOrderRecord
