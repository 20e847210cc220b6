CONSTANTS
    c1 = c1
    w1 = w1
    d1 = d1
    o1 = o1
    o2 = o2
    r1 = r1
    r2 = r2
    p1 = p1
    p2 = p2
    NoDriver = NoDriver
    Clients = {c1}
    Owners = {w1}
    Drivers = {}
    CustomerOf <- MCCustomerOf
    OwnerOf <- MCOwnerOf
    Orders = {o1, o2}
    Requests = {}
    Calls = {p1}
CHECK_DEADLOCK FALSE
SPECIFICATION FairShopSpec
PROPERTY UnpaidIsSwept
