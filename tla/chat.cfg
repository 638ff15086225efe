\* Three connections; one may break with an exception, in one of the rooms.
SPECIFICATION VisitSpec
CONSTANTS
    k1 = k1 k2 = k2 k3 = k3 ann = ann bob = bob op = op guest = guest
    Socks = {k1, k2, k3}
    Accounts = {ann, bob, op, guest}
    Sysops = {op}
    Guests = {guest}
    Castings <- Visitors
    Main = Main
    Names = {Other}
    Other = Other
    Nowhere = Nowhere
    Nobody = Nobody
    MaxLost = 1
INVARIANTS TypeOK RoomsCounted
PROPERTIES LockedKeepsOut RightsStayBehind
CHECK_DEADLOCK FALSE
