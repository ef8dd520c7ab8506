CONSTANTS
    b1 = b1
    b2 = b2
    r1 = r1
    r2 = r2
    r3 = r3
    staff = staff
    NoOwner = NoOwner
    Browsers = {b1, b2}
    Rooms = {r1, r2, r3}
    CallRooms = {r1}
    Subs <- MCSubs
    staffSub <- staff
    MaxRooms = 2
    SessionTTL = 1
    GrantTTL = 2
    TokenTTL = 1
SPECIFICATION Spec
SYMMETRY Symmetry
PROPERTIES LockedAdmitsOnlyHost
