CONSTANTS
    t1 = t1
    t2 = t2
    r1 = r1
    r2 = r2
    r3 = r3
    q1 = q1
    NoRoom = NoRoom
    Tabs = {t1, t2}
    Rooms = {r1, r2, r3}
    Requests = {q1}
SPECIFICATION Spec
PROPERTIES LeftMeansLeft
