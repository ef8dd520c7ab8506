CONSTANTS
    r1 = r1
    r2 = r2
    q1 = q1
    q2 = q2
    q3 = q3
    e1 = e1
    e2 = e2
    e3 = e3
    NoEgress = NoEgress
    Rooms = {r1, r2}
    Requests = {q1, q2, q3}
    Egresses = {e1, e2, e3}
SPECIFICATION Spec
SYMMETRY Symmetry
PROPERTIES RefusesOnlyIdleRooms
