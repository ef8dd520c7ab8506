CONSTANTS
    me = me
    ann = ann
    bob = bob
    r1 = r1
    r2 = r2
    StLocal = me
    StOthers = {ann, bob}
    NoPin = NoPin
    StGone = StGone
    StMaxTime = 2
    ChUsers = {ann, bob}
    ChReader = ann
    ChMaxSent = 2
    HpMaxAsks = 2
    HpMaxWire = 2
    MuUsers = {ann, bob}
    RcRooms = {r1, r2}
    RcMaxMounts = 3
    RcMaxSends = 1
    RcNone = RcNone
    AtMe = me
    AtOthers = {ann}
    AtMaxTime = 2
    AtMaxSessions = 2
    AtNull = AtNull
    PaMaxSignIns = 2
    PaMaxCreates = 2
    PaMaxOuts = 2
    PaNotAsked = PaNotAsked
    PfNothing = PfNothing
    FcChars = {32, 45, 97, 133, 223, 65345, 128512}
    FcMaxName = 4
    RnChars = {"a", "p", "i", "A", "7", "-", " ", "shcha", "soft-sign"}
    RnMaxInput = 4
    RnMaxSlug = 5
    LpMaxIn = 2
    LpMembers = 1
    LpMaxPolls = 2
    LpNothing = LpNothing
    ScVersions = 2
    ScMaxPuts = 2
    ScHome = ScHome
    ScNothing = ScNothing
    ScError = ScError
SPECIFICATION Spec
INVARIANTS TypeOK StageIsCurrent ChatHolds ChUnread HpInSync MuHolds RcOwnCall AtCounts SameEverywhere LpLastKnown 
PROPERTIES SessionHolds
CHECK_DEADLOCK FALSE
