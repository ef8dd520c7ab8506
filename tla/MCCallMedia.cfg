CONSTANTS
    blur = blur
    green = green
    t1 = t1
    m1 = m1
    m2 = m2
    u1 = u1
    u2 = u2
    n1 = n1
    n2 = n2
    BgEffects = {blur, green}
    BgNone = BgNone
    NoProc = NoProc
    BgTracks = 2
    BgMaxQueue = 3
    JnAsks = {1, 2}
    JnTracks = {t1}
    TrMics = {m1, m2}
    NoMic = NoMic
    TrMaxBuilds = 3
    TrMaxSegments = 2
    ShUsers = {u1, u2}
    NtNotices = {n1, n2}
    NoNotice = NoNotice
    NtSpan = 3
    RxMax = 3
    RxSpans = {2, 3}
SPECIFICATION Spec
INVARIANTS TypeOK DevicesAsWanted JnHeard TrPipeline MwNoOrphan OwnTimers
PROPERTIES BgLatestWins BgEventuallyShown JnSpinnerEnds TrStarts SharesAsMeant NoticesGo
CHECK_DEADLOCK FALSE
