CONSTANTS
    Session = {0, 1, 2, 3}
    LastCounter <- MCLast
    Width = 2
    RetiredKept = 1
    Qkcs = {1, 2, 3, 4}
    AnchorOf <- MCAnchorOf
    FirstLinks <- MCFirstLinks
    Kinds <- MCKinds
    Reports <- MCReports
    FullRoom = 5
    FillWeight <- Half
    Gamma <- Half
    Allocators = {"num", "maxmin"}
    MaxReports = 2
    MaxChanges = 1
    MaxTicks = 2
    None = None
    Unavailable = Unavailable
    NoVotes = NoVotes
    s1 = s1
    s2 = s2
    q1 = q1
    q2 = q2
    o1 = o1
    o2 = o2
    d1 = d1
    d2 = d2
SPECIFICATION MCSpec
INVARIANTS NoReplay LateFrameAccepted RatesSound FormatsAgree TopologySound
PROPERTIES NeverReadopted OthersUntouched
