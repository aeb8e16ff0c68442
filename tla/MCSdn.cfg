CONSTANTS
    Instances = {"forwarding", "moves", "chain", "push", "cache"}
    Qkcs = {1, 2, 3, 4}
    FirstLinks <- MCFirstLinks
    Kinds <- MCKinds
    Grades = {"qkd", "pqc"}
    Dual = TRUE
    MaxChanges = 1
    q1 = q1
    q2 = q2
    o1 = o1
    o2 = o2
    d1 = d1
    s1 = s1
    a1 = a1
    a2 = a2
    None = None
SPECIFICATION MCSpec
PROPERTIES FramesArrive SdnSettles
