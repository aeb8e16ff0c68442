CONSTANTS
    o1 = o1  o2 = o2  o3 = o3  a1 = a1  a2 = a2  l1 = l1  l2 = l2  s3 = s3
    s4 = s4  c1 = c1  c2 = c2  d1 = d1  d2 = d2
    Neighbor = {q1, l2, s3, s4, s5}
    Declared = {q1, l2}
    Located = {q1}
    Qkd = {q1, s5}
    Addr = {a1}
    Configs <- NodeConfigs
    MaxSdnLinks = 1
    Period = 2
    MaxChanges = 3
SPECIFICATION MCSpec
INVARIANTS RoutesAreLinks UsedOnce Accounted AsConfigured
PROPERTIES NodesFollow EndsRecover WaitsEnd
CHECK_DEADLOCK FALSE
