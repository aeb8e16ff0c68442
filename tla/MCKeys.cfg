SPECIFICATION MCSpec
CONSTANTS
    A = A  B = B  a = a  b = b  r = r  k1 = k1  k2 = k2
    Node = {A, B}
    Sae = {a, b}
    Home <- MCHome
    Key = {k1, k2}
    Request = {r}
    Master <- MCMaster
    Targets <- MCTargets
    KeysOf <- MCKeysOf
    Call = {d}
    MaxPending = 1
    Dkms = {dkms1, dkms2}
    TransportKey = {t1, t2}
    Capacity = 1
    DecCeiling = 1
    MaxIncarnation = 2
SYMMETRY KeySymmetry
INVARIANTS OriginAccounted FailedLeavesNothing
           OneTimePad ServableWasAccepted HeldByEmitter
PROPERTIES DeliversOnce NotRemovedEarly
CHECK_DEADLOCK FALSE
