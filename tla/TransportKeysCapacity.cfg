CONSTANTS
    Dkms = {dkms1, dkms2}
    TransportKey = {k1, k2, k3}
    Capacity = 2
    DecCeiling = 1
    MaxIncarnation = 2
SPECIFICATION TransportSpec
SYMMETRY Symmetry
INVARIANT CapacityKept
CHECK_DEADLOCK FALSE
