SPECIFICATION Spec
CONSTANTS
 Keep = 1
 MaxEpoch = 2
 MaxFaults = 0
INVARIANT NeverAhead
CHECK_DEADLOCK FALSE
