SPECIFICATION FairSpec
CONSTANTS
 Keep = 1
 MaxEpoch = 2
 MaxFaults = 1
INVARIANT Hitless
PROPERTIES ConfirmedOpens Heals
CHECK_DEADLOCK FALSE
