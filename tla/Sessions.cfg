SPECIFICATION FairSpec
CONSTANTS s1 = s1 s2 = s2 u1 = u1 NoOne = NoOne Off = Off
CONSTANTS Session = {s1, s2} User = {u1} UserOf <- MCOneUser WithEnv = {s1}
CONSTANTS MaxPerUser = 1 MaxLength = 1 MaxFaults = 1 MaxCrashes = 1
INVARIANTS LimitKeptOneByOne OneLengthPerCrash ErrorCleansUp
PROPERTIES SessionEnds
CHECK_DEADLOCK FALSE
