SPECIFICATION Spec
CONSTANTS a1 = a1 a2 = a2 b1 = b1 A = A B = B Absent = Absent Pod <- MCPod
CONSTANTS Proc <- MCTwoProc PodOf <- MCTwoPodOf Timeout <- MCShort MaxTime = 6 MaxFaults = 0
INVARIANTS ExclusionUntilExpiry
CHECK_DEADLOCK FALSE
