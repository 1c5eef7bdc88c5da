SPECIFICATION LocksSpec
CONSTANTS a1 = a1 a2 = a2 b1 = b1 A = A B = B Absent = Absent Pod <- MCPod
CONSTANTS Proc <- MCProc PodOf <- MCPodOf Timeout <- MCForever MaxTime = 1 MaxFaults = 2
PROPERTIES ImplementsExclusiveLock NeverAllWaiting TimedAcquireReturns
CHECK_DEADLOCK FALSE
