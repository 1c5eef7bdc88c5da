SPECIFICATION FairSpec
CONSTANTS e1 = e1 e2 = e2 r1 = r1 r2 = r2 r3 = r3 t1 = t1 t2 = t2 u = u v = v
CONSTANTS None = None Free = Free Name = {t1, t2} Value = {u, v}
CONSTANTS Request <- MCRequests Ops <- MCOps InitTables <- MCTables
CONSTANTS Engine <- MCTwoEngines EngineOf <- MCSplit KnowsPeers <- MCTwoEngines
CONSTANTS Versioned = TRUE MaxFaults = 1 MaxOther = 1
INVARIANTS OneAtATime
PROPERTIES ImplementsSecretMap ReturnsUnlessAcquireFailed
CHECK_DEADLOCK FALSE
