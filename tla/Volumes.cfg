SPECIFICATION FairSpec
CONSTANTS u1 = u1 n1 = n1 None = None Absent = Absent Released = Released
CONSTANTS User = {u1} Namespace = {n1} UserOf <- MCOneUser NamespaceOf <- MCOneNamespace
CONSTANTS RetainPVCs = FALSE
CONSTANTS MaxSessions = 2 MaxVolumes = 2 MaxFaults = 1 MaxLost = 1
INVARIANTS OneHome FreedUnlessDeletedEarly
PROPERTIES HomeSurvives DeletionCompletes
CHECK_DEADLOCK FALSE
