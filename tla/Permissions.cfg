SPECIFICATION Spec
CONSTANTS admin = admin staff = staff guest = guest t1 = t1 t2 = t2 ns = ns anything = anything first = first
CONSTANTS Name <- MCName User <- MCUser Namespace = {ns} Pattern <- MCPattern Matches <- MCMatches
CONSTANTS Unnamed = Unnamed Default = t2 Absent = Absent NoToken = NoToken NoRequest = NoRequest
CONSTANTS InitRoles <- MCRoles InitUsers <- MCUsers InitTemplates <- MCTemplates
CONSTANTS RuleSets <- MCRuleSets RoleSets <- MCRoleSets MaxRequests = 3
INVARIANTS ReachNeverGrows LaunchesAreListed
CHECK_DEADLOCK FALSE
