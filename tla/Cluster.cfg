SPECIFICATION Spec
CONSTANTS s1 = s1 adminRole = adminRole serviceAccount = serviceAccount
CONSTANTS Session = {s1} Roles <- MCRoles Rbac <- MCRbac
CONSTANTS Once = {serviceAccount} Unowned = {adminRole} Kinds <- MCKinds
CONSTANTS None = None Bad = Bad Idle = Idle
CONSTANTS MaxDisturbed = 1
CONSTANTS Number = {1, 2, 3, 4, 5, 6}
INVARIANTS AdminCanLogIn SignedByStored RestsWhenDone
PROPERTIES Converges KeysKept
CHECK_DEADLOCK FALSE
