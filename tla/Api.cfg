SPECIFICATION ApiSpec
CONSTANTS
    Cli = {c1, c2}
    Role = {ra, rb}
    Rule = {read, launch}
    Key = {ldap}
    Gone = Gone
    Idle = Idle
    MaxRuns = 3
    MaxNetFaults = 1
    MaxRules = 3
    Replica = {e1, e2}
    Post = {q1, q2}
    Visit = {v1, v2}
    State = {s1}
    ann = ann
    bob = bob
    g1 = g1
    g2 = g2
    Person = {ann, bob}
    Group = {g1, g2}
    RoleNames <- MCRoleNames
    Blank = Blank
    Launch = "launch-templates"
    Nothing = Nothing
    MaxTroubles = 1
SYMMETRY Places
INVARIANTS TablesAgree TokensRevoked RolesAgree ForgottenWhereServed
PROPERTIES EditsKeepTheRest
CHECK_DEADLOCK FALSE
