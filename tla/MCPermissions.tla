--------------------------- MODULE MCPermissions ---------------------------
(* An instance of Permissions: a user who may manage roles, users and what *)
(* the pattern "first" matches, one who may only launch, and the role of   *)
(* an administrator who does not act.                                      *)
EXTENDS Permissions

CONSTANTS admin, staff, guest, t1, t2, ns, anything, first

MCName == {admin, staff, guest, t1, t2}
MCUser == {staff, guest}
MCPattern == {anything, first}
MCMatches == [p \in Pattern |-> IF p = anything THEN Name ELSE {staff, guest, t1}]

RuleFor(vs, rs, ps) == [verbs |-> vs, resources |-> rs, patterns |-> ps, namespaces |-> {All}]
Everything == RuleFor({All}, {All}, {anything})
Manage == RuleFor({"create", "update", "delete", "launch", "use"}, {All}, {first})
LaunchAll == RuleFor({"launch", "use"}, {"templates"}, {anything})
LaunchFirst == RuleFor({"launch", "use"}, {"templates"}, {first})

MCRoles == [n \in Name |-> CASE n = admin -> {Everything} [] n = staff -> {Manage}
                             [] OTHER -> Absent]
MCUsers == [u \in User |-> IF u = staff THEN {staff} ELSE {guest}]
MCTemplates == {t1, t2}
MCRuleSets == {{LaunchAll}, {LaunchFirst}, {Everything}}
MCRoleSets == {{}, {admin}, {guest, staff}}
=============================================================================
