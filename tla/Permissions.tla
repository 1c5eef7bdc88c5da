---------------------------- MODULE Permissions ----------------------------
(***************************************************************************)
(* Who may change roles, users and templates through the API, and what     *)
(* they can hand on by it. A login copies the rules of the user's roles    *)
(* into a token. A request is checked against the token of its user, by    *)
(* the middleware of pkg/api/api_validate_perms.go, and carried out by its *)
(* handler later: other requests run between the two.                      *)
(***************************************************************************)
EXTENDS Naturals, Rules

CONSTANTS User,        \* the users that act; others may have roles too
          Absent, NoToken, NoRequest,
          InitRoles, InitUsers, InitTemplates,
          RuleSets,    \* the rules that requests ask for
          RoleSets,    \* the roles that requests ask for
          MaxRequests  \* bound: requests that are let through

(* A request for one of the routes that change something: with the rules   *)
(* of a role, with the roles of a user, or with nothing but a name.        *)
Request ==
    [method : {"POST", "PUT"}, on : {"roles"}, target : Name, rules : RuleSets, roles : {{}}]
      \cup [method : {"POST", "PUT"}, on : {"users"}, target : User, rules : {{}}, roles : RoleSets]
      \cup [method : {"DELETE"}, on : {"roles"}, target : Name, rules : {{}}, roles : {{}}]
      \cup [method : {"DELETE"}, on : {"users"}, target : User, rules : {{}}, roles : {{}}]
      \cup [method : {"POST", "DELETE"}, on : {"templates"}, target : Name, rules : {{}}, roles : {{}}]

ASSUME PermissionsAssumption ==
    /\ User \subseteq Name
    /\ InitRoles \in [Name -> {Absent} \cup SUBSET Rule]
    /\ InitUsers \in [User -> {Absent} \cup SUBSET Name]
    /\ InitTemplates \subseteq Name
    /\ RuleSets \subseteq SUBSET Rule /\ RoleSets \subseteq SUBSET Name
    /\ Absent \notin RuleSets \cup RoleSets
    /\ NoRequest \notin Request
    /\ MaxRequests \in Nat

VARIABLES roles,      \* the VDIRoles
          users,      \* the passwd file: the roles of each user
          templates,
          token,      \* the rules in the token each user has
          pending,    \* the request each user has been let through with
          asked,
          steady      \* history: roles and templates there from the start

vars == <<roles, users, templates, token, pending, asked, steady>>

TypeOK ==
    /\ roles \in [Name -> {Absent} \cup SUBSET Rule]
    /\ users \in [User -> {Absent} \cup SUBSET Name]
    /\ templates \subseteq Name
    /\ token \in [User -> {NoToken} \cup SUBSET Rule]
    /\ pending \in [User -> {NoRequest} \cup Request]
    /\ asked \in Nat
    /\ steady \in [roles : SUBSET Name, templates : SUBSET Name]

Roles == {n \in Name : roles[n] # Absent}

Init ==
    /\ roles = InitRoles /\ users = InitUsers /\ templates = InitTemplates
    /\ token = [u \in User |-> NoToken]
    /\ pending = [u \in User |-> NoRequest]
    /\ asked = 0
    /\ steady = [roles |-> Roles, templates |-> InitTemplates]

-----------------------------------------------------------------------------
(* A login, or a refresh of the token. *)
Login(u) ==
    /\ users[u] # Absent
    /\ token' = [token EXCEPT ![u] = UNION {roles[n] : n \in users[u] \cap Roles}]
    /\ UNCHANGED <<roles, users, templates, pending, asked, steady>>

VerbOf(method) == CASE method = "POST" -> "create" [] method = "PUT" -> "update"
                    [] method = "DELETE" -> "delete"

(* What RouterGrantRequirements asks for. *)
RequiredAction(q) ==
    [verb |-> VerbOf(q.method), resource |-> q.on, namespace |-> Unnamed,
     name |-> IF q.method = "POST" THEN Unnamed ELSE q.target]

IsGrant(q) == q.on \in {"users", "roles"} /\ q.method # "DELETE"

(* denyUserElevatePerms: every rule of every role that is asked for, or of *)
(* the role itself, must be included in one of the user's own.             *)
MayGrant(rules, q) ==
    LET Has(c) == UserIncludesRule(rules, c, Roles, templates) IN
    IF q.on = "users" THEN \A n \in q.roles \cap Roles : \A c \in roles[n] : Has(c)
                      ELSE \A c \in q.rules : Has(c)

(* A user may change itself without a grant (allowSameUser).               *)
IsOwn(u, q) == q.method = "PUT" /\ q.on = "users" /\ q.target = u

(* Broken Admits: the own user is let through without a look at the roles. *)
AdmitsOwn(u, q) ==
    \/ IsOwn(u, q)
    \/ /\ EvaluateUser(token[u], RequiredAction(q))
       /\ IsGrant(q) => MayGrant(token[u], q)

(* ValidateUserGrants. *)
Admits(u, q) ==
    \/ IsOwn(u, q) /\ MayGrant(token[u], q)
    \/ /\ EvaluateUser(token[u], RequiredAction(q))
       /\ IsGrant(q) => MayGrant(token[u], q)

(* A request that is not let through changes nothing. *)
Check(u, q) ==
    /\ token[u] # NoToken /\ pending[u] = NoRequest
    /\ asked < MaxRequests
    /\ Admits(u, q)
    /\ pending' = [pending EXCEPT ![u] = q]
    /\ asked' = asked + 1
    /\ UNCHANGED <<roles, users, templates, token, steady>>

Asks(u, method, on) == pending[u] # NoRequest /\ pending[u].method = method /\ pending[u].on = on
Done(u) == pending' = [pending EXCEPT ![u] = NoRequest]

(* A role can be replaced or deleted if it is there, and made if it is not. *)
WriteRole(u) ==
    LET q == pending[u] IN
    /\ \/ Asks(u, "POST", "roles") /\ roles[q.target] = Absent
       \/ Asks(u, "PUT", "roles") /\ roles[q.target] # Absent
    /\ roles' = [roles EXCEPT ![q.target] = q.rules]
    /\ Done(u)
    /\ UNCHANGED <<users, templates, token, asked, steady>>

DeleteRole(u) ==
    LET n == pending[u].target IN
    /\ Asks(u, "DELETE", "roles") /\ roles[n] # Absent
    /\ roles' = [roles EXCEPT ![n] = Absent]
    /\ steady' = [steady EXCEPT !.roles = @ \ {n}]
    /\ Done(u)
    /\ UNCHANGED <<users, templates, token, asked>>

CreateUser(u) ==
    LET q == pending[u] IN
    /\ Asks(u, "POST", "users") /\ users[q.target] = Absent
    /\ users' = [users EXCEPT ![q.target] = q.roles]
    /\ Done(u)
    /\ UNCHANGED <<roles, templates, token, asked, steady>>

(* No roles in the request: the user keeps those it has. *)
UpdateUser(u) ==
    LET q == pending[u] IN
    /\ Asks(u, "PUT", "users") /\ users[q.target] # Absent
    /\ users' = IF q.roles = {} THEN users ELSE [users EXCEPT ![q.target] = q.roles]
    /\ Done(u)
    /\ UNCHANGED <<roles, templates, token, asked, steady>>

DeleteUser(u) ==
    /\ Asks(u, "DELETE", "users")
    /\ users' = [users EXCEPT ![pending[u].target] = Absent]
    /\ Done(u)
    /\ UNCHANGED <<roles, templates, token, asked, steady>>

CreateTemplate(u) ==
    /\ Asks(u, "POST", "templates")
    /\ templates' = templates \cup {pending[u].target}
    /\ Done(u)
    /\ UNCHANGED <<roles, users, token, asked, steady>>

DeleteTemplate(u) ==
    LET n == pending[u].target IN
    /\ Asks(u, "DELETE", "templates")
    /\ templates' = templates \ {n}
    /\ steady' = [steady EXCEPT !.templates = @ \ {n}]
    /\ Done(u)
    /\ UNCHANGED <<roles, users, token, asked>>

(* The handler fails, or finds nothing to do. *)
Fails(u) ==
    /\ pending[u] # NoRequest
    /\ Done(u)
    /\ UNCHANGED <<roles, users, templates, token, asked, steady>>

Handle(u) ==
    \/ WriteRole(u) \/ DeleteRole(u)
    \/ CreateUser(u) \/ UpdateUser(u) \/ DeleteUser(u)
    \/ CreateTemplate(u) \/ DeleteTemplate(u)
    \/ Fails(u)

Next == \E u \in User : Login(u) \/ (\E q \in Request : Check(u, q)) \/ Handle(u)

Spec == Init /\ [][Next]_vars

-----------------------------------------------------------------------------
(* The actions that inclusion speaks of: those without a name, and those   *)
(* on roles and templates that have been there all the time. The comment   *)
(* at rule_includes.go:76-80 leaves out resources that come later.         *)
Compared(a, rs, ts) ==
    LET e == AsEvaluated(a) IN
    \/ e.name = Unnamed
    \/ e.resource = "roles" /\ e.name \in rs
    \/ e.resource = "templates" /\ e.name \in ts

(* What the roles that the users had at the start allow. *)
Reach == {a \in Action :
            \E u \in User : /\ InitUsers[u] # Absent
                            /\ \E n \in InitUsers[u] : /\ InitRoles[n] # Absent
                                                       /\ EvaluateUser(InitRoles[n], a)}

WithinReach(rules, rs, ts) ==
    \A a \in Action : Compared(a, rs, ts) /\ EvaluateUser(rules, a) => a \in Reach

Within(rules) == WithinReach(rules, steady.roles, steady.templates)

(* "The requested operation grants more privileges than the user has" is   *)
(* what denyUserElevatePerms keeps out. So whatever users do through the   *)
(* API, alone or together, in whatever order and between each other's      *)
(* checks and writes, none of them is allowed what none of them was        *)
(* allowed at the start.                                                   *)
ReachNeverGrows == \A u \in User : token[u] # NoToken => Within(token[u])

(* Why: nothing more comes into a role that they hand on or write.         *)
Inv ==
    /\ TypeOK /\ ReachNeverGrows
    /\ steady.roles \subseteq Roles /\ steady.templates \subseteq templates
    /\ \A u \in User : users[u] # Absent => \A n \in users[u] \cap Roles : Within(roles[n])
    /\ \A u \in User : pending[u] # NoRequest =>
         /\ Within(pending[u].rules)
         /\ \A n \in pending[u].roles \cap Roles : Within(roles[n])

(* What the UI offers leaves out nothing that could be launched: a session *)
(* that ValidateUserGrants lets through has its template, its namespace    *)
(* and its service account in the filtered lists.                          *)
LaunchesAreListed ==
    \A u \in User : token[u] # NoToken =>
      \A t \in templates, ns \in Namespace, sa \in Name :
        EvaluateUser(token[u], Launch(t, ns)) /\ EvaluateUser(token[u], Use(sa, ns)) =>
          /\ t \in FilterTemplates(token[u], templates)
          /\ ns \in FilterUserNamespaces(token[u], Namespace)
          /\ sa \in FilterUserServiceAccounts(token[u], Name, ns)
=============================================================================
