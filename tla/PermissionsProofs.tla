------------------------- MODULE PermissionsProofs -------------------------
(***************************************************************************)
(* Proofs about Rules and Permissions for every set of names, patterns and *)
(* users, and every set of roles at the start; and about the tables of     *)
(* RequestGate, which have no parameters.                                  *)
(***************************************************************************)
EXTENDS Permissions, RequestGate, TLAPS

(* What RuleIncludes means: of the actions it compares, the rule that is   *)
(* included allows none that the other does not allow.                     *)
THEOREM IncludedAllowsNoMore ==
    ASSUME NEW r \in Rule, NEW c \in Rule, NEW rs, NEW ts, NEW a \in Action,
           RuleIncludes(r, c, rs, ts), Compared(a, rs, ts), EvaluateRule(c, a)
    PROVE  EvaluateRule(r, a)
<1>1. CASE r = c
  BY <1>1
<1>2. CASE r # c
  <2> DEFINE e == AsEvaluated(a)
  <2>0. \A v \in c.verbs : HasVerb(r, v)
    BY <1>2 DEF RuleIncludes
  <2>1. HasVerb(r, e.verb)
    BY <2>0 DEF EvaluateRule, HasVerb, All
  <2>2. \A t \in c.resources : HasResourceType(r, t)
    BY <1>2 DEF RuleIncludes
  <2>3. HasResourceType(r, e.resource)
    BY <2>2 DEF EvaluateRule, HasResourceType, All
  <2>4. \A ns \in c.namespaces : HasNamespace(r, ns)
    BY <1>2 DEF RuleIncludes
  <2>5. e.namespace = Unnamed \/ HasNamespace(r, e.namespace)
    BY <2>4 DEF EvaluateRule, HasNamespace, All
  <2>6. e.name = Unnamed \/ MatchesResourceName(r, e.name)
    <3>1. CASE e.name = Unnamed
      BY <3>1
    <3>2. CASE e.name # Unnamed
      <4>1. MatchesResourceName(c, e.name) /\ (All \in c.resources \/ e.resource \in c.resources)
        BY <3>2 DEF EvaluateRule, HasResourceType
      <4>2. CASE e.resource = "roles" /\ e.name \in rs
        BY <1>2, <4>1, <4>2 DEF RuleIncludes
      <4>3. CASE e.resource = "templates" /\ e.name \in ts
        BY <1>2, <4>1, <4>3 DEF RuleIncludes
      <4>4. QED
        BY <3>2, <4>2, <4>3 DEF Compared
    <3>3. QED
      BY <3>1, <3>2
  <2>7. QED
    BY <2>1, <2>3, <2>5, <2>6 DEF EvaluateRule
<1>3. QED
  BY <1>1, <1>2

-----------------------------------------------------------------------------
(* Every value the requests keep stays of its type.                        *)
LEMMA TypeStep == TypeOK /\ [Next]_vars => TypeOK'
<1> SUFFICES ASSUME TypeOK, [Next]_vars PROVE TypeOK'
  OBVIOUS
<1> USE PermissionsAssumption DEF TypeOK
<1>0. \A q \in Request : /\ q.target \in Name /\ q.rules \in SUBSET Rule /\ q.roles \in SUBSET Name
                         /\ q.on = "users" => q.target \in User
  BY DEF Request
<1>1. ASSUME NEW u \in User, Login(u) PROVE TypeOK'
  <2>1. UNION {roles[n] : n \in users[u] \cap Roles} \in SUBSET Rule
    BY DEF Roles
  <2>2. QED
    BY <1>1, <2>1 DEF Login
<1>2. ASSUME NEW u \in User, NEW q \in Request, Check(u, q) PROVE TypeOK'
  BY <1>2 DEF Check
<1>3. ASSUME NEW u \in User, WriteRole(u) PROVE TypeOK'
  BY <1>0, <1>3 DEF WriteRole, Asks, Done
<1>4. ASSUME NEW u \in User, DeleteRole(u) PROVE TypeOK'
  BY <1>0, <1>4 DEF DeleteRole, Asks, Done
<1>5. ASSUME NEW u \in User, CreateUser(u) PROVE TypeOK'
  BY <1>0, <1>5 DEF CreateUser, Asks, Done
<1>6. ASSUME NEW u \in User, UpdateUser(u) PROVE TypeOK'
  BY <1>0, <1>6 DEF UpdateUser, Asks, Done
<1>7. ASSUME NEW u \in User, DeleteUser(u) PROVE TypeOK'
  BY <1>0, <1>7 DEF DeleteUser, Asks, Done
<1>8. ASSUME NEW u \in User, CreateTemplate(u) PROVE TypeOK'
  BY <1>0, <1>8 DEF CreateTemplate, Asks, Done
<1>9. ASSUME NEW u \in User, DeleteTemplate(u) PROVE TypeOK'
  BY <1>0, <1>9 DEF DeleteTemplate, Asks, Done
<1>10. ASSUME NEW u \in User, Fails(u) PROVE TypeOK'
  BY <1>10 DEF Fails, Done
<1>11. CASE UNCHANGED vars
  BY <1>11 DEF vars
<1>12. QED
  BY <1>1, <1>2, <1>3, <1>4, <1>5, <1>6, <1>7, <1>8, <1>9, <1>10, <1>11 DEF Next, Handle

(* Fewer roles and templates are compared as time goes on, so what was     *)
(* within the reach stays there.                                           *)
LEMMA WithinStays ==
    ASSUME NEW rules, NEW rs, NEW ts, NEW rs2 \in SUBSET rs, NEW ts2 \in SUBSET ts,
           WithinReach(rules, rs, ts)
    PROVE  WithinReach(rules, rs2, ts2)
BY DEF WithinReach, Compared

(* Rules that are each included in one of a token within the reach are     *)
(* within the reach.                                                       *)
LEMMA IncludedWithin ==
    ASSUME NEW has \in SUBSET Rule, NEW rules \in SUBSET Rule, NEW rs, NEW ts,
           NEW rs2 \in SUBSET rs, NEW ts2 \in SUBSET ts, WithinReach(has, rs2, ts2),
           \A c \in rules : UserIncludesRule(has, c, rs, ts)
    PROVE  WithinReach(rules, rs2, ts2)
<1> SUFFICES ASSUME NEW a \in Action, Compared(a, rs2, ts2), EvaluateUser(rules, a)
             PROVE  a \in Reach
  BY DEF WithinReach
<1>1. PICK c \in rules : EvaluateRule(c, a)
  BY DEF EvaluateUser
<1>2. PICK r \in has : RuleIncludes(r, c, rs, ts)
  BY DEF UserIncludesRule
<1>3. Compared(a, rs, ts)
  BY DEF Compared
<1>4. EvaluateRule(r, a)
  BY <1>1, <1>2, <1>3, IncludedAllowsNoMore
<1>5. QED
  BY <1>2, <1>4 DEF WithinReach, EvaluateUser

(* The rules of several roles are within the reach if each role is.        *)
LEMMA UnionWithin ==
    ASSUME NEW S, NEW rs, NEW ts, \A rules \in S : WithinReach(rules, rs, ts)
    PROVE  WithinReach(UNION S, rs, ts)
BY DEF WithinReach, EvaluateUser

(* The inductive invariant behind ReachNeverGrows.                         *)
THEOREM InvariantHolds == Spec => []Inv
<1>1. Init => Inv
  <2> SUFFICES ASSUME Init PROVE Inv
    OBVIOUS
  <2> USE PermissionsAssumption DEF Init
  <2>1. TypeOK
    BY DEF TypeOK, Roles
  <2>2. \A u \in User : users[u] # Absent => \A n \in users[u] \cap Roles : Within(roles[n])
    BY DEF Within, WithinReach, Reach, Roles
  <2>3. QED
    BY <2>1, <2>2 DEF Inv, ReachNeverGrows
<1>2. Inv /\ [Next]_vars => Inv'
  <2> SUFFICES ASSUME Inv, [Next]_vars PROVE Inv'
    OBVIOUS
  <2> USE DEF Inv, Within
  <2>0. TypeOK'
    BY TypeStep
  <2>1. ASSUME NEW u \in User, Login(u) PROVE Inv'
    <3>1. steady' = steady /\ roles' = roles /\ templates' = templates /\ users' = users
          /\ pending' = pending /\ Roles' = Roles
      BY <2>1 DEF Login, Roles
    <3>2. \A rules : WithinReach(rules, steady.roles, steady.templates) =>
                         WithinReach(rules, steady'.roles, steady'.templates)
      BY <3>1, WithinStays DEF TypeOK
    <3>3. Within(UNION {roles[n] : n \in users[u] \cap Roles})
      BY <2>1, UnionWithin DEF Login
    <3>4. ASSUME NEW v \in User, token'[v] # NoToken PROVE Within(token[v])'
      <4>1. CASE v = u
        BY <2>1, <3>2, <3>3, <4>1 DEF Login, TypeOK
      <4>2. CASE v # u
        BY <2>1, <3>2, <3>4, <4>2 DEF Login, TypeOK, ReachNeverGrows
      <4>3. QED
        BY <4>1, <4>2
    <3>5. QED
      BY <2>0, <3>1, <3>2, <3>4 DEF ReachNeverGrows
  <2>2. ASSUME NEW u \in User, NEW q \in Request, Check(u, q) PROVE Inv'
    <3>1. steady' = steady /\ roles' = roles /\ templates' = templates /\ users' = users
          /\ token' = token /\ Roles' = Roles
      BY <2>2 DEF Check, Roles
    <3>2. \A rules : WithinReach(rules, steady.roles, steady.templates) =>
                         WithinReach(rules, steady'.roles, steady'.templates)
      BY <3>1, WithinStays DEF TypeOK
    <3>3. token[u] \in SUBSET Rule /\ Within(token[u])
      BY <2>2 DEF Check, TypeOK, ReachNeverGrows
    <3>4. q.rules \in SUBSET Rule /\ q.roles \in SUBSET Name
      BY PermissionsAssumption DEF Request
    <3>5. IsGrant(q) => MayGrant(token[u], q)
      BY <2>2 DEF Check, Admits
    <3>6. Within(q.rules)
      <4>1. CASE q.rules = {}
        BY <4>1 DEF WithinReach, EvaluateUser
      <4>2. CASE q.rules # {}
        <5>1. q.on = "roles" /\ q.method # "DELETE"
          BY <4>2 DEF Request
        <5>2. \A c \in q.rules : UserIncludesRule(token[u], c, Roles, templates)
          BY <3>5, <5>1 DEF IsGrant, MayGrant
        <5>3. QED
          BY <3>3, <3>4, <5>2, IncludedWithin
      <4>3. QED
        BY <4>1, <4>2
    <3>7. ASSUME NEW n \in q.roles \cap Roles PROVE Within(roles[n])
      <4>1. q.on = "users" /\ q.method # "DELETE"
        BY DEF Request
      <4>2. \A c \in roles[n] : UserIncludesRule(token[u], c, Roles, templates)
        BY <3>5, <4>1 DEF IsGrant, MayGrant
      <4>3. roles[n] \in SUBSET Rule
        BY <3>4 DEF Roles, TypeOK
      <4>4. QED
        BY <3>3, <4>2, <4>3, IncludedWithin
    <3>8. ASSUME NEW v \in User, pending'[v] # NoRequest
          PROVE  /\ Within(pending[v].rules)'
                 /\ \A n \in pending'[v].roles \cap Roles' : Within(roles[n])'
      <4>1. CASE v = u
        BY <2>2, <3>1, <3>2, <3>6, <3>7, <4>1 DEF Check, TypeOK
      <4>2. CASE v # u
        BY <2>2, <3>1, <3>2, <3>8, <4>2 DEF Check, TypeOK
      <4>3. QED
        BY <4>1, <4>2
    <3>9. \A v \in User : token'[v] # NoToken => Within(token[v])'
      BY <3>1, <3>2 DEF ReachNeverGrows
    <3>10. \A v \in User : users'[v] # Absent => \A n \in users'[v] \cap Roles' : Within(roles[n])'
      BY <3>1, <3>2
    <3>11. QED
      BY <2>0, <3>1, <3>8, <3>9, <3>10 DEF ReachNeverGrows
  <2>3. ASSUME NEW u \in User, Handle(u) PROVE Inv'
    <3>1. token' = token /\ steady'.roles \subseteq steady.roles
          /\ steady'.templates \subseteq steady.templates
      BY <2>3 DEF Handle, WriteRole, DeleteRole, CreateUser, UpdateUser, DeleteUser, CreateTemplate,
                  DeleteTemplate, Fails, TypeOK
    <3>2. \A rules : WithinReach(rules, steady.roles, steady.templates) =>
                         WithinReach(rules, steady'.roles, steady'.templates)
      BY <3>1, WithinStays DEF TypeOK
    <3>3. pending[u] \in Request /\ pending[u] # NoRequest
      BY <2>3 DEF Handle, WriteRole, DeleteRole, CreateUser, UpdateUser, DeleteUser, CreateTemplate,
                  DeleteTemplate, Fails, TypeOK, Asks
    <3>4. \A v \in User : pending'[v] # NoRequest => pending'[v] = pending[v]
      BY <2>3 DEF Handle, WriteRole, DeleteRole, CreateUser, UpdateUser, DeleteUser, CreateTemplate,
                  DeleteTemplate, Fails, TypeOK, Done
    <3>5. steady'.roles \subseteq Roles' /\ steady'.templates \subseteq templates'
      <4>1. CASE WriteRole(u)
        <5>1. \A n \in Name : roles'[n] = roles[n] \/ roles'[n] = pending[u].rules
          BY <4>1 DEF WriteRole, TypeOK
        <5>2. pending[u].rules # Absent
          BY <3>3, PermissionsAssumption, <4>1 DEF Request, WriteRole, Asks
        <5>3. QED
          BY <4>1, <5>1, <5>2 DEF WriteRole, Roles
      <4>2. CASE DeleteRole(u)
        BY <4>2 DEF DeleteRole, Roles, TypeOK
      <4>3. CASE DeleteTemplate(u)
        BY <4>3 DEF DeleteTemplate, Roles, TypeOK
      <4>4. CASE CreateUser(u) \/ UpdateUser(u) \/ DeleteUser(u) \/ CreateTemplate(u) \/ Fails(u)
        BY <4>4 DEF CreateUser, UpdateUser, DeleteUser, CreateTemplate, Fails, Roles
      <4>5. QED
        BY <2>3, <4>1, <4>2, <4>3, <4>4 DEF Handle
    <3>6. \A n \in Roles' : roles'[n] = pending[u].rules \/ (n \in Roles /\ roles'[n] = roles[n])
      BY <2>3 DEF Handle, WriteRole, DeleteRole, CreateUser, UpdateUser, DeleteUser, CreateTemplate,
                  DeleteTemplate, Fails, Roles, TypeOK
    <3>7. \A n \in Roles' : (n \in Roles => Within(roles[n])) => Within(roles[n])'
      BY <3>2, <3>3, <3>6
    <3>8. \A v \in User : users'[v] # Absent =>
            \/ users[v] # Absent /\ users'[v] = users[v]
            \/ users'[v] = pending[u].roles
      BY <2>3 DEF Handle, WriteRole, DeleteRole, CreateUser, UpdateUser, DeleteUser, CreateTemplate,
                  DeleteTemplate, Fails, TypeOK
    <3>9. \A v \in User : users'[v] # Absent => \A n \in users'[v] \cap Roles' : Within(roles[n])'
      BY <3>3, <3>7, <3>8
    <3>10. \A v \in User : pending'[v] # NoRequest =>
             /\ Within(pending[v].rules)'
             /\ \A n \in pending'[v].roles \cap Roles' : Within(roles[n])'
      BY <3>2, <3>4, <3>7
    <3>11. \A v \in User : token'[v] # NoToken => Within(token[v])'
      BY <3>1, <3>2 DEF ReachNeverGrows
    <3>12. QED
      BY <2>0, <3>5, <3>9, <3>10, <3>11 DEF ReachNeverGrows
  <2>4. CASE UNCHANGED vars
    BY <2>0, <2>4 DEF vars, ReachNeverGrows, Roles
  <2>5. QED
    BY <2>1, <2>2, <2>3, <2>4 DEF Next
<1>3. QED
  BY <1>1, <1>2, PTL DEF Spec

(* However users act on roles, users and templates through the API, none   *)
(* of them comes to be allowed what none of them was allowed at the start. *)
THEOREM ReachStays == Spec => []ReachNeverGrows
<1>1. Inv => ReachNeverGrows
  BY DEF Inv
<1>2. QED
  BY <1>1, InvariantHolds, PTL

(* A session that may be launched can be chosen in the UI, for any rules.  *)
THEOREM LaunchesListed == Spec => []LaunchesAreListed
<1>1. LaunchesAreListed
  <2> SUFFICES ASSUME NEW u \in User, NEW t \in templates, NEW ns \in Namespace, NEW sa \in Name,
                      EvaluateUser(token[u], Launch(t, ns)), EvaluateUser(token[u], Use(sa, ns))
               PROVE  /\ t \in FilterTemplates(token[u], templates)
                      /\ ns \in FilterUserNamespaces(token[u], Namespace)
                      /\ sa \in FilterUserServiceAccounts(token[u], Name, ns)
    BY DEF LaunchesAreListed
  <2>1. PICK r \in token[u] : EvaluateRule(r, Launch(t, ns))
    BY DEF EvaluateUser
  <2>2. EvaluateRule(r, Launch(t, Unnamed)) /\ EvaluateRule(r, Launch(Unnamed, ns))
    BY <2>1 DEF EvaluateRule, AsEvaluated, Launch
  <2>3. QED
    BY <2>1, <2>2 DEF EvaluateUser, FilterTemplates, FilterUserNamespaces, FilterUserServiceAccounts
<1>2. QED
  BY <1>1, PTL

-----------------------------------------------------------------------------
(* The tables of RequestGate. *)

(* Only GET of the other methods has an entry for a websocket; every other *)
(* route has one.                                                          *)
LEMMA RoutesAreGranted ==
    ASSUME NEW path, NEW method, <<path, method>> \in Protected,
           ~ (path \in Websockets /\ method # "GET")
    PROVE  <<path, method>> \in GrantedMethods
BY DEF Protected, GrantedMethods, AnyMethod

(* What is asserted of a request is what it was decoded to.                *)
LEMMA AssertsDecoded ==
    ASSUME NEW path, NEW method, <<path, method>> \in Routes
    PROVE  /\ HandlerAsserts(path, method) \in {None, Decoders(path, method)}
           /\ NameAsserts(path, method) \in {None, Decoders(path, method)}
<1>1. CASE <<path, method>> \in Open
  BY <1>1 DEF Open, AnyMethod, HandlerAsserts, NameAsserts, Decoders, None
<1>2. CASE <<path, method>> \in Protected
  <2>1. path \in {"authorize", "users/{user}/mfa/verify"} => method \in {"POST", "PUT"}
    BY <1>2 DEF Protected, Websockets, Session, Logs, FsStat, FsGet, FsPut, Display, Audio
  <2>2. path = "authorize" => method = "POST"
    BY <1>2 DEF Protected, Websockets, Session, Logs, FsStat, FsGet, FsPut, Display, Audio
  <2>3. path = "users/{user}/mfa/verify" => method = "PUT"
    BY <1>2 DEF Protected, Websockets, Session, Logs, FsStat, FsGet, FsPut, Display, Audio
  <2>4. HandlerAsserts(path, method) \in {None, Decoders(path, method)}
    BY <2>2, <2>3 DEF HandlerAsserts, Decoders, None
  <2>5. NameAsserts(path, method) \in {None, Decoders(path, method)}
    BY DEF NameAsserts, Decoders, None
  <2>6. QED
    BY <2>4, <2>5
<1>3. QED
  BY <1>1, <1>2 DEF Routes

(* What the REST client asks for is there, is of the type it sends, and    *)
(* passes the checks of who may hand what on.                              *)
LEMMA ClientIsServed ==
    ASSUME NEW c \in ClientCalls
    PROVE  /\ <<c[1], c[2]>> \in Routes
           /\ Decoders(c[1], c[2]) \in {None, c[3]}
           /\ ExtraCheck(c[1], c[2], Decoders(c[1], c[2]))
           /\ ~ (c[1] \in Websockets /\ c[2] # "GET")
<1> DEFINE got == {"version", "config", "namespaces", "serviceaccounts/{namespace}", "whoami",
                   "refresh_token", "sessions", "roles", "roles/{role}", "templates",
                   "templates/{template}", "users", "users/{user}", Display, Audio, FsStat, FsGet}
           deleted == {Session, "roles/{role}", "templates/{template}", "users/{user}"}
           sent == {<<"logout", "POST", None>>, <<FsPut, "PUT", None>>,
                    <<"login", "POST", "LoginRequest">>, <<"sessions", "POST", "CreateSessionRequest">>,
                    <<"roles", "POST", "CreateRoleRequest">>, <<"roles/{role}", "PUT", "UpdateRoleRequest">>,
                    <<"templates", "POST", "Template">>, <<"templates/{template}", "PUT", "Template">>,
                    <<"users", "POST", "CreateUserRequest">>, <<"users/{user}", "PUT", "UpdateUserRequest">>}
<1>0. \/ c \in got \X {"GET"} \X {None}
      \/ c \in deleted \X {"DELETE"} \X {None}
      \/ c \in sent
  BY DEF ClientCalls
<1> USE DEF None, Session, FsStat, FsGet, FsPut, Display, Audio
<1>1. CASE c \in got \X {"GET"} \X {None}
  <2>1. c[1] \in got /\ c[2] = "GET" /\ c[3] = None
    BY <1>1
  <2>2. <<c[1], c[2]>> \in Routes
    BY <2>1 DEF Routes, Open, Protected, Websockets, AnyMethod
  <2>3. Decoders(c[1], c[2]) = None
    BY <2>1 DEF Decoders
  <2>4. QED
    BY <2>1, <2>2, <2>3 DEF ExtraCheck
<1>2. CASE c \in deleted \X {"DELETE"} \X {None}
  <2>1. c[1] \in deleted /\ c[2] = "DELETE" /\ c[3] = None
    BY <1>2
  <2>2. <<c[1], c[2]>> \in Routes
    BY <2>1 DEF Routes, Protected
  <2>3. Decoders(c[1], c[2]) = None
    BY <2>1 DEF Decoders
  <2>4. c[1] \notin Websockets
    BY <2>1 DEF Websockets
  <2>5. QED
    BY <2>1, <2>2, <2>3, <2>4 DEF ExtraCheck
<1>3. CASE c \in sent
  <2>1. \/ c[1] = "logout" /\ c[2] = "POST" /\ c[3] = None
        \/ c[1] = FsPut /\ c[2] = "PUT" /\ c[3] = None
        \/ c[1] = "login" /\ c[2] = "POST" /\ c[3] = "LoginRequest"
        \/ c[1] = "sessions" /\ c[2] = "POST" /\ c[3] = "CreateSessionRequest"
        \/ c[1] = "roles" /\ c[2] = "POST" /\ c[3] = "CreateRoleRequest"
        \/ c[1] = "roles/{role}" /\ c[2] = "PUT" /\ c[3] = "UpdateRoleRequest"
        \/ c[1] = "templates" /\ c[2] = "POST" /\ c[3] = "Template"
        \/ c[1] = "templates/{template}" /\ c[2] = "PUT" /\ c[3] = "Template"
        \/ c[1] = "users" /\ c[2] = "POST" /\ c[3] = "CreateUserRequest"
        \/ c[1] = "users/{user}" /\ c[2] = "PUT" /\ c[3] = "UpdateUserRequest"
    <3>1. ASSUME NEW x, NEW y, NEW z, c = <<x, y, z>> PROVE c[1] = x /\ c[2] = y /\ c[3] = z
      BY <3>1
    <3>2. QED
      BY <1>3, <3>1
  <2>2. <<c[1], c[2]>> \in Routes
    BY <2>1 DEF Routes, Open, Protected
  <2>3. Decoders(c[1], c[2]) \in {None, c[3]}
    BY <2>1 DEF Decoders
  <2>4. c[1] \notin Websockets
    BY <2>1 DEF Websockets
  <2>5. ExtraCheck(c[1], c[2], Decoders(c[1], c[2]))
    BY DEF ExtraCheck, Known, Decoders
  <2>6. QED
    BY <2>2, <2>3, <2>4, <2>5
<1>4. QED
  BY <1>0, <1>1, <1>2, <1>3

(* A request on its way has a route and is decoded as its type is listed;  *)
(* and what the client asks for, allowed to, gets served.                  *)
Asked == /\ \E c \in ClientCalls : call.path = c[1] /\ call.method = c[2]
         /\ call.body = "full" /\ call.token = "authorized" /\ call.grants

OnItsWay ==
    /\ call = [path |-> call.path, method |-> call.method, body |-> call.body, token |-> call.token,
               own |-> call.own, grants |-> call.grants, at |-> call.at, answer |-> call.answer,
               object |-> call.object]
    /\ call.at \in {"decode", "session", "grants", "handle", "done"}
    /\ call.at # "done" => <<call.path, call.method>> \in Routes /\ call.answer = None
    /\ call.at \in {"session", "grants"} => <<call.path, call.method>> \in Protected
    /\ call.at = "decode" => call.object = None
    /\ call.at \in {"session", "grants", "handle"} => call.object = Decoders(call.path, call.method)

NoneAstray ==
    /\ call.answer # "panic"
    /\ call.answer = "no grants known" => call.path \in Websockets /\ call.method # "GET"
    /\ call.object \in {None, Decoders(call.path, call.method)}
    /\ Asked /\ call.at = "done" => call.answer = "served"

GateInv == OnItsWay /\ NoneAstray

LEMMA GateStarts == CallInit => GateInv
<1> SUFFICES ASSUME CallInit PROVE GateInv
  OBVIOUS
<1>1. PICK p \in {r[1] : r \in Routes}, m \in AnyMethod, b \in {"full", "zero", "misfit", "broken"},
           t \in {"missing", "stale", "partial", "authorized"}, o \in BOOLEAN, g \in BOOLEAN :
        call = [path |-> p, method |-> m, body |-> b, token |-> t, own |-> o, grants |-> g,
                at |-> IF <<p, m>> \in Routes THEN "decode" ELSE "done",
                answer |-> IF <<p, m>> \in Routes THEN None ELSE "no such route", object |-> None]
  BY DEF CallInit
<1>3. OnItsWay
  BY <1>1 DEF OnItsWay, None
<1>4. Asked => <<p, m>> \in Routes
  BY <1>1, ClientIsServed DEF Asked
<1>5. NoneAstray
  BY <1>1, <1>4 DEF NoneAstray, None
<1>6. QED
  BY <1>3, <1>5 DEF GateInv

LEMMA GateStep == GateInv /\ [CallNext]_call => GateInv'
<1> SUFFICES ASSUME GateInv, [CallNext]_call PROVE GateInv'
  OBVIOUS
<1> DEFINE p == call.path
           m == call.method
<1>1. OnItsWay /\ NoneAstray
  BY DEF GateInv
<1>w. Asked => /\ <<p, m>> \in Routes
               /\ ExtraCheck(p, m, Decoders(p, m)) /\ ~ (p \in Websockets /\ m # "GET")
               /\ call.body = "full" /\ call.token = "authorized" /\ call.grants
  BY ClientIsServed DEF Asked
<1> HIDE DEF p, m
<1>2. CASE DecodeRequest
  <2> DEFINE type == Decoders(p, m)
             next == IF <<p, m>> \in Protected THEN "session" ELSE "handle"
  <2>1. call.at = "decode" /\ <<p, m>> \in Routes /\ call.answer = None /\ call.object = None
    BY <1>1, <1>2 DEF DecodeRequest, OnItsWay, p, m
  <2>2. CASE type # None /\ ~ Valid(type, call.body)
    <3>1. call' = [call EXCEPT !.at = "done", !.answer = "bad request"] /\ call.body # "full"
      BY <1>2, <2>2 DEF DecodeRequest, Answer, Valid, p, m
    <3>2. QED
      BY <1>1, <2>1, <3>1 DEF GateInv, OnItsWay, NoneAstray, Asked, None
  <2>3. CASE type = None \/ Valid(type, call.body)
    <3>1. call' = [call EXCEPT !.object = type, !.at = next]
      BY <1>1, <1>2, <2>1, <2>3 DEF DecodeRequest, Onward, OnItsWay, p, m
    <3>2. QED
      BY <1>1, <2>1, <3>1 DEF GateInv, OnItsWay, NoneAstray, Asked, None, p, m
  <2>4. QED
    BY <2>2, <2>3
<1>3. CASE ValidateUserSession
  <2>1. call.at = "session" /\ <<p, m>> \in Routes /\ <<p, m>> \in Protected
        /\ call.answer = None /\ call.object = Decoders(p, m)
    BY <1>1, <1>3 DEF ValidateUserSession, OnItsWay, p, m
  <2>2. \/ call' = [call EXCEPT !.at = "done", !.answer = "forbidden"] /\ ~ Asked
        \/ call' = [call EXCEPT !.at = "done", !.answer = "unauthorized"] /\ ~ Asked
        \/ call' = [call EXCEPT !.at = "grants"]
    BY <1>3, <1>w DEF ValidateUserSession, Answer
  <2>3. QED
    BY <1>1, <2>1, <2>2 DEF GateInv, OnItsWay, NoneAstray, Asked, None, p, m
<1>4. CASE ValidateUserGrants
  <2>1. call.at = "grants" /\ <<p, m>> \in Routes /\ <<p, m>> \in Protected
        /\ call.answer = None /\ call.object = Decoders(p, m)
    BY <1>1, <1>4 DEF ValidateUserGrants, OnItsWay, p, m
  <2>2. NameAsserts(p, m) \in {None, call.object}
    BY <2>1, AssertsDecoded
  <2>3. CASE <<p, m>> \notin GrantedMethods
    <3>1. call' = [call EXCEPT !.at = "done", !.answer = "no grants known"]
      BY <1>4, <2>3 DEF ValidateUserGrants, Answer, p, m
    <3>2. p \in Websockets /\ m # "GET"
      BY <2>1, <2>3, RoutesAreGranted
    <3>3. QED
      BY <1>1, <1>w, <2>1, <3>1, <3>2 DEF GateInv, OnItsWay, NoneAstray, Asked, None, p, m
  <2>4. CASE <<p, m>> \in GrantedMethods
    <3>1. \/ call' = [call EXCEPT !.at = "handle"]
          \/ call' = [call EXCEPT !.at = "done", !.answer = "forbidden"] /\ ~ Asked
      BY <1>4, <1>w, <2>1, <2>2, <2>4 DEF ValidateUserGrants, Answer, p, m
    <3>2. QED
      BY <1>1, <2>1, <3>1 DEF GateInv, OnItsWay, NoneAstray, Asked, None, p, m
  <2>5. QED
    BY <2>3, <2>4
<1>5. CASE HandleCall
  <2>1. call.at = "handle" /\ <<p, m>> \in Routes /\ call.answer = None /\ call.object = Decoders(p, m)
    BY <1>1, <1>5 DEF HandleCall, OnItsWay, p, m
  <2>2. HandlerAsserts(p, m) \in {None, call.object}
    BY <2>1, AssertsDecoded
  <2>3. call' = [call EXCEPT !.at = "done", !.answer = "served"]
    BY <1>5, <2>2 DEF HandleCall, Answer, p, m
  <2>4. QED
    BY <1>1, <2>1, <2>3 DEF GateInv, OnItsWay, NoneAstray, Asked, None, p, m
<1>6. CASE UNCHANGED call
  BY <1>1, <1>6 DEF GateInv, OnItsWay, NoneAstray, Asked
<1>7. QED
  BY <1>2, <1>3, <1>4, <1>5, <1>6 DEF CallNext

(* The four tables agree on every request.                                 *)
THEOREM TablesAgreeHolds == CallSpec => []TablesAgree
<1>1. GateInv => TablesAgree
  <2> SUFFICES ASSUME GateInv PROVE TablesAgree
    OBVIOUS
  <2>1. NoneAstray
    BY DEF GateInv
  <2>2. ASSUME NEW c \in ClientCalls, call.path = c[1], call.method = c[2], call.at = "done",
               call.body = "full", call.token = "authorized", call.grants
        PROVE  call.answer = "served" /\ (call.object # None => call.object = c[3])
    BY <2>1, <2>2, ClientIsServed DEF NoneAstray, Asked
  <2>3. QED
    BY <2>1, <2>2 DEF TablesAgree, NoneAstray
<1>2. QED
  BY <1>1, GateStarts, GateStep, PTL DEF CallSpec
=============================================================================
