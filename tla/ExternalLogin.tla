--------------------------- MODULE ExternalLogin ---------------------------
(***************************************************************************)
(* Logging in with the account of somebody else's directory: the providers *)
(* of pkg/auth/providers for OpenID Connect, LDAP and webmesh. All three   *)
(* make the roles of a user from annotations of VDIRoles that name groups; *)
(* LDAP does so in three places.                                           *)
(*                                                                         *)
(* OpenID Connect takes three requests: a POST with a state is sent to the *)
(* provider, whose callback saves the claims under the state, and another  *)
(* POST picks them up. Each may reach another replica of the app, and each *)
(* replica has a cache of secrets. Of the lock that the writes hold, the   *)
(* one of SecretEngine, only the mutex of the replica is here: the lock    *)
(* between the replicas lapses, and nothing below depends on it.           *)
(***************************************************************************)
EXTENDS Naturals, SequencesExt

CONSTANTS Replica, Post, Visit,   \* replicas, POST requests, visits to the provider
          State, Person, Group,
          RoleNames,     \* the roles, in the order they are listed in
          Blank,         \* what the annotation "" or a stray separator yields
          Launch,        \* the role the cluster gives to whoever has no groups
          Nothing,       \* no claims, no annotation, no groups
          MaxTroubles    \* bound: calls that fail

ASSUME ExternalAssumption ==
    /\ RoleNames \in Seq(ToSet(RoleNames)) /\ IsInjective(RoleNames)
    /\ IsFiniteSet(Person) /\ Nothing \notin Seq(ToSet(RoleNames))
    /\ Blank \notin Group /\ Launch \in ToSet(RoleNames) /\ MaxTroubles \in Nat

VARIABLES directory,  \* the groups and the status of each person, the settings, the annotations
          stored,     \* the claims saved under each state
          cached,     \* and what the cache of each replica has of them
          mutex,      \* mutex[e]: who has the mutex of the secret engine of e
          post, visit,
          clean,      \* history: states whose claims each replica handed out last
          troubles

oidcVars == <<stored, cached, mutex, post, visit, clean, troubles>>
externalVars == <<directory, oidcVars>>

-----------------------------------------------------------------------------
(* The roles. The groups of an annotation are a sequence, the groups of a  *)
(* person a set; Nothing are the groups of somebody LDAP has no entry for, *)
(* or whose claims have none.                                              *)
RoleSet == ToSet(RoleNames)
Users == Seq([name : Person, roles : Seq(RoleSet)])

Directories ==
    [groups : [Person -> SUBSET Group \cup {Nothing}], disabled : SUBSET Person,
     checked : BOOLEAN,   \* doStatusCheck
     allowed : BOOLEAN,   \* allowNonGroupedReadOnly
     notes : [RoleSet -> Seq(Group \cup {Blank}) \cup {Nothing}],
     alike : SUBSET (Group \X Group),   \* an annotation and the groups the server takes it for
     unfit : SUBSET Group]              \* annotations that make no filter

Annotated(r) == IF directory.notes[r] = Nothing THEN <<>> ELSE directory.notes[r]
AppendIfMissing(s, x) == IF Contains(s, x) THEN s ELSE Append(s, x)

(* What n rounds of a loop make of start: step[i] is the round i. *)
Loop(n, start, step) ==
    LET after[i \in 0..n] == IF i = 0 THEN start ELSE step[i][after[i - 1]]
    IN  after[n]

(* The loops over the roles that append those with a property. *)
Listed(R) ==
    Loop(Len(RoleNames), <<>>, [i \in DOMAIN RoleNames |-> [names \in Seq(RoleSet) |->
      IF RoleNames[i] \in R THEN Append(names, RoleNames[i]) ELSE names]])

(* The same in ldap and in oidc. *)
AppendRoleIfBound(bound, groups, r) ==
    Loop(Len(Annotated(r)), bound, [i \in DOMAIN Annotated(r) |-> [names \in Seq(RoleSet) |->
      IF Annotated(r)[i] # Blank /\ Annotated(r)[i] \in groups THEN AppendIfMissing(names, r)
                                                              ELSE names]])

BoundRoles(groups) ==
    Loop(Len(RoleNames), <<>>, [i \in DOMAIN RoleNames |-> [names \in Seq(RoleSet) |->
      AppendRoleIfBound(names, groups, RoleNames[i])]])

FilterUserRolesByNames(names) ==
    Loop(Len(names), <<>>, [i \in DOMAIN names |-> [found \in Seq(RoleSet) |->
      found \o Listed({names[i]})]])

(* With the right password; Nothing is a refusal. *)
LdapAuthenticate(p) ==
    IF directory.groups[p] = Nothing \/ (directory.checked /\ p \in directory.disabled)
      THEN Nothing ELSE FilterUserRolesByNames(BoundRoles(directory.groups[p]))

(* GetUser, which a refresh of the tokens calls. *)
LdapGetUser(p) ==
    IF directory.groups[p] = Nothing
      THEN Nothing
      ELSE Listed({r \in RoleSet : \E g \in ToSet(Annotated(r)) \ {Blank} : g \in directory.groups[p]})

(* Broken AppendUser: a user in two groups of a role gets the role twice.  *)
AppendUserTwice(users, p, r) ==
    LET places == {i \in DOMAIN users : users[i].name = p} IN
    IF places = {} THEN Append(users, [name |-> p, roles |-> <<r>>])
    ELSE [i \in DOMAIN users |-> IF i \in places THEN [users[i] EXCEPT !.roles = Append(@, r)]
                                                 ELSE users[i]]

AppendUser(users, p, r) ==
    LET places == {i \in DOMAIN users : users[i].name = p} IN
    IF places = {} THEN Append(users, [name |-> p, roles |-> <<r>>])
    ELSE [i \in DOMAIN users |->
            IF i \in places THEN [users[i] EXCEPT !.roles = AppendIfMissing(@, r)] ELSE users[i]]

(* The search for the members of a group. The annotation is put into the   *)
(* filter as it is, and the server compares as it does names: it takes no  *)
(* notice of case and of some blanks, and * is any group.                  *)
IsIn(p, g) == directory.groups[p] # Nothing /\ \E h \in directory.groups[p] : <<g, h>> \in directory.alike
Members(g) == SetToSeq({p \in Person : IsIn(p, g)})

(* Three loops, one in the other. *)
AppendMembers(before, g, r) ==
    Loop(Len(Members(g)), before, [i \in DOMAIN Members(g) |-> [users \in Users |->
      AppendUser(users, Members(g)[i], r)]])

AppendGroups(before, r) ==
    Loop(Len(Annotated(r)), before, [i \in DOMAIN Annotated(r) |-> [users \in Users |->
      IF Annotated(r)[i] = Blank THEN users ELSE AppendMembers(users, Annotated(r)[i], r)]])

AllUsers ==
    Loop(Len(RoleNames), <<>>, [i \in DOMAIN RoleNames |-> [users \in Users |->
      AppendGroups(users, RoleNames[i])]])

(* A filter that cannot be parsed ends the list with an error. *)
LdapGetUsers ==
    IF \E r \in RoleSet : ToSet(Annotated(r)) \cap directory.unfit # {} THEN Nothing ELSE AllUsers

(* The name of a group may be empty here. *)
WebmeshAuthenticate(groups) ==
    FilterUserRolesByNames(Listed({r \in RoleSet : \E g \in ToSet(Annotated(r)) : g \in groups}))

OidcRoles(p) ==
    IF directory.groups[p] # Nothing THEN FilterUserRolesByNames(BoundRoles(directory.groups[p]))
    ELSE IF directory.allowed THEN <<Launch>> ELSE Nothing

-----------------------------------------------------------------------------
(* OpenID Connect. *)
ClaimsOf(v, p) == [visit |-> v, person |-> p, roles |-> OidcRoles(p)]
NoPost == [at |-> "none", replica |-> Nothing, state |-> Nothing, claims |-> Nothing]

ExternalInit ==
    /\ stored = [s \in State |-> Nothing]
    /\ cached = [e \in Replica |-> [s \in State |-> Nothing]]
    /\ mutex = [e \in Replica |-> Nothing]
    /\ post = [q \in Post |-> NoPost] /\ visit = [v \in Visit |-> NoPost]
    /\ clean = [e \in Replica |-> {}] /\ troubles = 0

PostAt(q, place) == post[q].at = place
PostGoes(q, place) == post' = [post EXCEPT ![q].at = place]
PostEnds(q, place) ==
    post' = [post EXCEPT ![q] = [NoPost EXCEPT !.at = place, !.state = post[q].state]]
VisitAt(v, place) == visit[v].at = place
VisitGoes(v, place) == visit' = [visit EXCEPT ![v].at = place]
VisitEnds(v, place) == visit' = [visit EXCEPT ![v] = [NoPost EXCEPT !.at = place]]

Mutex(e, who) == mutex' = [mutex EXCEPT ![e] = who]
Cache(e, s, claims) == cached' = [cached EXCEPT ![e][s] = claims]
Trouble == troubles < MaxTroubles /\ troubles' = troubles + 1

(* PostLogin with a state, at some replica, perhaps of a browser that was  *)
(* redirected before.                                                      *)
BeginPost(q) ==
    \E e \in Replica, s \in State :
        /\ post[q].at \in {"none", "redirected"}
        /\ post' = [post EXCEPT ![q] = [at |-> "read", replica |-> e, state |-> s, claims |-> Nothing]]
        /\ UNCHANGED <<stored, cached, mutex, visit, clean, troubles>>

(* ReadSecret, from the cache if it is there; without claims the client is *)
(* sent to the provider.                                                   *)
ReadState(q) ==
    LET e == post[q].replica
        s == post[q].state
    IN
    /\ PostAt(q, "read")
    /\ post' = [post EXCEPT ![q] =
         IF cached[e][s] # Nothing THEN [@ EXCEPT !.at = "lock", !.claims = cached[e][s]]
         ELSE IF stored[s] # Nothing THEN [@ EXCEPT !.at = "cache", !.claims = stored[s]]
         ELSE [@ EXCEPT !.at = "redirected", !.replica = Nothing]]
    /\ UNCHANGED <<stored, cached, mutex, visit, clean, troubles>>

WriteCache(q) ==
    /\ PostAt(q, "cache")
    /\ Cache(post[q].replica, post[q].state, post[q].claims)
    /\ PostGoes(q, "lock")
    /\ UNCHANGED <<stored, mutex, visit, clean, troubles>>

LockToClear(q) ==
    /\ PostAt(q, "lock") /\ mutex[post[q].replica] = Nothing
    /\ Mutex(post[q].replica, q)
    /\ PostGoes(q, "clear")
    /\ UNCHANGED <<stored, cached, visit, clean, troubles>>

(* Lock fails: the client is told "Invalid credentials", the cache stays   *)
(* as it is, and the mutex of the replica stays locked.                    *)
LockFails(q) ==
    /\ PostAt(q, "lock") /\ mutex[post[q].replica] = Nothing
    /\ Trouble
    /\ Mutex(post[q].replica, q)
    /\ PostGoes(q, "left")
    /\ UNCHANGED <<stored, cached, visit, clean>>

Clear(q) ==
    /\ PostAt(q, "clear")
    /\ stored' = [stored EXCEPT ![post[q].state] = Nothing]
    /\ PostGoes(q, "forget")
    /\ UNCHANGED <<cached, mutex, visit, clean, troubles>>

(* The call fails, perhaps after it cleared the claims; the cache stays.   *)
ClearFails(q) ==
    /\ PostAt(q, "clear")
    /\ Trouble
    /\ stored' \in {stored, [stored EXCEPT ![post[q].state] = Nothing]}
    /\ Mutex(post[q].replica, Nothing)
    /\ PostGoes(q, "left")
    /\ UNCHANGED <<cached, visit, clean>>

(* Broken Forget: WriteSecret leaves the cache alone when it deletes.      *)
ForgetNothing(q) ==
    /\ PostAt(q, "forget")
    /\ clean' = [clean EXCEPT ![post[q].replica] = @ \cup {post[q].state}]
    /\ Mutex(post[q].replica, Nothing)
    /\ PostEnds(q, "served")
    /\ UNCHANGED <<stored, cached, visit, troubles>>

(* The cache is written with nothing, the lock released, and the claims    *)
(* are the client's.                                                       *)
Forget(q) ==
    /\ PostAt(q, "forget")
    /\ Cache(post[q].replica, post[q].state, Nothing)
    /\ clean' = [clean EXCEPT ![post[q].replica] = @ \cup {post[q].state}]
    /\ Mutex(post[q].replica, Nothing)
    /\ PostEnds(q, "served")
    /\ UNCHANGED <<stored, visit, troubles>>

ReadFails(q) ==
    /\ PostAt(q, "read") /\ cached[post[q].replica][post[q].state] = Nothing
    /\ Trouble
    /\ PostEnds(q, "error")
    /\ UNCHANGED <<stored, cached, mutex, visit, clean>>

-----------------------------------------------------------------------------
(* Somebody who was sent to the provider signs in there, and the browser   *)
(* comes back with a code: the callback, a GET at some replica.            *)
SignIn(v) ==
    \E q \in Post, e \in Replica, p \in Person :
        /\ VisitAt(v, "none") /\ PostAt(q, "redirected")
        /\ visit' = [visit EXCEPT ![v] =
             [at |-> "exchange", replica |-> e, state |-> post[q].state, claims |-> ClaimsOf(v, p)]]
        /\ UNCHANGED <<stored, cached, mutex, post, clean, troubles>>

(* The code is exchanged for the claims; without groups the person may be  *)
(* refused.                                                                *)
Exchange(v) ==
    /\ VisitAt(v, "exchange")
    /\ IF visit[v].claims.roles = Nothing THEN VisitEnds(v, "error") ELSE VisitGoes(v, "lock")
    /\ UNCHANGED <<stored, cached, mutex, post, clean, troubles>>

(* Without an id_token, Authenticate returns no error: the browser is sent  *)
(* home, and nothing was saved.                                            *)
NoIdToken(v) ==
    /\ VisitAt(v, "exchange") /\ Trouble
    /\ VisitEnds(v, "home")
    /\ UNCHANGED <<stored, cached, mutex, post, clean>>

LockToSave(v) ==
    /\ VisitAt(v, "lock") /\ mutex[visit[v].replica] = Nothing
    /\ Mutex(visit[v].replica, v)
    /\ VisitGoes(v, "save")
    /\ UNCHANGED <<stored, cached, post, clean, troubles>>

Save(v) ==
    /\ VisitAt(v, "save")
    /\ stored' = [stored EXCEPT ![visit[v].state] = visit[v].claims]
    /\ VisitGoes(v, "cache")
    /\ UNCHANGED <<cached, mutex, post, clean, troubles>>

(* The browser is sent home, where it will POST its state again. *)
Remember(v) ==
    /\ VisitAt(v, "cache")
    /\ Cache(visit[v].replica, visit[v].state, visit[v].claims)
    /\ clean' = [clean EXCEPT ![visit[v].replica] = @ \ {visit[v].state}]
    /\ Mutex(visit[v].replica, Nothing)
    /\ VisitEnds(v, "home")
    /\ UNCHANGED <<stored, post, troubles>>

VisitFails(v) ==
    /\ Trouble /\ VisitEnds(v, "error")
    /\ \/ VisitAt(v, "exchange") /\ UNCHANGED <<stored, mutex>>
       \/ /\ VisitAt(v, "lock") /\ mutex[visit[v].replica] = Nothing
          /\ Mutex(visit[v].replica, v) /\ UNCHANGED stored
       \/ /\ VisitAt(v, "save")
          /\ stored' \in {stored, [stored EXCEPT ![visit[v].state] = visit[v].claims]}
          /\ Mutex(visit[v].replica, Nothing)
    /\ UNCHANGED <<cached, post, clean>>

(* What a cache has is good for an hour. *)
ExpireCached ==
    \E e \in Replica, s \in State :
        /\ cached[e][s] # Nothing /\ Cache(e, s, Nothing)
        /\ UNCHANGED <<stored, mutex, post, visit, clean, troubles>>

OidcNext ==
    \/ \E q \in Post : BeginPost(q) \/ ReadState(q) \/ ReadFails(q) \/ WriteCache(q)
                       \/ LockToClear(q) \/ LockFails(q) \/ Clear(q) \/ ClearFails(q) \/ Forget(q)
    \/ \E v \in Visit : SignIn(v) \/ Exchange(v) \/ NoIdToken(v) \/ LockToSave(v) \/ Save(v) \/ Remember(v)
                        \/ VisitFails(v)
    \/ ExpireCached

ExternalSpec ==
    ExternalInit /\ directory \in Directories /\ [][OidcNext /\ UNCHANGED directory]_externalVars

-----------------------------------------------------------------------------
(* Whether the server finds somebody in a group, and in no more than it    *)
(* lists for it when asked for its entry.                                  *)
Finds(p, g) == g \in directory.groups[p] => IsIn(p, g)
FindsTooMuch(p, g) == IsIn(p, g) /\ g \notin directory.groups[p]
AllNoted == UNION {ToSet(Annotated(r)) \ {Blank} : r \in RoleSet}

(* The three places that make roles of the groups of an LDAP user agree. A *)
(* login and a refresh of its tokens give it the same roles, in the same   *)
(* order. The list of users, which the server answers, has a user at most  *)
(* once, with each role once. Whom the server finds in every group that is *)
(* annotated for it, the list gives no role less than a refresh; and if it *)
(* finds it in no others, the same roles in the same order. Webmesh gives  *)
(* what a login would, as long as no group goes without a name.            *)
RolesAgree ==
    /\ \A groups \in SUBSET Group :
         WebmeshAuthenticate(groups) = FilterUserRolesByNames(BoundRoles(groups))
    /\ \A p \in Person :
         LET roles  == LdapGetUser(p)
             users  == LdapGetUsers
             places == {i \in DOMAIN users : users[i].name = p}
         IN
         /\ LdapAuthenticate(p) \in {Nothing, roles}
         /\ users # Nothing =>
              /\ \A i \in places : places = {i} /\ IsInjective(users[i].roles)
              /\ roles = Nothing => places = {}
              /\ roles # Nothing /\ (\A g \in AllNoted : Finds(p, g)) =>
                   /\ ToSet(roles) \subseteq UNION {ToSet(users[i].roles) : i \in places}
                   /\ (~ \E g \in AllNoted : FindsTooMuch(p, g)) =>
                        IF roles = <<>> THEN places = {} ELSE \E i \in places : users[i].roles = roles

(* A replica that has handed out the claims of a state, and has not been   *)
(* given others since, forgets them: a second POST with the state gets     *)
(* them there only while another POST, which read them before they were    *)
(* cleared, is under way with them, or because it left them in the cache   *)
(* again when its own lock, or its own call to clear them, failed.         *)
HasClaims(q, e, s) ==
    /\ post[q].replica = e /\ post[q].state = s
    /\ post[q].at \in {"lock", "clear", "forget", "left"}
    /\ post[q].claims = cached[e][s]

ForgottenWhereServed ==
    \A e \in Replica : \A s \in clean[e] :
      cached[e][s] = Nothing \/ \E q \in Post : HasClaims(q, e, s)
=============================================================================
