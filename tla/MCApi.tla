------------------------------- MODULE MCApi -------------------------------
(***************************************************************************)
(* Checks the way of a request through the server, the role commands of    *)
(* kvdictl, logins through an OpenID Connect provider and the roles that   *)
(* directories give, each on its own: followed says which. Roles from a    *)
(* directory have no steps and many initial states.                        *)
(***************************************************************************)
EXTENDS RequestGate, Kvdictl, ExternalLogin

CONSTANTS ann, bob, g1, g2

VARIABLE followed

apiVars == <<followed, call, cliVars, externalVars>>

NoCall == [at |-> "none", answer |-> "none", path |-> "none", method |-> "none"]

MCRoleNames == <<"launch-templates", "admin">>

(* Annotations with groups twice, unknown to the user or without a name.   *)
MCNotes == [ToSet(MCRoleNames) -> UNION {[1..n -> Group \cup {Blank}] : n \in 0..2} \cup {Nothing}]

(* The login flow: one person is in a group, the other in none.            *)
MCDirectory ==
    [groups |-> (ann :> {g1} @@ bob :> Nothing), disabled |-> {}, checked |-> FALSE,
     allowed |-> TRUE, notes |-> [r \in ToSet(MCRoleNames) |-> <<g1>>], alike |-> {}, unfit |-> {}]

NoDirectory ==
    [groups |-> [p \in Person |-> Nothing], disabled |-> {}, checked |-> FALSE, allowed |-> FALSE,
     notes |-> [r \in ToSet(MCRoleNames) |-> Nothing], alike |-> {}, unfit |-> {}]

(* The server tells the groups apart, takes g1 for g2 as well, finds       *)
(* nobody in g2, or makes no filter of it.                                 *)
MCServers ==
    [alike : {{<<g, g>> : g \in Group}, {<<g1, g1>>, <<g1, g2>>, <<g2, g2>>}, {<<g1, g1>>}},
     unfit : {{}}]
    \cup {[alike |-> {<<g1, g1>>}, unfit |-> {g2}]}

ApiInit ==
    /\ followed \in {"request", "kvdictl", "oidc", "directory"}
    /\ CliInit /\ ExternalInit
    /\ IF followed = "request" THEN CallInit ELSE call = NoCall
    /\ IF followed = "directory"
         THEN \E groups \in [Person -> SUBSET Group \cup {Nothing}], disabled \in {{}, {ann}},
                 notes \in MCNotes, server \in MCServers :
                directory = [groups |-> groups, disabled |-> disabled, checked |-> TRUE, allowed |-> TRUE,
                             notes |-> notes, alike |-> server.alike, unfit |-> server.unfit]
         ELSE directory = IF followed = "oidc" THEN MCDirectory ELSE NoDirectory

ApiNext ==
    /\ \/ followed = "request" /\ CallNext /\ UNCHANGED <<cliVars, oidcVars>>
       \/ followed = "kvdictl" /\ CliNext /\ UNCHANGED <<call, oidcVars>>
       \/ followed = "oidc" /\ OidcNext /\ UNCHANGED <<call, cliVars>>
    /\ UNCHANGED <<followed, directory>>

ApiSpec == ApiInit /\ [][ApiNext]_apiVars

(* Places, roles and rules are interchangeable. *)
Places == UNION {Permutations(S) : S \in {Cli, Role, Rule}}
=============================================================================
