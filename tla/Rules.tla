------------------------------- MODULE Rules -------------------------------
(***************************************************************************)
(* The rules of roles, as apis/rbac/v1/rules.go and pkg/util/rbac read     *)
(* them: which actions a rule allows, and when one rule includes another,  *)
(* which is what a user must have to hand a rule on.                       *)
(*                                                                         *)
(* The lists of a rule are sets here, its regular expressions are patterns *)
(* and the names each of them matches.                                     *)
(***************************************************************************)
CONSTANTS Name,      \* names of templates, roles, users and service accounts
          Namespace,
          Pattern,
          Matches,   \* the names each pattern matches
          Unnamed,   \* the empty string: no name, no namespace
          Default    \* the service account "default"

ASSUME RulesAssumption ==
    /\ Matches \in [Pattern -> SUBSET Name]
    /\ Unnamed \notin Name \cup Namespace
    /\ Default \in Name

All == "*"
Verb == {"create", "read", "update", "delete", "use", "launch"}
Resource == {"users", "roles", "templates", "serviceaccounts"}

Rule == [verbs : SUBSET (Verb \cup {All}), resources : SUBSET (Resource \cup {All}),
         patterns : SUBSET Pattern, namespaces : SUBSET (Namespace \cup {All})]

Action == [verb : Verb, resource : Resource,
           name : Name \cup {Unnamed}, namespace : Namespace \cup {Unnamed}]

HasVerb(r, v)          == All \in r.verbs \/ v \in r.verbs
HasResourceType(r, t)  == All \in r.resources \/ t \in r.resources
HasNamespace(r, ns)    == All \in r.namespaces \/ ns \in r.namespaces
MatchesResourceName(r, n) == \E p \in r.patterns : n \in Matches[p]

(* The default service account is looked at as the templates are, without  *)
(* a name; the verb stays "use".                                           *)
AsEvaluated(a) ==
    IF a.resource = "serviceaccounts" /\ a.name = Default
      THEN [a EXCEPT !.resource = "templates", !.name = Unnamed]
      ELSE a

EvaluateRule(r, action) ==
    LET a == AsEvaluated(action) IN
    /\ HasVerb(r, a.verb)
    /\ HasResourceType(r, a.resource)
    /\ a.name = Unnamed \/ MatchesResourceName(r, a.name)
    /\ a.namespace = Unnamed \/ HasNamespace(r, a.namespace)

(* The roles of a user are one set of rules here. *)
EvaluateUser(rules, action) == \E r \in rules : EvaluateRule(r, action)

(* r includes c. Patterns are compared on the roles and templates there    *)
(* are; the list of users that the API passes is always empty.             *)
RuleIncludes(r, c, roles, templates) ==
    \/ r = c
    \/ /\ \A v \in c.verbs : HasVerb(r, v)
       /\ \A ns \in c.namespaces : HasNamespace(r, ns)
       /\ \A t \in c.resources :
            /\ HasResourceType(r, t)
            /\ t \in {All, "roles"} =>
                 \A n \in roles : MatchesResourceName(c, n) => MatchesResourceName(r, n)
            /\ t \in {All, "templates"} =>
                 \A n \in templates : MatchesResourceName(c, n) => MatchesResourceName(r, n)

UserIncludesRule(rules, c, roles, templates) ==
    \E r \in rules : RuleIncludes(r, c, roles, templates)

(* The templates, namespaces and service accounts that the UI offers. *)
Launch(t, ns) == [verb |-> "launch", resource |-> "templates", name |-> t, namespace |-> ns]
Use(sa, ns) == [verb |-> "use", resource |-> "serviceaccounts", name |-> sa, namespace |-> ns]

FilterTemplates(rules, ts) == {t \in ts : EvaluateUser(rules, Launch(t, Unnamed))}

(* Broken FilterUserNamespaces: asks who may read templates.               *)
FilterNamespacesOfReaders(rules, nss) ==
    {ns \in nss : EvaluateUser(rules, [Launch(Unnamed, ns) EXCEPT !.verb = "read"])}

FilterUserNamespaces(rules, nss) ==
    {ns \in nss : EvaluateUser(rules, Launch(Unnamed, ns))}

FilterUserServiceAccounts(rules, sas, ns) ==
    {sa \in sas : EvaluateUser(rules, Use(sa, ns))}
=============================================================================
