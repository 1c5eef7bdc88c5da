---------------------------- MODULE RequestGate ----------------------------
(***************************************************************************)
(* The way of a request through the API server: the router, DecodeRequest, *)
(* ValidateUserSession, ValidateUserGrants and the handler. Four tables,   *)
(* written apart, must agree on it: the routes, the types requests are     *)
(* decoded to, the grants, and the types the handlers assert. A path is    *)
(* the template of its route, without /api/.                               *)
(***************************************************************************)
VARIABLE call   \* the request

None == "none"

-----------------------------------------------------------------------------
(* buildRouter: paths with their methods. *)
Session == "sessions/{namespace}/{name}"
Logs == "desktops/{namespace}/{name}/logs/{container}"
FsStat == "desktops/fs/{namespace}/{name}/stat/"
FsGet == "desktops/fs/{namespace}/{name}/get/"
FsPut == "desktops/fs/{namespace}/{name}/put"
Display == "desktops/ws/{namespace}/{name}/display"
Audio == "desktops/ws/{namespace}/{name}/audio"

AnyMethod == {"GET", "POST", "PUT", "DELETE"}

Open ==
    {"version", "auth_methods", "healthz", "readyz", "login", "refresh_token"} \X {"GET"}
    \cup {"metrics", "grafana"} \X AnyMethod
    \cup {<<"login", "POST">>}

Websockets == {"desktops/ws/{namespace}/{name}/status",
               "desktops/ws/{namespace}/{name}/logs/{container}", Display, Audio}

Protected ==
    {"authorize", "logout"} \X {"POST"}
    \cup {"whoami", "config", "namespaces", "serviceaccounts/{namespace}", Logs, FsStat, FsGet} \X {"GET"}
    \cup {"users", "roles", "templates", "sessions"} \X {"GET", "POST"}
    \cup {"users/{user}", "roles/{role}", "templates/{template}"} \X {"GET", "PUT", "DELETE"}
    \cup {"users/{user}/mfa"} \X {"GET", "PUT"}
    \cup {"users/{user}/mfa/verify", FsPut} \X {"PUT"}
    \cup {Session} \X {"GET", "DELETE"}
    \cup Websockets \X AnyMethod

Routes == Open \cup Protected

-----------------------------------------------------------------------------
(* RouterGrantRequirements: the paths and methods with an entry, the paths *)
(* whose entries are for all, for the user of the path, for the session's  *)
(* owner.                                                                  *)
GrantedMethods ==
    {"authorize", "logout", "config/reload"} \X {"POST"}
    \cup {"whoami", "config", "namespaces", "serviceaccounts/{namespace}", Logs, FsStat, FsGet} \X {"GET"}
    \cup Websockets \X {"GET"}
    \cup {"users", "roles", "templates", "sessions"} \X {"GET", "POST"}
    \cup {"users/{user}", "roles/{role}", "templates/{template}"} \X {"GET", "PUT", "DELETE"}
    \cup {"users/{user}/mfa"} \X {"GET", "PUT"}
    \cup {"users/{user}/mfa/verify", FsPut} \X {"PUT"}
    \cup {Session} \X {"GET", "DELETE"}

ForAll == {"whoami", "authorize", "logout", "config", "config/reload", "namespaces",
           "serviceaccounts/{namespace}"}
ForOwner == {Session, Logs, FsStat, FsGet, FsPut} \cup Websockets
ForUser(path, method) ==
    \/ path = "users/{user}" /\ method \in {"GET", "PUT"}
    \/ path \in {"users/{user}/mfa", "users/{user}/mfa/verify"}

(* denyUserElevatePerms knows the path of a change of the second factor    *)
(* and four kinds of objects, and refuses what it does not know. Here it   *)
(* refuses nothing else: Permissions models what it compares.              *)
Known(path, object) ==
    \/ path = "users/{user}/mfa"
    \/ object \in {"CreateUserRequest", "UpdateUserRequest", "CreateRoleRequest", "UpdateRoleRequest"}

(* OverrideFunc: allowAll, allowSameUser and allowSessionOwner. *)
Overrides(path, method, own, object) ==
    \/ path \in ForAll
    \/ path \in ForOwner /\ own
    \/ ForUser(path, method) /\ own /\ Known(path, object)

ExtraCheck(path, method, object) ==
    <<path, method>> \in {<<"users", "POST">>, <<"users/{user}", "PUT">>, <<"roles", "POST">>,
                          <<"roles/{role}", "PUT">>}
        => Known(path, object)

(* The functions that name the resource of an action assert a type too.    *)
NameAsserts(path, method) ==
    IF path = "sessions" /\ method = "POST" THEN "CreateSessionRequest" ELSE None

-----------------------------------------------------------------------------
(* api_decoder.go. *)
Decoders(path, method) ==
    CASE path = "authorize" /\ method = "POST" -> "AuthorizeRequest"
      [] path = "sessions" /\ method = "POST" -> "CreateSessionRequest"
      [] path = "users" /\ method = "POST" -> "CreateUserRequest"
      [] path = "users/{user}" /\ method = "PUT" -> "UpdateUserRequest"
      [] path = "users/{user}/mfa" /\ method = "PUT" -> "UpdateMFARequest"
      [] path = "users/{user}/mfa/verify" /\ method = "PUT" -> "AuthorizeRequest"
      [] path = "roles" /\ method = "POST" -> "CreateRoleRequest"
      [] path = "templates" /\ method = "POST" -> "Template"
      [] path = "roles/{role}" /\ method = "PUT" -> "UpdateRoleRequest"
      [] path = "login" /\ method = "POST" -> "LoginRequest"
      [] OTHER -> None

(* The type a handler asserts. PutDesktopTemplate unmarshals by itself.    *)
HandlerAsserts(path, method) ==
    CASE path \in {"authorize", "users/{user}/mfa/verify"} -> "AuthorizeRequest"
      [] path = "login" /\ method = "POST" -> "LoginRequest"
      [] path = "users" /\ method = "POST" -> "CreateUserRequest"
      [] path = "users/{user}" /\ method = "PUT" -> "UpdateUserRequest"
      [] path = "users/{user}/mfa" /\ method = "PUT" -> "UpdateMFARequest"
      [] path = "roles" /\ method = "POST" -> "CreateRoleRequest"
      [] path = "roles/{role}" /\ method = "PUT" -> "UpdateRoleRequest"
      [] path = "templates" /\ method = "POST" -> "Template"
      [] path = "sessions" /\ method = "POST" -> "CreateSessionRequest"
      [] OTHER -> None

(* A body is a filled object; one with no field set; a filled one with a   *)
(* name or a pattern that may not be; or no object at all. Validate        *)
(* refuses what its type needs.                                            *)
Valid(type, body) ==
    CASE body = "zero" -> type \notin {"CreateUserRequest", "UpdateUserRequest",
                                       "CreateRoleRequest", "CreateSessionRequest"}
      [] body = "misfit" -> type \notin {"CreateUserRequest", "CreateRoleRequest", "UpdateRoleRequest"}
      [] body = "broken" -> FALSE
      [] OTHER -> TRUE

-----------------------------------------------------------------------------
(* pkg/api/client/requests.go: what the REST client asks for, and the type *)
(* it sends.                                                               *)
ClientCalls ==
    {"version", "config", "namespaces", "serviceaccounts/{namespace}", "whoami", "refresh_token",
     "sessions", "roles", "roles/{role}", "templates", "templates/{template}", "users", "users/{user}",
     Display, Audio, FsStat, FsGet} \X {"GET"} \X {None}
    \cup {Session, "roles/{role}", "templates/{template}", "users/{user}"} \X {"DELETE"} \X {None}
    \cup {<<"logout", "POST", None>>, <<FsPut, "PUT", None>>,
          <<"login", "POST", "LoginRequest">>, <<"sessions", "POST", "CreateSessionRequest">>,
          <<"roles", "POST", "CreateRoleRequest">>, <<"roles/{role}", "PUT", "UpdateRoleRequest">>,
          <<"templates", "POST", "Template">>, <<"templates/{template}", "PUT", "Template">>,
          <<"users", "POST", "CreateUserRequest">>, <<"users/{user}", "PUT", "UpdateUserRequest">>}

-----------------------------------------------------------------------------
(* own: the path names the user, or a session of the user. grants: the     *)
(* roles allow every action. A partial token waits for a second factor.    *)
CallInit ==
    \E p \in {r[1] : r \in Routes}, m \in AnyMethod, b \in {"full", "zero", "misfit", "broken"},
       t \in {"missing", "stale", "partial", "authorized"}, o, g \in BOOLEAN :
        call = [path |-> p, method |-> m, body |-> b, token |-> t, own |-> o, grants |-> g,
                at |-> IF <<p, m>> \in Routes THEN "decode" ELSE "done",
                answer |-> IF <<p, m>> \in Routes THEN None ELSE "no such route", object |-> None]

Answer(a) == call' = [call EXCEPT !.at = "done", !.answer = a]

Onward == IF <<call.path, call.method>> \in Protected THEN "session" ELSE "handle"

(* Broken DecodeRequest: only what is posted is decoded.                  *)
DecodePosts ==
    /\ call.at = "decode"
    /\ call' = [call EXCEPT !.at = Onward,
                           !.object = IF call.method = "POST" THEN Decoders(call.path, "POST") ELSE None]

DecodeRequest ==
    LET type == Decoders(call.path, call.method) IN
    /\ call.at = "decode"
    /\ IF type = None THEN call' = [call EXCEPT !.at = Onward]
       ELSE IF Valid(type, call.body) THEN call' = [call EXCEPT !.object = type, !.at = Onward]
       ELSE Answer("bad request")

(* Requests that authorize a token pass with a partial one, and so does    *)
(* every POST.                                                             *)
ValidateUserSession ==
    LET partial == call.token = "partial" /\ call.path # "authorize" /\ call.method # "POST" IN
    /\ call.at = "session"
    /\ CASE call.token = "missing" \/ partial -> Answer("forbidden")
         [] call.token = "stale" -> Answer("unauthorized")
         [] OTHER -> call' = [call EXCEPT !.at = "grants"]

ValidateUserGrants ==
    LET path == call.path
        method == call.method
        listed == <<path, method>> \in GrantedMethods
        names == NameAsserts(path, method)
    IN
    /\ call.at = "grants"
    /\ CASE ~listed -> Answer("no grants known")
         [] listed /\ Overrides(path, method, call.own, call.object) ->
              call' = [call EXCEPT !.at = "handle"]
         [] OTHER -> IF names \notin {None, call.object} THEN Answer("panic")
                     ELSE IF call.grants /\ ExtraCheck(path, method, call.object)
                       THEN call' = [call EXCEPT !.at = "handle"]
                     ELSE Answer("forbidden")

HandleCall ==
    /\ call.at = "handle"
    /\ Answer(IF HandlerAsserts(call.path, call.method) \in {None, call.object} THEN "served"
              ELSE "panic")

CallNext == DecodeRequest \/ ValidateUserSession \/ ValidateUserGrants \/ HandleCall

CallSpec == CallInit /\ [][CallNext]_call

-----------------------------------------------------------------------------
(* The four tables agree on every request. No function or handler asserts  *)
(* a type the request was not decoded to (that panics, and the connection  *)
(* of the request is dropped without an answer). "Safety checks should not *)
(* fire when deployed", says api_validate_perms.go:530: they fire for a    *)
(* method other than GET on a websocket route, which lists no methods, and *)
(* for nothing else. And what the REST client asks with a full object, an  *)
(* authorized token and every grant is served.                             *)
TablesAgree ==
    /\ call.answer # "panic"
    /\ call.answer = "no grants known" => call.path \in Websockets /\ call.method # "GET"
    /\ \A c \in ClientCalls :
         call.path = c[1] /\ call.method = c[2] /\ call.at = "done"
         /\ call.body = "full" /\ call.token = "authorized" /\ call.grants
           => call.answer = "served" /\ (call.object # None => call.object = c[3])
=============================================================================
