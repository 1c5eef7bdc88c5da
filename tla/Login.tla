------------------------------- MODULE Login -------------------------------
(***************************************************************************)
(* Logging in with a password and a second factor: PostLogin,              *)
(* PostAuthorize, GetRefreshToken, PostLogout, PutUserMFA and              *)
(* PutUserMFAVerify of pkg/api, over the table of second factors and the   *)
(* table of refresh tokens. Each operation on a table happens at one       *)
(* instant, as SecretMap says; requests interleave between them, and the   *)
(* tabs of one browser share its tokens.                                   *)
(***************************************************************************)
EXTENDS MFATable

CONSTANTS Browser, Tab, BrowserOf,
          Managers,     \* the users whose roles let them update users
          None,         \* no token, no secret
          Idle,         \* no request of this tab is under way
          MaxTokens, MaxSecrets, MaxRequests, MaxFaults   \* bounds

ASSUME LoginAssumption ==
    /\ BrowserOf \in [Tab -> Browser]
    /\ Managers \subseteq User
    /\ {MaxTokens, MaxSecrets, MaxRequests, MaxFaults} \subseteq Nat
    /\ None \notin User \cup Nat

Token == 1..MaxTokens
Secret == 1..MaxSecrets

VARIABLES rows,      \* the table of second factors
          refresh,   \* the table of refresh tokens: the user of each
          jwt,       \* the access token a browser has
          cookie,    \* the refresh token a browser has
          req,       \* the request of each tab
          made,      \* refresh tokens, secrets, requests and faults so far
          served,    \* history: refresh tokens that were changed for a new one
          proved     \* history: codes that PutUserMFAVerify found right

vars == <<rows, refresh, jwt, cookie, req, made, served, proved>>

Op == {"login", "authorize", "refresh", "logout", "enable", "disable", "verify"}

(* What a request carries and what its handler knows. guarded is history:  *)
(* the user's own row has been verified since the request began.           *)
Request ==
    [op : Op, at : {"status", "lookup", "user", "write", "issue", "answer"},
     user : User, code : Secret \cup {None}, token : Token \cup {None}, secret : Secret \cup {None},
     authorized : BOOLEAN, presented : BOOLEAN, guarded : BOOLEAN]

(* Nothing under way is not a request.                                     *)
ASSUME IdleAssumption == Idle \notin Request

TypeOK ==
    /\ rows \in Seq([name : User, secret : Secret, verified : BOOLEAN])
    /\ refresh \in [Token -> User \cup {None}]
    /\ jwt \in [Browser -> [user : User, authorized : BOOLEAN] \cup {None}]
    /\ cookie \in [Browser -> Token \cup {None}]
    /\ req \in [Tab -> Request \cup {Idle}]
    /\ made \in [tokens : 0..MaxTokens, secrets : 0..MaxSecrets,
                 requests : 0..MaxRequests, faults : 0..MaxFaults]
    /\ served \subseteq Token
    /\ proved \subseteq User \X Secret

Init ==
    /\ rows = <<>>
    /\ refresh = [k \in Token |-> None]
    /\ jwt = [b \in Browser |-> None]
    /\ cookie = [b \in Browser |-> None]
    /\ req = [t \in Tab |-> Idle]
    /\ made = [tokens |-> 0, secrets |-> 0, requests |-> 0, faults |-> 0]
    /\ served = {} /\ proved = {}

Tables == <<rows, refresh>>
Tokens == <<jwt, cookie>>
History == <<served, proved>>

(* The row of u itself, not one that merely begins like it. *)
OwnRows(rs, u) == {rs[i] : i \in {j \in DOMAIN rs : rs[j].name = u}}
Verified(rs, u) == \E row \in OwnRows(rs, u) : row.verified

-----------------------------------------------------------------------------
(* What ValidateUserSession and, for the second factor, ValidateUserGrants *)
(* let through; a refresh takes a cookie and no access token. A logout     *)
(* without a cookie does nothing and is left out. allowSameUser does not   *)
(* know the request of a verify, so that one takes a grant.                *)
Accepted(b, op, u) ==
    CASE op = "login" -> TRUE
      [] op = "authorize" -> jwt[b] # None /\ jwt[b].user = u
      [] op = "refresh" -> cookie[b] # None
      [] op = "logout" -> cookie[b] # None /\ jwt[b] # None /\ jwt[b].user = u
      [] op \in {"enable", "disable"} ->
           jwt[b] # None /\ jwt[b].authorized /\ (jwt[b].user \in Managers \cup {u})
      [] op = "verify" -> jwt[b] # None /\ jwt[b].authorized /\ jwt[b].user \in Managers

(* The code, if one is asked for, is that of a secret that has been made,  *)
(* or wrong.                                                               *)
Codes(op) == IF op \in {"authorize", "verify"} THEN (1..made.secrets) \cup {None} ELSE {None}

First(op) == CASE op \in {"login", "authorize", "verify"} -> "status"
               [] op \in {"refresh", "logout"} -> "lookup"
               [] op \in {"enable", "disable"} -> "write"

Begin(t, op, u, code) ==
    LET b == BrowserOf[t] IN
    /\ req[t] = Idle /\ made.requests < MaxRequests
    /\ Accepted(b, op, u) /\ code \in Codes(op)
    /\ req' = [req EXCEPT ![t] =
         [op |-> op, at |-> First(op), user |-> u, code |-> code, token |-> cookie[b],
          secret |-> None, authorized |-> FALSE, presented |-> FALSE,
          guarded |-> Verified(rows, u)]]
    /\ made' = [made EXCEPT !.requests = @ + 1]
    /\ UNCHANGED <<Tables, Tokens, History>>

At(t, place) == req[t] # Idle /\ req[t].at = place
Step(t, place) == req' = [req EXCEPT ![t].at = place]
Ends(t) == req' = [req EXCEPT ![t] = Idle]

(* checkMFAAndReturnJWT: no row, or none that is verified, and the login   *)
(* is authorized.                                                          *)
ReadLogin(t) ==
    LET asks == Found(rows, req[t].user) /\ StatusOf(rows, req[t].user).verified IN
    /\ At(t, "status") /\ req[t].op = "login"
    /\ req' = [req EXCEPT ![t].authorized = ~asks, ![t].at = IF asks THEN "answer" ELSE "issue"]
    /\ UNCHANGED <<Tables, Tokens, made, History>>

(* PostAuthorize: an unverified row or a wrong code is refused. *)
ReadAuthorize(t) ==
    LET u == req[t].user
        right == Found(rows, u) /\ StatusOf(rows, u).verified
                                /\ StatusOf(rows, u).secret = req[t].code
    IN
    /\ At(t, "status") /\ req[t].op = "authorize"
    /\ IF Found(rows, u) /\ ~right
         THEN Ends(t)
         ELSE req' = [req EXCEPT ![t].authorized = TRUE, ![t].presented = right, ![t].at = "issue"]
    /\ UNCHANGED <<Tables, Tokens, made, History>>

(* PutUserMFAVerify: a row that is verified already is left alone. *)
ReadVerify(t) ==
    LET u == req[t].user
        right == Found(rows, u) /\ StatusOf(rows, u).secret = req[t].code
    IN
    /\ At(t, "status") /\ req[t].op = "verify"
    /\ proved' = IF right THEN proved \cup {<<u, req[t].code>>} ELSE proved
    /\ IF right /\ ~StatusOf(rows, u).verified
         THEN req' = [req EXCEPT ![t].secret = StatusOf(rows, u).secret, ![t].at = "write"]
         ELSE Ends(t)
    /\ UNCHANGED <<Tables, Tokens, made, served>>

(* lookupRefreshToken takes the token out of the table. *)
Taken(t) == [refresh EXCEPT ![req[t].token] = None]

(* Broken Take: the token stays in the table. *)
TakeNothing(t) == refresh' = refresh

Take(t) == refresh' = Taken(t)

(* GetRefreshToken: a token that is not there is an error. *)
LookupRefresh(t) ==
    LET u == refresh[req[t].token] IN
    /\ At(t, "lookup") /\ req[t].op = "refresh"
    /\ IF u = None
         THEN Ends(t) /\ UNCHANGED refresh
         ELSE req' = [req EXCEPT ![t].user = u, ![t].at = "user"] /\ Take(t)
    /\ UNCHANGED <<rows, Tokens, made, History>>

(* PostLogout: the token is taken if it is there. *)
LookupLogout(t) ==
    /\ At(t, "lookup") /\ req[t].op = "logout"
    /\ Take(t)
    /\ Step(t, "answer")
    /\ UNCHANGED <<rows, Tokens, made, History>>

(* The user of the token, with the roles it has now. *)
GetUser(t) ==
    /\ At(t, "user")
    /\ req' = [req EXCEPT ![t].authorized = TRUE, ![t].at = "issue"]
    /\ UNCHANGED <<Tables, Tokens, made, History>>

(* generateRefreshToken, for every authorized access token. *)
Issued(t) == [refresh EXCEPT ![made.tokens + 1] = req[t].user]

(* Broken Issue: the token of the request is handed back.                  *)
IssueSame(t) ==
    /\ At(t, "issue") /\ made.tokens < MaxTokens
    /\ refresh' = Issued(t)
    /\ made' = [made EXCEPT !.tokens = @ + 1]
    /\ req' = [req EXCEPT ![t].at = "answer",
                          ![t].token = IF @ = None THEN made.tokens + 1 ELSE @]
    /\ served' = IF req[t].op = "refresh" THEN served \cup {req[t].token} ELSE served
    /\ UNCHANGED <<rows, Tokens, proved>>

Issue(t) ==
    /\ At(t, "issue") /\ made.tokens < MaxTokens
    /\ refresh' = Issued(t)
    /\ made' = [made EXCEPT !.tokens = @ + 1]
    /\ req' = [req EXCEPT ![t].at = "answer", ![t].token = made.tokens + 1]
    /\ served' = IF req[t].op = "refresh" THEN served \cup {req[t].token} ELSE served
    /\ UNCHANGED <<rows, Tokens, proved>>

(* The answer reaches the browser, which keeps what it brings. A logout    *)
(* ends with an empty cookie, and the UI forgets its access token.         *)
Answer(t) ==
    LET b == BrowserOf[t]
        q == req[t]
    IN
    /\ At(t, "answer")
    /\ CASE q.op \in {"login", "authorize", "refresh"} ->
              /\ jwt' = [jwt EXCEPT ![b] = [user |-> q.user, authorized |-> q.authorized]]
              /\ cookie' = IF q.authorized THEN [cookie EXCEPT ![b] = q.token] ELSE cookie
         [] q.op = "logout" ->
              /\ jwt' = [jwt EXCEPT ![b] = None] /\ cookie' = [cookie EXCEPT ![b] = None]
         [] OTHER -> UNCHANGED Tokens
    /\ Ends(t)
    /\ UNCHANGED <<Tables, made, History>>

(* Broken Written: a new secret counts as verified.                        *)
WrittenVerified(t) ==
    LET q == req[t] IN
    CASE q.op = "enable"  -> SetStatus(rows, q.user, made.secrets + 1, TRUE)
      [] q.op = "disable" -> DeleteRows(rows, q.user)
      [] q.op = "verify"  -> SetStatus(rows, q.user, q.secret, TRUE)

(* The table after PutUserMFA or PutUserMFAVerify has written it. A secret *)
(* that is enabled is new.                                                 *)
Written(t) ==
    LET q == req[t] IN
    CASE q.op = "enable"  -> SetStatus(rows, q.user, made.secrets + 1, FALSE)
      [] q.op = "disable" -> DeleteRows(rows, q.user)
      [] q.op = "verify"  -> SetStatus(rows, q.user, q.secret, TRUE)

Writes(t) ==
    /\ rows' = Written(t)
    /\ req[t].op = "enable" => made.secrets < MaxSecrets
    /\ made' = [made EXCEPT !.secrets = IF req[t].op = "enable" THEN @ + 1 ELSE @,
                            !.faults = IF req'[t] = Idle THEN @ + 1 ELSE @]

(* Which requests are still guarded once the table is rs. *)
Reguarded(rs, reqs) ==
    [t \in Tab |-> IF reqs[t] = Idle THEN Idle
                   ELSE [reqs[t] EXCEPT !.guarded = @ /\ Verified(rs, reqs[t].user)]]

WriteStatus(t) ==
    /\ At(t, "write")
    /\ req' = Reguarded(Written(t), [req EXCEPT ![t].at = "answer"])
    /\ Writes(t)
    /\ UNCHANGED <<refresh, Tokens, History>>

(* A call fails, or the answer is lost: the request is over, and what the  *)
(* call was to write may have been written. A logout is answered all the   *)
(* same.                                                                   *)
Fails(t) ==
    /\ req[t] # Idle /\ made.faults < MaxFaults
    /\ \/ /\ Ends(t)
          /\ made' = [made EXCEPT !.faults = @ + 1]
          /\ UNCHANGED Tables
       \/ /\ At(t, "lookup") /\ Take(t)
          /\ Ends(t)
          /\ made' = [made EXCEPT !.faults = @ + 1]
          /\ UNCHANGED rows
       \/ /\ At(t, "lookup") /\ req[t].op = "logout"
          /\ Step(t, "answer")
          /\ made' = [made EXCEPT !.faults = @ + 1]
          /\ UNCHANGED Tables
       \/ /\ At(t, "issue") /\ made.tokens < MaxTokens
          /\ refresh' = Issued(t)
          /\ Ends(t)
          /\ made' = [made EXCEPT !.faults = @ + 1, !.tokens = @ + 1]
          /\ UNCHANGED rows
       \/ /\ At(t, "write")
          /\ req' = Reguarded(Written(t), [req EXCEPT ![t] = Idle])
          /\ Writes(t)
          /\ UNCHANGED refresh
    /\ UNCHANGED <<Tokens, History>>

Handle(t) ==
    \/ ReadLogin(t) \/ ReadAuthorize(t) \/ ReadVerify(t)
    \/ LookupRefresh(t) \/ LookupLogout(t) \/ GetUser(t)
    \/ Issue(t) \/ WriteStatus(t) \/ Answer(t)

Next ==
    \E t \in Tab :
      \/ \E op \in Op, u \in User, code \in Secret \cup {None} : Begin(t, op, u, code)
      \/ Handle(t)
      \/ Fails(t)

Spec == Init /\ [][Next]_vars

-----------------------------------------------------------------------------
(* "The user requires MFA": no login or authorization of a user whose row  *)
(* was verified all along is about to hand out an authorized token without *)
(* the code of a request having been found right, whatever other requests  *)
(* do to the table and whoever else's name begins like the user's.         *)
SecondFactorAsked ==
    \A t \in Tab :
      /\ req[t] # Idle /\ req[t].op \in {"login", "authorize"}
      /\ req[t].at \in {"issue", "answer"} /\ req[t].authorized /\ req[t].guarded
      => req[t].presented

(* A row becomes verified only with a secret whose code a request for that *)
(* user has shown, also when the row is reset or removed between the check *)
(* and the write of PutUserMFAVerify.                                      *)
VerifiedWasProved ==
    \A i \in DOMAIN rows : rows[i].verified => <<rows[i].name, rows[i].secret>> \in proved

(* A refresh token buys one new pair of tokens, also if two tabs of a      *)
(* browser send the same cookie at the same time.                          *)
Refreshes(t) ==
    /\ At(t, "issue") /\ req[t].op = "refresh"
    /\ req'[t] # Idle /\ req'[t].at = "answer"

RefreshServesOnce == [][\A t \in Tab : Refreshes(t) => req[t].token \notin served]_vars

(* Unless a call failed, a browser that has nothing under way can use the  *)
(* refresh token it has, whatever its tabs did at the same time, in        *)
(* whatever order their answers came.                                      *)
CookieLives ==
    \A b \in Browser :
      /\ made.faults = 0 /\ cookie[b] # None
      /\ \A t \in Tab : BrowserOf[t] = b => req[t] = Idle
      => refresh[cookie[b]] # None

(* "If it's the same user, write the new secret" (mfa.go:171): the row of  *)
(* a user is changed only by a request for that user.                      *)
ChangedByOwn(u) ==
    OwnRows(rows, u)' # OwnRows(rows, u) =>
      \E t \in Tab : At(t, "write") /\ req[t].user = u /\ req'[t] # req[t]

(* For a user whose name does not begin with another's, that is: Matches   *)
(* takes the row of alice for one of al.                                   *)
PlainRowsKept == [][\A u \in User : BeginsWith[u] = {u} => ChangedByOwn(u)]_vars
=============================================================================
