---------------------------- MODULE LoginProofs ----------------------------
(***************************************************************************)
(* Proofs about Login for any number of users, browsers, tabs and tokens.  *)
(***************************************************************************)
EXTENDS Login, WellFoundedInduction, TLAPS

(* The counters, without their bounds. *)
Counts == [tokens : Nat, secrets : Nat, requests : Nat, faults : Nat]

(* The types of everything but the table of second factors. *)
Typed ==
    /\ refresh \in [Token -> User \cup {None}]
    /\ jwt \in [Browser -> [user : User, authorized : BOOLEAN] \cup {None}]
    /\ cookie \in [Browser -> Token \cup {None}]
    /\ req \in [Tab -> Request \cup {Idle}]
    /\ \A t \in Tab : req[t] # Idle /\ req[t].op \in {"refresh", "logout"} => req[t].token \in Token
    /\ made \in Counts
    /\ served \subseteq Token

(* The request has taken its token out of the table. *)
Sent(t) == req[t] # Idle /\ req[t].op = "refresh" /\ req[t].at \in {"user", "issue"}

(* A token is in the table, or has been taken out by one request, or is    *)
(* served, and never two of these.                                         *)
OnceInv ==
    /\ Typed
    /\ \A k \in Token : k > made.tokens => refresh[k] = None
    /\ \A k \in served : k <= made.tokens /\ refresh[k] = None
    /\ \A t \in Tab : Sent(t) => /\ req[t].token <= made.tokens
                                 /\ refresh[req[t].token] = None
                                 /\ req[t].token \notin served
    /\ \A t, x \in Tab : Sent(t) /\ Sent(x) /\ t # x => req[t].token # req[x].token

(* Reguarded changes what requests know about the table, nothing else. *)
LEMMA Reguards ==
    ASSUME NEW rs, NEW reqs \in [Tab -> Request \cup {Idle}]
    PROVE  /\ Reguarded(rs, reqs) \in [Tab -> Request \cup {Idle}]
           /\ \A t \in Tab : Reguarded(rs, reqs)[t] # Idle =>
                /\ reqs[t] # Idle
                /\ Reguarded(rs, reqs)[t].op = reqs[t].op
                /\ Reguarded(rs, reqs)[t].at = reqs[t].at
                /\ Reguarded(rs, reqs)[t].token = reqs[t].token
<1>1. \A t \in Tab : reqs[t] # Idle => reqs[t] \in Request
  OBVIOUS
<1>2. \A u : Verified(rs, u) \in BOOLEAN
  BY DEF Verified
<1>3. ASSUME NEW q \in Request, NEW v \in BOOLEAN
      PROVE  LET r == [q EXCEPT !.guarded = @ /\ v]
             IN  r \in Request /\ r.op = q.op /\ r.at = q.at /\ r.token = q.token
  BY DEF Request
<1>4. \A t \in Tab : reqs[t] # Idle =>
        LET r == [reqs[t] EXCEPT !.guarded = @ /\ Verified(rs, reqs[t].user)]
        IN  r \in Request /\ r.op = reqs[t].op /\ r.at = reqs[t].at /\ r.token = reqs[t].token
  BY <1>1, <1>2, <1>3
<1>5. QED
  BY <1>4, Zenon DEF Reguarded

(* What counting a fault, or a fault and a token, does to the counters.   *)
LEMMA Counting ==
    ASSUME NEW m \in Counts
    PROVE  /\ [m EXCEPT !.faults = @ + 1] \in Counts
           /\ [m EXCEPT !.faults = @ + 1].tokens = m.tokens
           /\ [m EXCEPT !.faults = @ + 1, !.tokens = @ + 1] \in Counts
           /\ [m EXCEPT !.faults = @ + 1, !.tokens = @ + 1].tokens = m.tokens + 1
<1>1. /\ [m EXCEPT !.faults = @ + 1] \in Counts
      /\ [m EXCEPT !.faults = @ + 1].tokens = m.tokens
  BY DEF Counts
<1>2. \A n \in Counts : [n EXCEPT !.tokens = @ + 1] \in Counts /\ [n EXCEPT !.tokens = @ + 1].tokens = n.tokens + 1
  BY DEF Counts
<1>3. [m EXCEPT !.faults = @ + 1, !.tokens = @ + 1] = [[m EXCEPT !.faults = @ + 1] EXCEPT !.tokens = @ + 1]
  BY DEF Counts
<1>4. QED
  BY <1>1, <1>2, <1>3

(* A write of the table counts secrets and faults, no tokens. *)
LEMMA WritesCount ==
    ASSUME made \in Counts, NEW t, Writes(t)
    PROVE  /\ made' \in Counts
           /\ made'.tokens = made.tokens
<1> DEFINE s == IF req[t].op = "enable" THEN made.secrets + 1 ELSE made.secrets
           f == IF req'[t] = Idle THEN made.faults + 1 ELSE made.faults
<1>1. s \in Nat /\ f \in Nat
  BY DEF Counts
<1>2. made' = [made EXCEPT !.secrets = s, !.faults = f]
  BY DEF Writes, Counts
<1> HIDE DEF s, f
<1>3. QED
  BY <1>1, <1>2 DEF Counts

(* The types are kept. *)
LEMMA TypedStep == Typed /\ [Next]_vars => Typed'
<1> SUFFICES ASSUME Typed, [Next]_vars PROVE Typed'
  OBVIOUS
<1> USE LoginAssumption, MFATableAssumption DEF Typed, Counts, Request, Tables, Tokens, History, At, Step, Ends
<1>1. ASSUME NEW t \in Tab, NEW op \in Op, NEW u \in User, NEW code \in Secret \cup {None},
             Begin(t, op, u, code)
      PROVE  Typed'
  <2>1. First(op) \in {"status", "lookup", "write"}
    BY DEF First, Op
  <2>2. Verified(rows, u) \in BOOLEAN
    BY DEF Verified
  <2>3. cookie[BrowserOf[t]] \in Token \cup {None}
    OBVIOUS
  <2>4. op \in {"refresh", "logout"} => cookie[BrowserOf[t]] # None
    BY <1>1 DEF Begin, Accepted
  <2>5. QED
    BY <1>1, <2>1, <2>2, <2>3, <2>4 DEF Begin
<1>2. ASSUME NEW t \in Tab, ReadLogin(t) PROVE Typed'
  BY <1>2 DEF ReadLogin
<1>3. ASSUME NEW t \in Tab, ReadAuthorize(t) PROVE Typed'
  BY <1>3 DEF ReadAuthorize
<1>4. ASSUME NEW t \in Tab, ReadVerify(t) PROVE Typed'
  BY <1>4 DEF ReadVerify
<1>5. ASSUME NEW t \in Tab, LookupRefresh(t) PROVE Typed'
  BY <1>5 DEF LookupRefresh, Take, Taken
<1>6. ASSUME NEW t \in Tab, LookupLogout(t) PROVE Typed'
  BY <1>6 DEF LookupLogout, Take, Taken
<1>7. ASSUME NEW t \in Tab, GetUser(t) PROVE Typed'
  BY <1>7 DEF GetUser
<1>8. ASSUME NEW t \in Tab, Issue(t) PROVE Typed'
  <2>1. made.tokens + 1 \in Token
    BY <1>8 DEF Issue, Token
  <2>2. req[t] \in Request /\ req[t].user \in User
    BY <1>8 DEF Issue
  <2>3. refresh' \in [Token -> User \cup {None}]
    BY <1>8, <2>1, <2>2 DEF Issue, Issued
  <2>4. made' \in Counts
    BY <1>8 DEF Issue
  <2>5. served' \subseteq Token
    BY <1>8 DEF Issue
  <2>6. QED
    BY ZenonT(30), <1>8, <2>1, <2>2, <2>3, <2>4, <2>5 DEF Issue
<1>9. ASSUME NEW t \in Tab, WriteStatus(t) PROVE Typed'
  <2> DEFINE reqs == [req EXCEPT ![t].at = "answer"]
  <2>1. reqs \in [Tab -> Request \cup {Idle}]
    BY <1>9 DEF WriteStatus
  <2>2. \A x \in Tab : reqs[x] # Idle => req[x] # Idle /\ reqs[x].op = req[x].op /\ reqs[x].token = req[x].token
    BY <1>9 DEF WriteStatus
  <2>3. req' = Reguarded(Written(t), reqs)
    BY <1>9 DEF WriteStatus
  <2> HIDE DEF reqs
  <2>4. req' \in [Tab -> Request \cup {Idle}]
    BY ONLY <2>1, <2>3, Reguards
  <2>5. \A x \in Tab : req'[x] # Idle =>
          reqs[x] # Idle /\ req'[x].op = reqs[x].op /\ req'[x].token = reqs[x].token
    BY ONLY <2>1, <2>3, Reguards
  <2>6. made' \in Counts
    BY <1>9, WritesCount DEF WriteStatus
  <2>7. UNCHANGED <<refresh, jwt, cookie, served>>
    BY <1>9 DEF WriteStatus
  <2>8. QED
    BY <2>2, <2>4, <2>5, <2>6, <2>7 DEF Typed
<1>10. ASSUME NEW t \in Tab, Answer(t) PROVE Typed'
  BY SMTT(30), <1>10 DEF Answer
<1>11. ASSUME NEW t \in Tab, Fails(t) PROVE Typed'
  <2>0. req[t] \in Request /\ UNCHANGED <<jwt, cookie, served>>
    BY <1>11 DEF Fails
  <2>1. CASE Ends(t) /\ made' = [made EXCEPT !.faults = @ + 1] /\ UNCHANGED Tables
    BY <2>0, <2>1
  <2>2. CASE At(t, "lookup") /\ Take(t) /\ Ends(t) /\ made' = [made EXCEPT !.faults = @ + 1]
    <3>1. refresh' \in [Token -> User \cup {None}]
      BY <2>2 DEF Take, Taken
    <3>2. made' \in Counts
      BY <2>2, Counting
    <3>3. QED
      BY <2>0, <2>2, <3>1, <3>2
  <2>3. CASE /\ At(t, "issue") /\ made.tokens < MaxTokens
             /\ refresh' = Issued(t)
             /\ Ends(t)
             /\ made' = [made EXCEPT !.faults = @ + 1, !.tokens = @ + 1]
    <3>1. made.tokens + 1 \in Token /\ req[t].user \in User
      BY <2>0, <2>3 DEF Token
    <3>2. refresh' \in [Token -> User \cup {None}]
      BY <2>3, <3>1 DEF Issued
    <3>3. made' \in Counts
      BY <2>3, Counting DEF Typed
    <3>4. QED
      BY <2>0, <2>3, <3>2, <3>3
  <2>4. CASE /\ req' = Reguarded(Written(t), [req EXCEPT ![t] = Idle])
             /\ Writes(t)
             /\ UNCHANGED refresh
    <3> DEFINE reqs == [req EXCEPT ![t] = Idle]
    <3>1. reqs \in [Tab -> Request \cup {Idle}]
      OBVIOUS
    <3>2. \A x \in Tab : reqs[x] # Idle => req[x] # Idle /\ reqs[x].op = req[x].op /\ reqs[x].token = req[x].token
      OBVIOUS
    <3>3. req' = Reguarded(Written(t), reqs)
      BY <2>4
    <3> HIDE DEF reqs
    <3>4. req' \in [Tab -> Request \cup {Idle}]
      BY ONLY <3>1, <3>3, Reguards
    <3>5. \A x \in Tab : req'[x] # Idle =>
            reqs[x] # Idle /\ req'[x].op = reqs[x].op /\ req'[x].token = reqs[x].token
      BY ONLY <3>1, <3>3, Reguards
    <3>6. made' \in Counts
      BY <2>4, WritesCount
    <3>7. QED
      BY ZenonT(30), <2>0, <2>4, <3>2, <3>4, <3>5, <3>6
  <2>5. CASE At(t, "lookup") /\ Step(t, "answer") /\ made' = [made EXCEPT !.faults = @ + 1] /\ UNCHANGED Tables
    <3>1. /\ req' \in [Tab -> Request \cup {Idle}]
          /\ \A x \in Tab : req'[x] # Idle =>
               req[x] # Idle /\ req'[x].op = req[x].op /\ req'[x].token = req[x].token
      BY <2>0, <2>5
    <3>2. made' \in Counts
      BY <2>5, Counting
    <3>3. QED
      BY <2>0, <2>5, <3>1, <3>2
  <2>6. QED
    BY <1>11, <2>1, <2>2, <2>3, <2>4, <2>5 DEF Fails
<1>12. CASE UNCHANGED vars
  BY <1>12 DEF vars
<1>13. QED
  BY <1>1, <1>2, <1>3, <1>4, <1>5, <1>6, <1>7, <1>8, <1>9, <1>10, <1>11, <1>12 DEF Next, Handle

-----------------------------------------------------------------------------
(* A step that issues no token, serves none and lets no request take one   *)
(* keeps OnceInv.                                                          *)
LEMMA QuietStep ==
    ASSUME OnceInv, Typed',
           made'.tokens = made.tokens, served' = served,
           \A k \in Token : refresh'[k] \in {refresh[k], None},
           \A t \in Tab : Sent(t)' => Sent(t) /\ req'[t].token = req[t].token
    PROVE  OnceInv'
<1> USE DEF OnceInv
<1>1. \A t \in Tab : Sent(t) => req[t].token \in Token
  BY DEF Typed, Sent
<1>2. (\A k \in Token : k > made.tokens => refresh[k] = None)'
  OBVIOUS
<1>3. (\A k \in served : k <= made.tokens /\ refresh[k] = None)'
  BY DEF Typed
<1>4. (\A t \in Tab : Sent(t) => /\ req[t].token <= made.tokens
                                 /\ refresh[req[t].token] = None
                                 /\ req[t].token \notin served)'
  BY <1>1
<1>5. (\A t, x \in Tab : Sent(t) /\ Sent(x) /\ t # x => req[t].token # req[x].token)'
  OBVIOUS
<1>6. QED
  BY <1>2, <1>3, <1>4, <1>5

(* A refresh takes a token that is in the table, so no other has it.       *)
LEMMA LookupStep ==
    ASSUME OnceInv, Typed', NEW t \in Tab, LookupRefresh(t), refresh[req[t].token] # None
    PROVE  OnceInv'
<1> DEFINE k == req[t].token
<1>1. /\ k \in Token /\ req[t] # Idle /\ req[t].op = "refresh" /\ req[t].at = "lookup"
      /\ req' = [req EXCEPT ![t].user = refresh[k], ![t].at = "user"]
      /\ refresh' = [refresh EXCEPT ![k] = None]
      /\ made' = made /\ served' = served
  BY DEF LookupRefresh, At, Take, Taken, OnceInv, Typed, History
<1>2. /\ req'[t].token = k
      /\ \A x \in Tab \ {t} : req'[x] = req[x]
  BY <1>1 DEF OnceInv, Typed, Request
<1>3. k <= made.tokens /\ k \notin served
  BY <1>1 DEF OnceInv, Typed, Token, Counts
<1>4. \A x \in Tab \ {t} : Sent(x)' => Sent(x) /\ req'[x].token = req[x].token /\ req[x].token # k
  BY <1>2 DEF OnceInv, Sent
<1>5. \A j \in Token : refresh'[j] = IF j = k THEN None ELSE refresh[j]
  BY <1>1 DEF OnceInv, Typed
<1> HIDE DEF k
<1>6. (\A j \in Token : j > made.tokens => refresh[j] = None)'
  BY <1>1, <1>5 DEF OnceInv
<1>7. (\A j \in served : j <= made.tokens /\ refresh[j] = None)'
  BY <1>1, <1>5 DEF OnceInv, Typed
<1>8. (\A x \in Tab : Sent(x) => /\ req[x].token <= made.tokens
                                 /\ refresh[req[x].token] = None
                                 /\ req[x].token \notin served)'
  BY <1>1, <1>2, <1>3, <1>4, <1>5 DEF OnceInv, Typed, Sent
<1>9. (\A y, x \in Tab : Sent(y) /\ Sent(x) /\ y # x => req[y].token # req[x].token)'
  BY <1>2, <1>4 DEF OnceInv
<1>10. QED
  BY <1>6, <1>7, <1>8, <1>9 DEF OnceInv

(* A token is new if it comes after all that were made.                    *)
LEMMA Beyond ==
    ASSUME NEW k \in Nat, NEW n \in Nat
    PROVE  /\ k <= n => k # n + 1 /\ k <= n + 1
           /\ k > n + 1 => k > n /\ k # n + 1
  OBVIOUS

(* A token is new when it is issued, and the one it was bought with has    *)
(* been taken by this request only.                                        *)
LEMMA IssueStep ==
    ASSUME OnceInv, Typed', NEW t \in Tab, Issue(t)
    PROVE  OnceInv'
<1>1. /\ req[t] # Idle /\ req[t].at = "issue" /\ made.tokens \in Nat
      /\ made'.tokens = made.tokens + 1
      /\ refresh' = [refresh EXCEPT ![made.tokens + 1] = req[t].user]
      /\ served' \subseteq served \cup (IF Sent(t) THEN {req[t].token} ELSE {})
  BY DEF Issue, At, Issued, OnceInv, Typed, Sent, Counts
<1>2. ~Sent(t)' /\ \A x \in Tab \ {t} : req'[x] = req[x]
  BY DEF Issue, OnceInv, Typed, Request, Sent
<1>3. \A x \in Tab \ {t} : Sent(x)' => Sent(x) /\ req'[x].token = req[x].token
  BY <1>2 DEF Sent
<1>4. \A k \in Token : k # made.tokens + 1 => refresh'[k] = refresh[k]
  BY <1>1 DEF OnceInv, Typed
<1>5. \A x \in Tab : Sent(x) => req[x].token \in Token
  BY DEF OnceInv, Typed, Sent
<1>6. Token \subseteq Nat
  BY DEF Token
<1>7. (\A k \in Token : k > made.tokens => refresh[k] = None)'
  BY <1>1, <1>4, <1>6 DEF OnceInv
<1>8. (\A k \in served : k <= made.tokens /\ refresh[k] = None)'
  BY <1>1, <1>4, <1>5, <1>6 DEF OnceInv, Typed
<1>9. (\A x \in Tab : Sent(x) => /\ req[x].token <= made.tokens
                                 /\ refresh[req[x].token] = None
                                 /\ req[x].token \notin served)'
  <2> SUFFICES ASSUME NEW x \in Tab, Sent(x)'
               PROVE  /\ req'[x].token <= made'.tokens
                      /\ refresh'[req'[x].token] = None
                      /\ req'[x].token \notin served'
    OBVIOUS
  <2>1. x # t /\ Sent(x) /\ req'[x].token = req[x].token /\ req[x].token \in Token
    BY <1>2, <1>3, <1>5
  <2>2. /\ req[x].token <= made.tokens /\ refresh[req[x].token] = None
        /\ req[x].token \notin served /\ (Sent(t) => req[t].token # req[x].token)
    BY <2>1 DEF OnceInv
  <2>3. req[x].token # made.tokens + 1 /\ req[x].token <= made'.tokens
    <3>1. \A k \in Nat : k <= made.tokens => k # made.tokens + 1 /\ k <= made'.tokens
      BY <1>1, Beyond
    <3>2. req[x].token \in Nat
      BY ONLY <1>6, <2>1
    <3>3. QED
      BY ONLY <2>2, <3>1, <3>2
  <2>4. QED
    BY <1>1, <1>4, <2>1, <2>2, <2>3
<1>10. (\A y, x \in Tab : Sent(y) /\ Sent(x) /\ y # x => req[y].token # req[x].token)'
  BY <1>2, <1>3 DEF OnceInv
<1>11. QED
  BY <1>7, <1>8, <1>9, <1>10 DEF OnceInv

(* A call that fails leaves no request behind: a token that it took or     *)
(* issued has nobody.                                                      *)
LEMMA FailStep ==
    ASSUME OnceInv, Typed', NEW t \in Tab, Fails(t)
    PROVE  OnceInv'
<1>1. Typed /\ served' = served
  BY DEF OnceInv, Fails, History
<1>2. ASSUME Ends(t) PROVE \A x \in Tab : Sent(x)' => Sent(x) /\ req'[x].token = req[x].token
  BY <1>1, <1>2 DEF Ends, Sent, Typed
<1>3. CASE Ends(t) /\ made' = [made EXCEPT !.faults = @ + 1] /\ UNCHANGED Tables
  <2>1. made'.tokens = made.tokens
    BY <1>1, <1>3, Counting DEF Typed
  <2>2. \A k \in Token : refresh'[k] \in {refresh[k], None}
    BY <1>3 DEF Tables
  <2>3. QED
    BY <1>1, <1>2, <1>3, <2>1, <2>2, QuietStep
<1>4. CASE At(t, "lookup") /\ Take(t) /\ Ends(t) /\ made' = [made EXCEPT !.faults = @ + 1]
  <2>1. made'.tokens = made.tokens
    BY <1>1, <1>4, Counting DEF Typed
  <2>2. \A k \in Token : refresh'[k] \in {refresh[k], None}
    BY <1>1, <1>4 DEF Take, Taken, Typed
  <2>3. QED
    BY <1>1, <1>2, <1>4, <2>1, <2>2, QuietStep
<1>5. CASE /\ At(t, "issue") /\ made.tokens < MaxTokens
           /\ refresh' = Issued(t)
           /\ Ends(t)
           /\ made' = [made EXCEPT !.faults = @ + 1, !.tokens = @ + 1]
  <2>1. made.tokens \in Nat /\ made'.tokens = made.tokens + 1
    BY <1>1, <1>5, Counting DEF Typed, Counts
  <2>2. \A k \in Token : k # made.tokens + 1 => refresh'[k] = refresh[k]
    BY <1>1, <1>5 DEF Issued, Typed
  <2>3. \A x \in Tab : Sent(x) => req[x].token \in Token
    BY <1>1 DEF Typed, Sent
  <2>4. \A x \in Tab : Sent(x)' => Sent(x) /\ req'[x].token = req[x].token
    BY <1>2, <1>5
  <2>5. Token \subseteq Nat
    BY DEF Token
  <2>6. (\A k \in Token : k > made.tokens => refresh[k] = None)'
    <3> SUFFICES ASSUME NEW k \in Token, k > made'.tokens PROVE refresh'[k] = None
      OBVIOUS
    <3>1. k \in Nat /\ k > made.tokens /\ k # made.tokens + 1
      BY ONLY <2>1, <2>5, Beyond, k \in Token, k > made'.tokens
    <3>2. QED
      BY <2>2, <3>1 DEF OnceInv
  <2>7. (\A k \in served : k <= made.tokens /\ refresh[k] = None)'
    <3> SUFFICES ASSUME NEW k \in served PROVE k <= made'.tokens /\ refresh'[k] = None
      BY <1>1
    <3>1. k \in Token /\ k <= made.tokens /\ refresh[k] = None
      BY <1>1 DEF OnceInv, Typed
    <3>2. QED
      BY ONLY <2>1, <2>2, <2>5, <3>1, Beyond
  <2>8. (\A x \in Tab : Sent(x) => /\ req[x].token <= made.tokens
                                   /\ refresh[req[x].token] = None
                                   /\ req[x].token \notin served)'
    <3> SUFFICES ASSUME NEW x \in Tab, Sent(x)'
                 PROVE  /\ req'[x].token <= made'.tokens
                        /\ refresh'[req'[x].token] = None
                        /\ req'[x].token \notin served'
      OBVIOUS
    <3>1. Sent(x) /\ req'[x].token = req[x].token /\ req[x].token \in Token
      BY <2>3, <2>4
    <3>2. /\ req[x].token <= made.tokens /\ refresh[req[x].token] = None
          /\ req[x].token \notin served
      BY <3>1 DEF OnceInv
    <3>3. req[x].token # made.tokens + 1 /\ req[x].token <= made'.tokens
      <4>1. \A k \in Nat : k <= made.tokens => k # made.tokens + 1 /\ k <= made'.tokens
        BY <2>1, Beyond
      <4>2. req[x].token \in Nat
        BY ONLY <2>5, <3>1
      <4>3. QED
        BY ONLY <3>2, <4>1, <4>2
    <3>4. QED
      BY <1>1, <2>2, <3>1, <3>2, <3>3
  <2>9. (\A y, x \in Tab : Sent(y) /\ Sent(x) /\ y # x => req[y].token # req[x].token)'
    BY <2>4 DEF OnceInv
  <2>10. QED
    BY <2>6, <2>7, <2>8, <2>9 DEF OnceInv
<1>6. CASE /\ req' = Reguarded(Written(t), [req EXCEPT ![t] = Idle])
           /\ Writes(t)
           /\ UNCHANGED refresh
  <2> DEFINE reqs == [req EXCEPT ![t] = Idle]
  <2>1. /\ reqs \in [Tab -> Request \cup {Idle}]
        /\ \A x \in Tab : reqs[x] # Idle => reqs[x] = req[x]
        /\ req' = Reguarded(Written(t), reqs)
    BY <1>1, <1>6 DEF Typed
  <2> HIDE DEF reqs
  <2>2. \A x \in Tab : req'[x] # Idle => /\ req[x] # Idle /\ req'[x].op = req[x].op
                                         /\ req'[x].at = req[x].at /\ req'[x].token = req[x].token
    BY ONLY <2>1, Reguards
  <2>3. \A x \in Tab : Sent(x)' => Sent(x) /\ req'[x].token = req[x].token
    BY ONLY <2>2 DEF Sent
  <2>4. made'.tokens = made.tokens
    BY <1>1, <1>6, WritesCount DEF Typed
  <2>5. QED
    BY <1>1, <1>6, <2>3, <2>4, QuietStep
<1>7. CASE /\ At(t, "lookup") /\ Step(t, "answer")
           /\ made' = [made EXCEPT !.faults = @ + 1] /\ UNCHANGED Tables
  <2>1. made'.tokens = made.tokens
    BY <1>1, <1>7, Counting DEF Typed
  <2>2. \A k \in Token : refresh'[k] \in {refresh[k], None}
    BY <1>7 DEF Tables
  <2>3. \A x \in Tab : Sent(x)' => Sent(x) /\ req'[x].token = req[x].token
    BY <1>1, <1>7 DEF Step, At, Sent, Typed, Request
  <2>4. QED
    BY <1>1, <1>7, <2>1, <2>2, <2>3, QuietStep
<1>8. QED
  BY <1>3, <1>4, <1>5, <1>6, <1>7 DEF Fails

(* Every step keeps OnceInv. *)
LEMMA OnceStep == OnceInv /\ [Next]_vars => OnceInv'
<1> SUFFICES ASSUME OnceInv, [Next]_vars PROVE OnceInv'
  OBVIOUS
<1>0. Typed /\ Typed'
  BY TypedStep DEF OnceInv
<1> USE <1>0 DEF Typed, Request, Tables, Tokens, History, At, Step, Ends, Sent
<1>1. ASSUME NEW t \in Tab, NEW op \in Op, NEW u \in User, NEW code \in Secret \cup {None},
             Begin(t, op, u, code)
      PROVE  OnceInv'
  <2>1. First(op) \in {"status", "lookup", "write"}
    BY DEF First, Op
  <2>2. made'.tokens = made.tokens
    BY <1>1 DEF Begin, Counts
  <2>3. QED
    BY <1>1, <2>1, <2>2, QuietStep DEF Begin
<1>2. ASSUME NEW t \in Tab, ReadLogin(t) PROVE OnceInv'
  BY <1>2, QuietStep DEF ReadLogin
<1>3. ASSUME NEW t \in Tab, ReadAuthorize(t) PROVE OnceInv'
  BY <1>3, QuietStep DEF ReadAuthorize
<1>4. ASSUME NEW t \in Tab, ReadVerify(t) PROVE OnceInv'
  BY <1>4, QuietStep DEF ReadVerify
<1>5. ASSUME NEW t \in Tab, LookupRefresh(t) PROVE OnceInv'
  <2>1. CASE refresh[req[t].token] = None
    BY <1>5, <2>1, QuietStep DEF LookupRefresh
  <2>2. CASE refresh[req[t].token] # None
    BY <1>5, <2>2, LookupStep
  <2>3. QED
    BY <2>1, <2>2
<1>6. ASSUME NEW t \in Tab, LookupLogout(t) PROVE OnceInv'
  BY <1>6, QuietStep DEF LookupLogout, Take, Taken
<1>7. ASSUME NEW t \in Tab, GetUser(t) PROVE OnceInv'
  BY <1>7, QuietStep DEF GetUser
<1>8. ASSUME NEW t \in Tab, Issue(t) PROVE OnceInv'
  BY <1>8, IssueStep
<1>9. ASSUME NEW t \in Tab, WriteStatus(t) PROVE OnceInv'
  <2> DEFINE reqs == [req EXCEPT ![t].at = "answer"]
  <2>1. /\ reqs \in [Tab -> Request \cup {Idle}]
        /\ \A x \in Tab : reqs[x] # Idle => /\ req[x] # Idle /\ reqs[x].op = req[x].op
                                            /\ reqs[x].at \in {req[x].at, "answer"}
                                            /\ reqs[x].token = req[x].token
        /\ req' = Reguarded(Written(t), reqs)
    BY <1>9 DEF WriteStatus
  <2> HIDE DEF reqs
  <2>2. \A x \in Tab : req'[x] # Idle => /\ req[x] # Idle /\ req'[x].op = req[x].op
                                         /\ req'[x].at \in {req[x].at, "answer"}
                                         /\ req'[x].token = req[x].token
    BY ONLY <2>1, Reguards
  <2>3. \A x \in Tab : Sent(x)' => Sent(x) /\ req'[x].token = req[x].token
    BY ONLY <2>2 DEF Sent
  <2>4. made'.tokens = made.tokens
    BY <1>9, WritesCount DEF WriteStatus
  <2>5. QED
    BY <1>9, <2>3, <2>4, QuietStep DEF WriteStatus
<1>10. ASSUME NEW t \in Tab, Answer(t) PROVE OnceInv'
  BY <1>10, QuietStep DEF Answer
<1>11. ASSUME NEW t \in Tab, Fails(t) PROVE OnceInv'
  BY <1>11, FailStep
<1>12. CASE UNCHANGED vars
  BY <1>12, QuietStep DEF vars
<1>13. QED
  BY <1>1, <1>2, <1>3, <1>4, <1>5, <1>6, <1>7, <1>8, <1>9, <1>10, <1>11, <1>12 DEF Next, Handle

(* Refresh tokens: in the table, taken by one request, or served, for any  *)
(* users, browsers and tabs, with failing calls and lost answers.          *)
THEOREM OnceInvariant == Spec => []OnceInv
<1>1. Init => OnceInv
  BY LoginAssumption DEF Init, OnceInv, Typed, Sent, Counts
<1>2. QED
  BY <1>1, OnceStep, PTL DEF Spec

(* A refresh token buys one new pair of tokens (lookupRefreshToken).       *)
THEOREM ServedOnce == Spec => RefreshServesOnce
<1>1. OnceInv /\ [Next]_vars => [\A t \in Tab : Refreshes(t) => req[t].token \notin served]_vars
  BY DEF OnceInv, Refreshes, Sent, At
<1>2. QED
  BY <1>1, OnceInvariant, PTL DEF Spec, RefreshServesOnce

-----------------------------------------------------------------------------
(* What a step makes of the requests of the other tabs: they learn at most *)
(* that the table of second factors has changed.                           *)
Alike(r, q) ==
    /\ r.op = q.op /\ r.at = q.at /\ r.user = q.user
    /\ r.code = q.code /\ r.token = q.token /\ r.secret = q.secret
    /\ r.authorized = q.authorized /\ r.presented = q.presented
    /\ r.guarded => q.guarded

Kept(x) ==
    /\ req[x] = Idle => req'[x] = Idle
    /\ req[x] # Idle => req'[x] # Idle /\ Alike(req'[x], req[x])

(* Reguarded lowers the guard of the requests whose user has no verified   *)
(* row any more, and changes nothing else.                                 *)
LEMMA Reguarding ==
    ASSUME NEW rs, NEW reqs \in [Tab -> Request \cup {Idle}], NEW x \in Tab
    PROVE  /\ reqs[x] = Idle => Reguarded(rs, reqs)[x] = Idle
           /\ reqs[x] # Idle => /\ Reguarded(rs, reqs)[x] # Idle
                                /\ Alike(Reguarded(rs, reqs)[x], reqs[x])
                                /\ Reguarded(rs, reqs)[x].guarded => Verified(rs, reqs[x].user)
<1>1. CASE reqs[x] = Idle
  BY <1>1 DEF Reguarded
<1>2. CASE reqs[x] # Idle
  <2>1. reqs[x] \in Request
    BY <1>2
  <2>2. Verified(rs, reqs[x].user) \in BOOLEAN
    BY DEF Verified
  <2>3. ASSUME NEW q \in Request, NEW v \in BOOLEAN
        PROVE  LET r == [q EXCEPT !.guarded = @ /\ v]
               IN  r # Idle /\ Alike(r, q) /\ (r.guarded => v)
    <3>1. [q EXCEPT !.guarded = @ /\ v] \in Request
      BY DEF Request
    <3>2. [q EXCEPT !.guarded = @ /\ v] # Idle
      BY <3>1, IdleAssumption
    <3>3. QED
      BY <3>2 DEF Alike, Request
  <2>4. Reguarded(rs, reqs)[x] = [reqs[x] EXCEPT !.guarded = @ /\ Verified(rs, reqs[x].user)]
    BY <1>2 DEF Reguarded
  <2>5. QED
    BY ONLY <1>2, <2>1, <2>2, <2>3, <2>4
<1>3. QED
  BY <1>1, <1>2

(* A request that is not touched is kept.                                  *)
LEMMA Untouched ==
    ASSUME NEW x, req'[x] = req[x]
    PROVE  Kept(x)
BY DEF Kept, Alike

(* A write of the table of second factors, after which the request of t is *)
(* reqs[t].                                                                *)
LEMMA WriteKeeps ==
    ASSUME Typed, NEW t \in Tab, NEW rs, NEW q \in Request \cup {Idle},
           req' = Reguarded(rs, [req EXCEPT ![t] = q])
    PROVE  /\ \A x \in Tab \ {t} : Kept(x) /\ (req'[x] # Idle /\ req'[x].guarded => Verified(rs, req'[x].user))
           /\ q = Idle => req'[t] = Idle
           /\ q # Idle => req'[t] # Idle /\ Alike(req'[t], q) /\ (req'[t].guarded => Verified(rs, req'[t].user))
<1> DEFINE reqs == [req EXCEPT ![t] = q]
<1>1. /\ reqs \in [Tab -> Request \cup {Idle}] /\ reqs[t] = q
      /\ \A x \in Tab \ {t} : reqs[x] = req[x]
      /\ req' = Reguarded(rs, reqs)
  BY DEF Typed
<1> HIDE DEF reqs
<1>2. \A x \in Tab : /\ reqs[x] = Idle => req'[x] = Idle
                     /\ reqs[x] # Idle => /\ req'[x] # Idle /\ Alike(req'[x], reqs[x])
                                          /\ req'[x].guarded => Verified(rs, reqs[x].user)
  BY ONLY <1>1, Reguarding
<1>3. \A x \in Tab : reqs[x] # Idle => req'[x].user = reqs[x].user
  BY <1>2 DEF Alike
<1>4. QED
  BY <1>1, <1>2, <1>3 DEF Kept

(* A step of the tab t: of its browser, of a handler, or one that fails.   *)
Acts(t) ==
    \/ \E op \in Op, u \in User, code \in Secret \cup {None} : Begin(t, op, u, code)
    \/ Handle(t)
    \/ Fails(t)

(* A step of a tab keeps the requests of the others.                       *)
LEMMA OthersKept ==
    ASSUME Typed, NEW t \in Tab, Acts(t)
    PROVE  \A x \in Tab \ {t} : Kept(x)
<1> DEFINE Result == \A x \in Tab \ {t} : Kept(x)
<1>1. ASSUME NEW q, req' = [req EXCEPT ![t] = q] PROVE Result
  BY <1>1, Untouched DEF Typed
<1>2. ASSUME NEW rs, NEW q \in Request \cup {Idle}, req' = Reguarded(rs, [req EXCEPT ![t] = q])
      PROVE  Result
  BY <1>2, WriteKeeps
<1> HIDE DEF Result
<1>3. ASSUME NEW op \in Op, NEW u \in User, NEW code \in Secret \cup {None}, Begin(t, op, u, code)
      PROVE  Result
  BY <1>1, <1>3 DEF Begin
<1>4. ASSUME ReadLogin(t) PROVE Result
  BY <1>1, <1>4 DEF ReadLogin
<1>5. ASSUME ReadAuthorize(t) PROVE Result
  BY <1>1, <1>5 DEF ReadAuthorize, Ends
<1>6. ASSUME ReadVerify(t) PROVE Result
  BY <1>1, <1>6 DEF ReadVerify, Ends
<1>7. ASSUME LookupRefresh(t) PROVE Result
  BY <1>1, <1>7 DEF LookupRefresh, Ends
<1>8. ASSUME LookupLogout(t) PROVE Result
  BY <1>1, <1>8 DEF LookupLogout, Step
<1>9. ASSUME GetUser(t) PROVE Result
  BY <1>1, <1>9 DEF GetUser
<1>10. ASSUME Issue(t) PROVE Result
  BY <1>1, <1>10 DEF Issue
<1>11. ASSUME WriteStatus(t) PROVE Result
  <2>1. [req[t] EXCEPT !.at = "answer"] \in Request
    BY <1>11 DEF WriteStatus, At, Typed, Request
  <2>2. req' = Reguarded(Written(t), [req EXCEPT ![t] = [req[t] EXCEPT !.at = "answer"]])
    BY <1>11 DEF WriteStatus
  <2>3. QED
    BY <1>2, <2>1, <2>2
<1>12. ASSUME Answer(t) PROVE Result
  BY <1>1, <1>12 DEF Answer, Ends
<1>13. ASSUME Fails(t) PROVE Result
  <2>1. \/ Ends(t) \/ Step(t, "answer") \/ req' = Reguarded(Written(t), [req EXCEPT ![t] = Idle])
    BY <1>13 DEF Fails
  <2>2. QED
    BY <1>1, <1>2, <2>1 DEF Ends, Step
<1>14. QED
  BY <1>3, <1>4, <1>5, <1>6, <1>7, <1>8, <1>9, <1>10, <1>11, <1>12, <1>13 DEF Acts, Handle, Result

(* A step is one of some tab, or changes nothing.                          *)
LEMMA ATabActs == [Next]_vars => (\E t \in Tab : Acts(t)) \/ UNCHANGED vars
BY DEF Next, Acts

(* Where requests of each kind can be.                                     *)
PlacedAt(t) ==
    req[t] # Idle =>
      /\ req[t].at = "write" => req[t].op \in {"enable", "disable", "verify"}
      /\ req[t].at = "user" => req[t].op = "refresh"
      /\ req[t].at = "lookup" => req[t].op \in {"refresh", "logout"}
      /\ req[t].op = "refresh" /\ req[t].at \in {"issue", "answer"} => req[t].authorized

Placed == \A t \in Tab : PlacedAt(t)

(* A request is always at a step of its own kind.                          *)
LEMMA PlacedStep == Typed /\ Placed /\ [Next]_vars => Placed'
<1> SUFFICES ASSUME Typed, Placed, [Next]_vars PROVE Placed'
  OBVIOUS
<1>1. ASSUME NEW t \in Tab, Acts(t) PROVE Placed'
  <2>1. \A x \in Tab \ {t} : PlacedAt(x)'
    <3>1. \A x \in Tab \ {t} : Kept(x)
      BY <1>1, OthersKept
    <3>2. QED
      BY <3>1 DEF Kept, Alike, PlacedAt, Placed
  <2> USE DEF Typed, Request, At, Step, Ends, PlacedAt
  <2>p. PlacedAt(t)
    BY DEF Placed
  <2>2. ASSUME NEW op \in Op, NEW u \in User, NEW code \in Secret \cup {None}, Begin(t, op, u, code)
        PROVE  PlacedAt(t)'
    BY <2>2 DEF Begin, First, Op
  <2>3. ASSUME ReadLogin(t) PROVE PlacedAt(t)'
    BY <2>3, <2>p DEF ReadLogin
  <2>4. ASSUME ReadAuthorize(t) PROVE PlacedAt(t)'
    BY <2>4, <2>p DEF ReadAuthorize
  <2>5. ASSUME ReadVerify(t) PROVE PlacedAt(t)'
    BY <2>5, <2>p DEF ReadVerify
  <2>6. ASSUME LookupRefresh(t) PROVE PlacedAt(t)'
    BY <2>6, <2>p DEF LookupRefresh
  <2>7. ASSUME LookupLogout(t) PROVE PlacedAt(t)'
    BY <2>7, <2>p DEF LookupLogout
  <2>8. ASSUME GetUser(t) PROVE PlacedAt(t)'
    BY <2>8, <2>p DEF GetUser
  <2>9. ASSUME Issue(t) PROVE PlacedAt(t)'
    BY <2>9, <2>p DEF Issue
  <2>10. ASSUME WriteStatus(t) PROVE PlacedAt(t)'
    <3>1. [req[t] EXCEPT !.at = "answer"] \in Request /\ req[t] # Idle /\ req[t].at = "write"
      BY <2>10 DEF WriteStatus
    <3>2. req' = Reguarded(Written(t), [req EXCEPT ![t] = [req[t] EXCEPT !.at = "answer"]])
      BY <2>10 DEF WriteStatus
    <3>3. req'[t] # Idle => Alike(req'[t], [req[t] EXCEPT !.at = "answer"])
      BY <3>1, <3>2, WriteKeeps, IdleAssumption
    <3>4. QED
      BY <3>1, <3>3, <2>p DEF Alike
  <2>11. ASSUME Answer(t) PROVE PlacedAt(t)'
    BY <2>11 DEF Answer
  <2>12. ASSUME Fails(t) PROVE PlacedAt(t)'
    <3>1. CASE Ends(t)
      BY <3>1
    <3>2. CASE Step(t, "answer") /\ req[t].op = "logout" /\ req[t] # Idle
      BY <3>2
    <3>3. CASE req' = Reguarded(Written(t), [req EXCEPT ![t] = Idle])
      BY <3>3, WriteKeeps
    <3>4. QED
      BY <2>12, <3>1, <3>2, <3>3 DEF Fails
  <2>13. PlacedAt(t)'
    BY <1>1, <2>2, <2>3, <2>4, <2>5, <2>6, <2>7, <2>8, <2>9, <2>10, <2>11, <2>12 DEF Acts, Handle
  <2>14. QED
    BY <2>1, <2>13 DEF Placed
<1>2. CASE UNCHANGED vars
  BY <1>2 DEF vars, Placed, PlacedAt
<1>3. QED
  BY <1>1, <1>2, ATabActs

(* The request looks up the token it carries ...                           *)
Looks(t) == req[t] # Idle /\ req[t].at = "lookup"

(* ... or brings its browser a new one, or will take away the one it has.  *)
Brings(t) ==
    /\ req[t] # Idle /\ req[t].at = "answer" /\ req[t].authorized
    /\ req[t].op \in {"login", "authorize", "refresh"}
Replaces(t) ==
    /\ req[t] # Idle
    /\ \/ req[t].op = "refresh" /\ req[t].at \in {"user", "issue", "answer"}
       \/ req[t].op = "logout" /\ req[t].at = "answer"

(* A token is known to one browser, whose cookie it is or whose requests   *)
(* carry it, and one that is on its way to a browser to one request.       *)
CookieOwned == \A b \in Browser : cookie[b] # None =>
    /\ cookie[b] <= made.tokens
    /\ \A c \in Browser : b # c => cookie[b] # cookie[c]
LooksOwned(t) == Looks(t) =>
    /\ req[t].token \in Token /\ req[t].token <= made.tokens
    /\ \A b \in Browser : b # BrowserOf[t] => cookie[b] # req[t].token
BringsOwned(t) == Brings(t) =>
    /\ req[t].token \in Token /\ req[t].token <= made.tokens
    /\ \A b \in Browser : cookie[b] # req[t].token
    /\ \A x \in Tab : x # t /\ (Looks(x) \/ Brings(x)) => req[x].token # req[t].token

OwnersInv == CookieOwned /\ \A t \in Tab : LooksOwned(t) /\ BringsOwned(t)

(* Without faults, a token on its way can be used, and so can one that a   *)
(* browser has unless a request of the browser is about to replace it.     *)
LivesInv ==
    made.faults = 0 =>
      /\ \A t \in Tab : Brings(t) => refresh[req[t].token] # None
      /\ \A b \in Browser : cookie[b] # None =>
           \/ refresh[cookie[b]] # None
           \/ \E t \in Tab : BrowserOf[t] = b /\ Replaces(t)

CookieInv == Placed /\ OwnersInv /\ LivesInv

(* The request of x looks up or brings what it did before.                 *)
Carries(x) ==
    /\ Looks(x)' => Looks(x) /\ req'[x].token = req[x].token
    /\ Brings(x)' => Brings(x) /\ req'[x].token = req[x].token

(* A request that is kept carries and replaces the same.                   *)
LEMMA KeptCarries ==
    ASSUME NEW x, Kept(x)
    PROVE  Carries(x) /\ (Replaces(x) => Replaces(x)')
BY DEF Kept, Alike, Carries, Looks, Brings, Replaces

(* A step that gives nobody another token and makes no fewer of them.      *)
LEMMA OwnersQuiet ==
    ASSUME Typed, Typed', OwnersInv, cookie' = cookie, made.tokens <= made'.tokens,
           \A x \in Tab : Carries(x)
    PROVE  OwnersInv'
<1>1. \A k \in Token : k <= made.tokens => k <= made'.tokens
  BY DEF Typed, Counts, Token
<1>2. CookieOwned'
  BY <1>1 DEF OwnersInv, CookieOwned, Typed
<1>3. \A x \in Tab : LooksOwned(x)'
  BY <1>1 DEF OwnersInv, LooksOwned, Carries
<1>4. \A x \in Tab : BringsOwned(x)'
  BY <1>1 DEF OwnersInv, BringsOwned, Carries
<1>5. QED
  BY <1>2, <1>3, <1>4 DEF OwnersInv

(* A step that takes no token and ends no request that replaces one.       *)
LEMMA LivesQuiet ==
    ASSUME LivesInv, cookie' = cookie, refresh' = refresh, made'.faults = 0 => made.faults = 0,
           \A x \in Tab : Carries(x) /\ (Replaces(x) => Replaces(x)')
    PROVE  LivesInv'
BY DEF LivesInv, Carries

(* A token of a request that looks it up is taken, and the request will    *)
(* replace the cookie.                                                     *)
LEMMA TakeStep ==
    ASSUME Typed, Typed', OwnersInv, LivesInv, NEW t \in Tab, Looks(t), Take(t),
           cookie' = cookie, made' = made,
           Replaces(t)', Carries(t), \A x \in Tab \ {t} : Kept(x)
    PROVE  OwnersInv' /\ LivesInv'
<1>1. \A x \in Tab : Carries(x) /\ (Replaces(x) => Replaces(x)')
  BY KeptCarries
<1>2. OwnersInv'
  <2>1. made.tokens <= made'.tokens
    BY DEF Typed, Counts
  <2>2. QED
    BY <1>1, <2>1, OwnersQuiet
<1>3. \A k \in Token : k # req[t].token => refresh'[k] = refresh[k]
  BY DEF Take, Taken, Typed
<1>4. \A b \in Browser : b # BrowserOf[t] => cookie[b] # req[t].token
  BY DEF OwnersInv, LooksOwned
<1>5. \A x \in Tab : Brings(x) => req[x].token \in Token /\ req[x].token # req[t].token
  BY DEF OwnersInv, BringsOwned, Looks, Brings
<1>6. LivesInv'
  <2> SUFFICES ASSUME made.faults = 0
               PROVE  /\ \A x \in Tab : Brings(x)' => refresh'[req'[x].token] # None
                      /\ \A b \in Browser : cookie[b] # None =>
                           \/ refresh'[cookie[b]] # None
                           \/ \E x \in Tab : BrowserOf[x] = b /\ Replaces(x)'
    BY DEF LivesInv
  <2>1. \A x \in Tab : Brings(x)' => refresh'[req'[x].token] # None
    BY <1>1, <1>3, <1>5 DEF LivesInv, Carries
  <2>2. ASSUME NEW b \in Browser, cookie[b] # None
        PROVE  \/ refresh'[cookie[b]] # None
               \/ \E x \in Tab : BrowserOf[x] = b /\ Replaces(x)'
    <3>1. cookie[b] \in Token
      BY <2>2 DEF Typed
    <3>2. CASE b = BrowserOf[t]
      BY <3>2
    <3>3. CASE b # BrowserOf[t]
      BY <1>1, <1>3, <1>4, <2>2, <3>1, <3>3 DEF LivesInv
    <3>4. QED
      BY <3>2, <3>3
  <2>3. QED
    BY <2>1, <2>2
<1>7. QED
  BY <1>2, <1>6

(* A token that is issued is new to everybody.                             *)
LEMMA IssueOwned ==
    ASSUME OnceInv, Typed', OwnersInv, LivesInv, NEW t \in Tab, Issue(t), \A x \in Tab \ {t} : Kept(x)
    PROVE  OwnersInv' /\ LivesInv'
<1> DEFINE n == made.tokens + 1
<1>1. /\ req[t] # Idle /\ req[t].at = "issue" /\ req[t] \in Request /\ n \in Token
      /\ made'.tokens = n /\ made'.faults = made.faults /\ cookie' = cookie
      /\ refresh' = [refresh EXCEPT ![n] = req[t].user]
      /\ req'[t].token = n /\ req'[t].at = "answer" /\ req'[t].op = req[t].op
  BY DEF Issue, At, Issued, OnceInv, Typed, Counts, Token, Tokens, Request
<1>2. req[t].user \in User /\ req[t].user # None
  BY <1>1, LoginAssumption DEF Request
<1>3. \A k \in Token : k <= made.tokens => k # n /\ k <= n
  BY DEF OnceInv, Typed, Counts, Token
<1> HIDE DEF n
<1>4. Typed
  BY DEF OnceInv
<1>5. \A k \in Token : k # n => refresh'[k] = refresh[k]
  BY <1>1, <1>4 DEF Typed
<1>6. refresh'[n] # None
  BY <1>1, <1>2, <1>4 DEF Typed
<1>7. \A x \in Tab \ {t} : Carries(x)
  BY KeptCarries
<1>8. ~ Looks(t)'
  BY <1>1 DEF Looks
<1>9. \A b \in Browser : cookie[b] # None => cookie[b] \in Token /\ cookie[b] # n /\ cookie[b] <= n
  BY <1>3, <1>4 DEF Typed, OwnersInv, CookieOwned
<1>10. \A b \in Browser : cookie[b] # n
  BY <1>1, <1>9, LoginAssumption DEF Token
<1>11. \A x \in Tab : Looks(x) \/ Brings(x) => req[x].token \in Token /\ req[x].token # n /\ req[x].token <= n
  BY <1>3 DEF OwnersInv, LooksOwned, BringsOwned
<1>12. CookieOwned'
  BY <1>1, <1>9 DEF OwnersInv, CookieOwned
<1>13. \A x \in Tab : LooksOwned(x)'
  BY <1>1, <1>7, <1>8, <1>11 DEF OwnersInv, LooksOwned, Carries
<1>14. n <= n
  BY <1>1 DEF Token
<1>15. BringsOwned(t)'
  BY <1>1, <1>7, <1>10, <1>11, <1>14 DEF BringsOwned, Carries
<1>16. \A x \in Tab \ {t} : BringsOwned(x)'
  BY <1>1, <1>7, <1>8, <1>11 DEF OwnersInv, BringsOwned, Carries
<1>17. Replaces(t) => Replaces(t)'
  <2>1. req'[t] \in Request
    BY <1>1, <1>4 DEF Issue, Typed, Request
  <2>2. QED
    BY <1>1, <2>1, IdleAssumption DEF Replaces
<1>18. LivesInv'
  <2> SUFFICES ASSUME made.faults = 0
               PROVE  /\ \A x \in Tab : Brings(x)' => refresh'[req'[x].token] # None
                      /\ \A b \in Browser : cookie[b] # None =>
                           \/ refresh'[cookie[b]] # None
                           \/ \E x \in Tab : BrowserOf[x] = b /\ Replaces(x)'
    BY <1>1 DEF LivesInv
  <2>1. \A x \in Tab : Brings(x)' => refresh'[req'[x].token] # None
    BY <1>1, <1>5, <1>6, <1>7, <1>11 DEF LivesInv, Carries
  <2>2. \A x \in Tab : Replaces(x) => Replaces(x)'
    BY <1>17, KeptCarries
  <2>3. QED
    BY <1>5, <1>9, <2>1, <2>2 DEF LivesInv
<1>19. QED
  BY <1>12, <1>13, <1>15, <1>16, <1>18 DEF OwnersInv

(* The answer makes the token that it brings the cookie of its browser, or *)
(* takes the cookie away.                                                  *)
LEMMA AnswerOwned ==
    ASSUME Typed, Typed', OwnersInv, LivesInv, Placed, NEW t \in Tab, Answer(t),
           \A x \in Tab \ {t} : Kept(x)
    PROVE  OwnersInv' /\ LivesInv'
<1> DEFINE b == BrowserOf[t]
           k == req[t].token
<1>1. /\ req[t] # Idle /\ req[t].at = "answer" /\ req'[t] = Idle
      /\ made' = made /\ refresh' = refresh /\ b \in Browser
  BY LoginAssumption DEF Answer, At, Ends, Tables, Typed
<1>2. \A x \in Tab \ {t} : Carries(x) /\ (Replaces(x) => Replaces(x)')
  BY KeptCarries
<1>3. ~ Looks(t)' /\ ~ Brings(t)' /\ Carries(t)
  BY <1>1 DEF Looks, Brings, Carries
<1>4. \/ cookie' = cookie /\ ~ Brings(t) /\ ~ Replaces(t)
      \/ cookie' = [cookie EXCEPT ![b] = k] /\ Brings(t)
      \/ cookie' = [cookie EXCEPT ![b] = None]
  BY <1>1 DEF Answer, Brings, Replaces, Placed, PlacedAt, Tokens
<1> HIDE DEF k, b
<1>5. CASE cookie' = cookie /\ ~ Replaces(t)
  <2>1. made.tokens <= made'.tokens
    BY <1>1 DEF Typed, Counts
  <2>2. QED
    BY <1>1, <1>2, <1>3, <1>5, <2>1, OwnersQuiet, LivesQuiet
<1>6. CASE cookie' = [cookie EXCEPT ![b] = k] /\ Brings(t)
  <2>1. cookie'[b] = k /\ \A c \in Browser \ {b} : cookie'[c] = cookie[c]
    BY <1>1, <1>6 DEF Typed
  <2>2. /\ k \in Token /\ k <= made.tokens
        /\ \A c \in Browser : cookie[c] # k
        /\ \A x \in Tab : x # t /\ (Looks(x) \/ Brings(x)) => req[x].token # k
    BY <1>6 DEF OwnersInv, BringsOwned, k
  <2>3. CookieOwned'
    BY <1>1, <2>1, <2>2 DEF OwnersInv, CookieOwned
  <2>4. \A x \in Tab : LooksOwned(x)'
    BY <1>1, <1>2, <1>3, <2>1, <2>2 DEF OwnersInv, LooksOwned, Carries
  <2>5. \A x \in Tab : BringsOwned(x)'
    BY <1>1, <1>2, <1>3, <2>1, <2>2 DEF OwnersInv, BringsOwned, Carries
  <2>6. LivesInv'
    <3> SUFFICES ASSUME made.faults = 0
                 PROVE  /\ \A x \in Tab : Brings(x)' => refresh[req'[x].token] # None
                        /\ \A c \in Browser : cookie'[c] # None =>
                             \/ refresh[cookie'[c]] # None
                             \/ \E x \in Tab : BrowserOf[x] = c /\ Replaces(x)'
      BY <1>1 DEF LivesInv
    <3>1. \A x \in Tab : Brings(x)' => refresh[req'[x].token] # None
      BY <1>2, <1>3 DEF LivesInv, Carries
    <3>2. refresh[cookie'[b]] # None
      BY <1>6, <2>1 DEF LivesInv, k
    <3>3. ASSUME NEW c \in Browser \ {b}, cookie'[c] # None
          PROVE  \/ refresh[cookie'[c]] # None
                 \/ \E x \in Tab : BrowserOf[x] = c /\ Replaces(x)'
      <4>1. cookie[c] # None /\ cookie'[c] = cookie[c]
        BY <2>1, <3>3
      <4>2. \A x \in Tab : BrowserOf[x] = c => x # t
        BY <3>3 DEF b
      <4>3. QED
        BY <1>2, <4>1, <4>2 DEF LivesInv
    <3>4. QED
      BY <3>1, <3>2, <3>3
  <2>7. QED
    BY <2>3, <2>4, <2>5, <2>6 DEF OwnersInv
<1>7. CASE cookie' = [cookie EXCEPT ![b] = None]
  <2>1. cookie'[b] = None /\ \A c \in Browser \ {b} : cookie'[c] = cookie[c]
    BY <1>1, <1>7 DEF Typed
  <2>2. None \notin Token
    BY LoginAssumption DEF Token
  <2>3. CookieOwned'
    BY <1>1, <2>1 DEF OwnersInv, CookieOwned
  <2>4. \A x \in Tab : LooksOwned(x)'
    BY <1>1, <1>2, <1>3, <2>1, <2>2 DEF OwnersInv, LooksOwned, Carries
  <2>5. \A x \in Tab : BringsOwned(x)'
    BY <1>1, <1>2, <1>3, <2>1, <2>2 DEF OwnersInv, BringsOwned, Carries
  <2>6. LivesInv'
    <3> SUFFICES ASSUME made.faults = 0
                 PROVE  /\ \A x \in Tab : Brings(x)' => refresh[req'[x].token] # None
                        /\ \A c \in Browser : cookie'[c] # None =>
                             \/ refresh[cookie'[c]] # None
                             \/ \E x \in Tab : BrowserOf[x] = c /\ Replaces(x)'
      BY <1>1 DEF LivesInv
    <3>1. \A x \in Tab : Brings(x)' => refresh[req'[x].token] # None
      BY <1>2, <1>3 DEF LivesInv, Carries
    <3>2. ASSUME NEW c \in Browser, cookie'[c] # None
          PROVE  \/ refresh[cookie'[c]] # None
                 \/ \E x \in Tab : BrowserOf[x] = c /\ Replaces(x)'
      <4>1. c # b /\ cookie[c] # None /\ cookie'[c] = cookie[c]
        BY <2>1, <3>2
      <4>2. \A x \in Tab : BrowserOf[x] = c => x # t
        BY <4>1 DEF b
      <4>3. QED
        BY <1>2, <4>1, <4>2 DEF LivesInv
    <3>3. QED
      BY <3>1, <3>2
  <2>7. QED
    BY <2>3, <2>4, <2>5, <2>6 DEF OwnersInv
<1>8. QED
  BY <1>4, <1>5, <1>6, <1>7

(* A write of the table counts no fewer faults ...                         *)
LEMMA FaultsGrow ==
    ASSUME made \in Counts, NEW t, Writes(t)
    PROVE  made'.faults = (IF req'[t] = Idle THEN made.faults + 1 ELSE made.faults)
           /\ (made'.faults = 0 => made.faults = 0)
<1> DEFINE s == IF req[t].op = "enable" THEN made.secrets + 1 ELSE made.secrets
           f == IF req'[t] = Idle THEN made.faults + 1 ELSE made.faults
<1>1. f \in Nat /\ (f = 0 => made.faults = 0)
  BY DEF Counts
<1>2. made' = [made EXCEPT !.secrets = s, !.faults = f]
  BY DEF Writes, Counts
<1> HIDE DEF s
<1>3. made'.faults = f
  BY <1>2 DEF Counts
<1>4. QED
  BY <1>1, <1>3

(* ... and a call that fails counts one more.                              *)
LEMMA FailsCount ==
    ASSUME Typed, NEW t \in Tab, Fails(t)
    PROVE  made.tokens <= made'.tokens /\ made'.faults # 0
<1>1. made \in Counts /\ made.tokens \in Nat /\ made.faults \in Nat
  BY DEF Typed, Counts
<1>2. CASE made' = [made EXCEPT !.faults = @ + 1]
  BY <1>1, <1>2 DEF Counts
<1>3. CASE made' = [made EXCEPT !.faults = @ + 1, !.tokens = @ + 1]
  <2>1. made'.tokens = made.tokens + 1
    BY <1>1, <1>3, Counting
  <2>2. made'.faults = made.faults + 1
    BY <1>1, <1>3 DEF Counts
  <2>3. QED
    BY <1>1, <2>1, <2>2
<1>4. CASE req' = Reguarded(Written(t), [req EXCEPT ![t] = Idle]) /\ Writes(t)
  <2>1. req'[t] = Idle
    BY <1>4, WriteKeeps
  <2>2. made'.tokens = made.tokens /\ made'.faults = made.faults + 1
    BY <1>1, <1>4, <2>1, WritesCount, FaultsGrow
  <2>3. QED
    BY <1>1, <2>2
<1>5. QED
  BY <1>2, <1>3, <1>4 DEF Fails

(* Every step keeps CookieInv.                                             *)
LEMMA CookieStep == OnceInv /\ CookieInv /\ [Next]_vars => CookieInv'
<1> SUFFICES ASSUME OnceInv, CookieInv, [Next]_vars PROVE CookieInv'
  OBVIOUS
<1>0. Typed /\ Typed' /\ Placed /\ Placed' /\ OwnersInv /\ LivesInv
  BY TypedStep, PlacedStep DEF OnceInv, CookieInv
<1>1. ASSUME NEW t \in Tab, Acts(t) PROVE OwnersInv' /\ LivesInv'
  <2>1. \A x \in Tab \ {t} : Kept(x) /\ Carries(x) /\ (Replaces(x) => Replaces(x)')
    BY <1>0, <1>1, OthersKept, KeptCarries
  <2>q. ASSUME Carries(t), Replaces(t) => Replaces(t)', made' = made, refresh' = refresh, cookie' = cookie
        PROVE  OwnersInv' /\ LivesInv'
    <3>1. made.tokens <= made'.tokens
      BY <1>0, <2>q DEF Typed, Counts
    <3>2. QED
      BY <1>0, <2>1, <2>q, <3>1, OwnersQuiet, LivesQuiet
  <2> USE DEF At, Step, Ends, Tokens, Tables, Carries, Looks, Brings, Replaces
  <2>r. /\ req[t] # Idle => req[t] \in Request
        /\ req'[t] # Idle => req'[t] \in Request
    BY <1>0 DEF Typed
  <2>2. ASSUME NEW op \in Op, NEW u \in User, NEW code \in Secret \cup {None}, Begin(t, op, u, code)
        PROVE  OwnersInv' /\ LivesInv'
    <3> DEFINE b == BrowserOf[t]
    <3>1. /\ cookie' = cookie /\ refresh' = refresh
          /\ made'.tokens = made.tokens /\ made'.faults = made.faults
          /\ req[t] = Idle /\ req'[t].token = cookie[b] /\ req'[t].at \in {"status", "lookup", "write"}
          /\ req'[t].op = op /\ req'[t].at = First(op)
          /\ b \in Browser
      <4>1. First(op) \in {"status", "lookup", "write"}
        BY DEF First, Op
      <4>2. made'.tokens = made.tokens /\ made'.faults = made.faults
        BY <1>0, <2>2 DEF Begin, Typed, Counts
      <4>3. b \in Browser
        BY LoginAssumption
      <4>4. /\ req'[t].token = cookie[b] /\ req'[t].op = op /\ req'[t].at = First(op) /\ req[t] = Idle
        BY <1>0, <2>2 DEF Begin, Typed
      <4>5. cookie' = cookie /\ refresh' = refresh
        BY <2>2 DEF Begin
      <4>6. QED
        BY <4>1, <4>2, <4>3, <4>4, <4>5
    <3>2. Looks(t)' => cookie[b] # None
      <4>1. First(op) = "lookup" => op \in {"refresh", "logout"}
        BY DEF First, Op
      <4>2. op \in {"refresh", "logout"} => cookie[b] # None
        BY <2>2 DEF Begin, Accepted
      <4>3. QED
        BY <3>1, <4>1, <4>2
    <3>3. ~ Brings(t)' /\ ~ Replaces(t)
      BY <3>1
    <3>4. \A x \in Tab \ {t} : Carries(x)
      BY <2>1
    <3> HIDE DEF b
    <3>5. LivesInv'
      <4>1. \A x \in Tab : Brings(x)' => Brings(x) /\ req'[x].token = req[x].token
        BY <2>1, <3>3
      <4>2. \A x \in Tab : Replaces(x) => Replaces(x)'
        BY <2>1, <3>3
      <4> HIDE DEF Brings, Replaces
      <4>3. QED
        BY <1>0, <3>1, <4>1, <4>2 DEF LivesInv
    <3> HIDE DEF Carries, Looks, Brings, Replaces
    <3>6. CookieOwned'
      BY <1>0, <3>1 DEF OwnersInv, CookieOwned
    <3>7. LooksOwned(t)'
      <4>1. Looks(t)' => cookie[b] \in Token
        BY <1>0, <3>1, <3>2 DEF Typed
      <4>2. QED
        BY <1>0, <3>1, <3>2, <4>1 DEF OwnersInv, CookieOwned, LooksOwned, b
    <3>8. \A x \in Tab \ {t} : LooksOwned(x)'
      BY <1>0, <3>1, <3>4 DEF OwnersInv, LooksOwned, Carries
    <3>9. \A x \in Tab : BringsOwned(x)'
      BY <1>0, <3>1, <3>3, <3>4 DEF OwnersInv, BringsOwned, Carries
    <3>10. QED
      BY <3>5, <3>6, <3>7, <3>8, <3>9 DEF OwnersInv
  <2>3. ASSUME ReadLogin(t) PROVE OwnersInv' /\ LivesInv'
    <3>1. /\ req[t] # Idle /\ req[t].op = "login" /\ req[t].at = "status"
          /\ req'[t].op = "login" /\ (req'[t].at = "issue" \/ ~ req'[t].authorized)
          /\ req'[t].at \in {"issue", "answer"}
      BY <1>0, <2>3, <2>r DEF ReadLogin, Typed, Request
    <3>2. QED
      BY <2>3, <2>q, <3>1 DEF ReadLogin
  <2>4. ASSUME ReadAuthorize(t) PROVE OwnersInv' /\ LivesInv'
    <3>1. /\ req[t] # Idle /\ req[t].op = "authorize" /\ req[t].at = "status"
          /\ req'[t] = Idle \/ req'[t].at = "issue"
      BY <1>0, <2>4, <2>r DEF ReadAuthorize, Typed, Request
    <3>2. QED
      BY <2>4, <2>q, <3>1 DEF ReadAuthorize
  <2>5. ASSUME ReadVerify(t) PROVE OwnersInv' /\ LivesInv'
    <3>1. /\ req[t] # Idle /\ req[t].op = "verify" /\ req[t].at = "status"
          /\ req'[t] = Idle \/ req'[t].at = "write"
      BY <1>0, <2>5, <2>r DEF ReadVerify, Typed, Request
    <3>2. QED
      BY <2>5, <2>q, <3>1 DEF ReadVerify
  <2>6. ASSUME LookupRefresh(t) PROVE OwnersInv' /\ LivesInv'
    <3>1. CASE refresh[req[t].token] = None
      <4>1. req[t].at = "lookup" /\ req'[t] = Idle
        BY <1>0, <2>6, <3>1 DEF LookupRefresh, Typed
      <4>2. QED
        BY <2>6, <2>q, <3>1, <4>1 DEF LookupRefresh
    <3>2. CASE refresh[req[t].token] # None
      <4>1. /\ req[t] # Idle /\ req[t].at = "lookup" /\ req[t].op = "refresh" /\ Take(t)
            /\ cookie' = cookie /\ made' = made
            /\ req'[t] = [req[t] EXCEPT !.user = refresh[req[t].token], !.at = "user"]
        BY <1>0, <2>6, <3>2 DEF LookupRefresh, Typed
      <4>2. req[t].token \in Token /\ refresh[req[t].token] \in User
        BY <1>0, <3>2, <4>1 DEF Typed
      <4>3. req'[t] \in Request /\ req'[t].at = "user" /\ req'[t].op = "refresh"
        BY <2>r, <4>1, <4>2 DEF Request
      <4>4. Replaces(t)' /\ Carries(t) /\ Looks(t)
        BY <4>1, <4>3, IdleAssumption
      <4> HIDE DEF Carries, Looks, Brings, Replaces
      <4>5. QED
        BY <1>0, <2>1, <4>1, <4>4, TakeStep
    <3>3. QED
      BY <3>1, <3>2
  <2>7. ASSUME LookupLogout(t) PROVE OwnersInv' /\ LivesInv'
    <3>1. /\ req[t] # Idle /\ req[t].at = "lookup" /\ req[t].op = "logout" /\ Take(t)
          /\ cookie' = cookie /\ made' = made
          /\ req'[t] = [req[t] EXCEPT !.at = "answer"]
      BY <1>0, <2>7 DEF LookupLogout, Typed
    <3>2. req'[t] \in Request /\ req'[t].at = "answer" /\ req'[t].op = "logout"
      BY <2>r, <3>1 DEF Request
    <3>3. Replaces(t)' /\ Carries(t) /\ Looks(t)
      BY <3>1, <3>2, IdleAssumption
    <3> HIDE DEF Carries, Looks, Brings, Replaces
    <3>4. QED
      BY <1>0, <2>1, <3>1, <3>3, TakeStep
  <2>8. ASSUME GetUser(t) PROVE OwnersInv' /\ LivesInv'
    <3>1. /\ req[t] # Idle /\ req[t].at = "user" /\ req[t].op = "refresh"
          /\ req'[t] = [req[t] EXCEPT !.authorized = TRUE, !.at = "issue"]
      BY <1>0, <2>8 DEF GetUser, Typed, Placed, PlacedAt
    <3>2. req'[t] \in Request /\ req'[t].at = "issue" /\ req'[t].op = "refresh"
      BY <2>r, <3>1 DEF Request
    <3>3. QED
      BY <2>8, <2>q, <3>1, <3>2, IdleAssumption DEF GetUser
  <2>9. ASSUME Issue(t) PROVE OwnersInv' /\ LivesInv'
    BY <1>0, <2>1, <2>9, IssueOwned
  <2>10. ASSUME WriteStatus(t) PROVE OwnersInv' /\ LivesInv'
    <3>1. /\ [req[t] EXCEPT !.at = "answer"] \in Request /\ req[t] # Idle /\ req[t].at = "write"
          /\ req[t].op \in {"enable", "disable", "verify"}
      BY <1>0, <2>10, <2>r DEF WriteStatus, Request, Placed, PlacedAt
    <3>2. req' = Reguarded(Written(t), [req EXCEPT ![t] = [req[t] EXCEPT !.at = "answer"]])
      BY <2>10 DEF WriteStatus
    <3>3. req'[t] # Idle => Alike(req'[t], [req[t] EXCEPT !.at = "answer"])
      BY <1>0, <3>1, <3>2, WriteKeeps, IdleAssumption
    <3>4. req'[t] # Idle => req'[t].op \in {"enable", "disable", "verify"} /\ req'[t].at = "answer"
      BY <2>r, <3>1, <3>3 DEF Alike, Request
    <3>5. Carries(t) /\ ~ Replaces(t)
      BY <3>1, <3>4
    <3>6. /\ made'.tokens = made.tokens /\ (made'.faults = 0 => made.faults = 0)
          /\ cookie' = cookie /\ refresh' = refresh
      BY <1>0, <2>10, WritesCount, FaultsGrow DEF WriteStatus, Typed
    <3>7. made.tokens <= made'.tokens
      BY <1>0, <3>6 DEF Typed, Counts
    <3> HIDE DEF Carries, Replaces
    <3>8. QED
      BY <1>0, <2>1, <3>5, <3>6, <3>7, OwnersQuiet, LivesQuiet
  <2>11. ASSUME Answer(t) PROVE OwnersInv' /\ LivesInv'
    BY <1>0, <2>1, <2>11, AnswerOwned
  <2>12. ASSUME Fails(t) PROVE OwnersInv' /\ LivesInv'
    <3>1. cookie' = cookie /\ req[t] # Idle /\ (req'[t] = Idle \/ (req'[t].at = "answer" /\ req'[t].op = "logout"))
      <4>1. \/ Ends(t) \/ (Step(t, "answer") /\ req[t].op = "logout")
            \/ req' = Reguarded(Written(t), [req EXCEPT ![t] = Idle])
        BY <2>12 DEF Fails
      <4>2. req' = Reguarded(Written(t), [req EXCEPT ![t] = Idle]) => req'[t] = Idle
        BY <1>0, WriteKeeps
      <4>3. QED
        BY <1>0, <2>12, <2>r, <4>1, <4>2 DEF Fails, Typed, Request
    <3>2. Carries(t)
      BY <3>1
    <3>3. made.tokens <= made'.tokens /\ made'.faults # 0
      BY <1>0, <2>12, <3>1, FailsCount
    <3> HIDE DEF Carries
    <3>4. OwnersInv'
      BY <1>0, <2>1, <3>1, <3>2, <3>3, OwnersQuiet
    <3>5. QED
      BY <3>3, <3>4 DEF LivesInv
  <2>13. QED
    BY <1>1, <2>2, <2>3, <2>4, <2>5, <2>6, <2>7, <2>8, <2>9, <2>10, <2>11, <2>12 DEF Acts, Handle
<1>2. CASE UNCHANGED vars
  <2>1. \A x \in Tab : Carries(x) /\ (Replaces(x) => Replaces(x)')
    BY <1>2, Untouched, KeptCarries DEF vars
  <2>2. made.tokens <= made'.tokens /\ made' = made /\ refresh' = refresh /\ cookie' = cookie
    BY <1>0, <1>2 DEF vars, Typed, Counts
  <2>3. QED
    BY <1>0, <2>1, <2>2, OwnersQuiet, LivesQuiet DEF CookieInv
<1>3. QED
  BY <1>0, <1>1, <1>2, ATabActs DEF CookieInv

(* What a browser has can be used, or is about to be replaced.             *)
THEOREM CookieInvariant == Spec => []CookieInv
<1>1. Init => CookieInv
  BY DEF Init, CookieInv, Placed, PlacedAt, OwnersInv, CookieOwned, LooksOwned, BringsOwned,
         Looks, Brings, LivesInv
<1>2. QED
  BY <1>1, CookieStep, OnceInvariant, PTL DEF Spec

(* Unless a call failed, a browser that has nothing under way can use the  *)
(* refresh token it has.                                                   *)
THEOREM CookieLivesHolds == Spec => []CookieLives
<1>1. CookieInv => CookieLives
  BY DEF CookieInv, LivesInv, CookieLives, Replaces
<1>2. QED
  BY <1>1, CookieInvariant, PTL

-----------------------------------------------------------------------------
(* The table of second factors.                                            *)

(* A set of numbers that is not empty has a least one ...                  *)
LEMMA Least ==
    ASSUME NEW T \in SUBSET Nat, T # {}
    PROVE  \E n \in T : \A m \in T : n <= m
<1> DEFINE R == OpToRel(<, Nat)
<1>1. IsWellFoundedOn(R, Nat)
  BY NatLessThanWellFounded
<1>2. \A n, m \in Nat : m < n => <<m, n>> \in R
  BY DEF OpToRel
<1> HIDE DEF R
<1>3. \E n \in T : \A m \in T : ~ (<<m, n>> \in R)
  BY <1>1, WFMin
<1>4. PICK n \in T : \A m \in T : ~ (<<m, n>> \in R)
  BY <1>3
<1>5. \A m \in T : m \in Nat /\ n \in Nat /\ ~ (m < n)
  BY <1>2, <1>4
<1>6. \A m \in T : n <= m
  BY <1>5
<1>7. QED
  BY <1>6

(* ... so a set of numbers up to l that has 0 and, with a number, the next *)
(* one, has them all.                                                      *)
LEMMA UpTo ==
    ASSUME NEW l \in Nat, NEW T, 0 \in T, \A n \in T : n \in 0..(l - 1) => n + 1 \in T
    PROVE  0..l \subseteq T
<1> DEFINE M == (0..l) \ T
<1>1. SUFFICES ASSUME M # {} PROVE FALSE
  OBVIOUS
<1>2. M \in SUBSET Nat
  OBVIOUS
<1>3. PICK n \in M : \A m \in M : n <= m
  BY <1>1, <1>2, Least
<1>4. n \in Nat /\ n # 0 /\ n <= l /\ n - 1 \in 0..(l - 1) /\ n - 1 \in 0..l
  BY <1>3
<1>5. n - 1 \in T
  BY <1>3, <1>4
<1>6. (n - 1) + 1 \in T
  BY <1>4, <1>5
<1>7. QED
  BY <1>3, <1>4, <1>6

(* What DeleteRows keeps of the first lines.                               *)
KeptOf(rs, u, kept, n) ==
    kept = [i \in 0..n |->
              IF i = 0 THEN <<>>
              ELSE IF Matches(rs[i], u) THEN kept[i - 1] ELSE Append(kept[i - 1], rs[i])]

(* There is such a function for any table.                                 *)
LEMMA KeptIs ==
    ASSUME NEW R, NEW rs \in Seq(R), NEW u
    PROVE  \E kept : KeptOf(rs, u, kept, Len(rs)) /\ DeleteRows(rs, u) = kept[Len(rs)]
<1> DEFINE T == {n \in 0..Len(rs) : \E kept : KeptOf(rs, u, kept, n)}
<1>1. 0 \in T
  <2>1. KeptOf(rs, u, [i \in 0..0 |-> <<>>], 0)
    BY DEF KeptOf
  <2>2. QED
    BY <2>1
<1>2. ASSUME NEW n \in T, n \in 0..(Len(rs) - 1) PROVE n + 1 \in T
  <2>1. PICK kept : KeptOf(rs, u, kept, n)
    OBVIOUS
  <2> DEFINE more == [i \in 0..(n + 1) |->
                        IF i <= n THEN kept[i]
                        ELSE IF Matches(rs[i], u) THEN kept[n] ELSE Append(kept[n], rs[i])]
  <2>2. n \in Nat /\ n + 1 \in 0..Len(rs)
    BY <1>2
  <2>3. ASSUME NEW i \in 0..(n + 1)
        PROVE  more[i] = IF i = 0 THEN <<>>
                         ELSE IF Matches(rs[i], u) THEN more[i - 1] ELSE Append(more[i - 1], rs[i])
    <3>1. CASE i <= n
      <4>1. i \in 0..n /\ (i # 0 => i - 1 \in 0..(n + 1) /\ i - 1 <= n)
        BY <2>2, <3>1
      <4>2. kept[i] = IF i = 0 THEN <<>>
                      ELSE IF Matches(rs[i], u) THEN kept[i - 1] ELSE Append(kept[i - 1], rs[i])
        BY <2>1, <4>1 DEF KeptOf
      <4>3. more[i] = kept[i] /\ (i # 0 => more[i - 1] = kept[i - 1])
        BY <3>1, <4>1
      <4>4. QED
        BY <4>2, <4>3
    <3>2. CASE ~ (i <= n)
      <4>1. i = n + 1 /\ i # 0 /\ i - 1 = n /\ n \in 0..(n + 1) /\ n <= n
        BY <2>2, <3>2
      <4>2. QED
        BY <3>2, <4>1
    <3>3. QED
      BY <3>1, <3>2
  <2>4. KeptOf(rs, u, more, n + 1)
    BY <2>3 DEF KeptOf
  <2>5. QED
    BY <2>2, <2>4
<1> HIDE DEF T
<1>3. Len(rs) \in T
  BY <1>1, <1>2, UpTo
<1>4. \E kept : KeptOf(rs, u, kept, Len(rs))
  BY <1>3 DEF T
<1>5. QED
  BY <1>4 DEF DeleteRows, KeptOf

(* A table made from another for u: its lines come, in their order, from   *)
(* lines that do not match u, which stay and are all there, and from lines *)
(* that do or the end of the table, where one of R is put.                 *)
Rewritten(rs, new, u, R) ==
    /\ \E from \in [DOMAIN new -> 1..(Len(rs) + 1)] :
         /\ \A i, j \in DOMAIN new : i < j => from[i] < from[j]
         /\ \A i \in DOMAIN new :
              \/ from[i] \in DOMAIN rs \ Hits(rs, u) /\ new[i] = rs[from[i]]
              \/ new[i] \in R /\ (from[i] \in Hits(rs, u) \/ (from[i] = Len(rs) + 1 /\ Hits(rs, u) = {}))
    /\ \A i \in DOMAIN rs \ Hits(rs, u) : \E j \in DOMAIN new : new[j] = rs[i]

(* What is kept of the first n lines.                                      *)
Keeps(rs, u, new, n) ==
    /\ \E from \in [DOMAIN new -> 1..n] :
         /\ \A i, j \in DOMAIN new : i < j => from[i] < from[j]
         /\ \A i \in DOMAIN new : ~ Matches(rs[from[i]], u) /\ new[i] = rs[from[i]]
    /\ \A i \in 1..n : ~ Matches(rs[i], u) => \E j \in DOMAIN new : new[j] = rs[i]

(* A further line is left out, or comes last.                              *)
LEMMA KeepsMore ==
    ASSUME NEW R, NEW rs \in Seq(R), NEW u, NEW new \in Seq(R), NEW n \in Nat,
           n + 1 \in 1..Len(rs), Keeps(rs, u, new, n)
    PROVE  /\ Matches(rs[n + 1], u) => Keeps(rs, u, new, n + 1)
           /\ ~ Matches(rs[n + 1], u) => Keeps(rs, u, Append(new, rs[n + 1]), n + 1)
<1>1. PICK from \in [DOMAIN new -> 1..n] :
        /\ \A i, j \in DOMAIN new : i < j => from[i] < from[j]
        /\ \A i \in DOMAIN new : ~ Matches(rs[from[i]], u) /\ new[i] = rs[from[i]]
  BY DEF Keeps
<1>2. \A i \in 1..(n + 1) : i \in 1..n \/ i = n + 1
  OBVIOUS
<1>3. ASSUME Matches(rs[n + 1], u) PROVE Keeps(rs, u, new, n + 1)
  <2>1. from \in [DOMAIN new -> 1..(n + 1)]
    OBVIOUS
  <2>2. \A i \in 1..(n + 1) : ~ Matches(rs[i], u) => \E j \in DOMAIN new : new[j] = rs[i]
    BY <1>2, <1>3 DEF Keeps
  <2>3. QED
    BY <1>1, <2>1, <2>2 DEF Keeps
<1>4. ASSUME ~ Matches(rs[n + 1], u) PROVE Keeps(rs, u, Append(new, rs[n + 1]), n + 1)
  <2> DEFINE more == Append(new, rs[n + 1])
             l == Len(new)
             into == [i \in 1..(l + 1) |-> IF i <= l THEN from[i] ELSE n + 1]
  <2>1. /\ l \in Nat /\ DOMAIN new = 1..l /\ DOMAIN more = 1..(l + 1)
        /\ \A i \in 1..l : more[i] = new[i]
        /\ more[l + 1] = rs[n + 1]
    OBVIOUS
  <2> HIDE DEF more, l
  <2>2. \A i \in 1..l : into[i] = from[i] /\ from[i] \in 1..n /\ i \in 1..(l + 1)
    BY <2>1
  <2>3. into[l + 1] = n + 1 /\ l + 1 \in 1..(l + 1)
    BY <2>1
  <2>4. \A i \in 1..(l + 1) : i \in 1..l \/ i = l + 1
    BY <2>1
  <2>5. into \in [1..(l + 1) -> 1..(n + 1)]
    <3>1. 1..n \subseteq 1..(n + 1) /\ n + 1 \in 1..(n + 1)
      OBVIOUS
    <3>2. \A i \in 1..(l + 1) : into[i] \in 1..(n + 1)
      BY <2>2, <2>3, <2>4, <3>1
    <3>3. QED
      BY <3>2
  <2> HIDE DEF into
  <2>6. \A i, j \in 1..(l + 1) : i < j => into[i] < into[j]
    <3> SUFFICES ASSUME NEW i \in 1..(l + 1), NEW j \in 1..(l + 1), i < j PROVE into[i] < into[j]
      OBVIOUS
    <3>1. i \in 1..l
      BY <2>1
    <3>2. CASE j \in 1..l
      BY <1>1, <2>1, <2>2, <3>1, <3>2
    <3>3. CASE j = l + 1
      BY <2>2, <2>3, <3>1, <3>3
    <3>4. QED
      BY <2>4, <3>2, <3>3
  <2>7. \A i \in 1..(l + 1) : ~ Matches(rs[into[i]], u) /\ more[i] = rs[into[i]]
    BY <1>1, <1>4, <2>1, <2>2, <2>3, <2>4
  <2>8. \A i \in 1..(n + 1) : ~ Matches(rs[i], u) => \E j \in 1..(l + 1) : more[j] = rs[i]
    <3>1. \A i \in 1..n : ~ Matches(rs[i], u) => \E j \in 1..l : new[j] = rs[i]
      BY <2>1 DEF Keeps
    <3>2. QED
      BY <1>2, <2>1, <2>2, <2>3, <3>1
  <2>9. Keeps(rs, u, more, n + 1)
    <3>1. \E f \in [DOMAIN more -> 1..(n + 1)] :
            /\ \A i, j \in DOMAIN more : i < j => f[i] < f[j]
            /\ \A i \in DOMAIN more : ~ Matches(rs[f[i]], u) /\ more[i] = rs[f[i]]
      BY <2>1, <2>5, <2>6, <2>7
    <3>2. QED
      BY <2>1, <2>8, <3>1 DEF Keeps
  <2>10. QED
    BY <2>9 DEF more
<1>5. QED
  BY <1>3, <1>4

(* DeleteRows leaves out the lines that match, and no other.               *)
LEMMA DeleteRewrites ==
    ASSUME NEW S, NEW rs \in Seq(S), NEW u
    PROVE  DeleteRows(rs, u) \in Seq(S) /\ Rewritten(rs, DeleteRows(rs, u), u, {})
<1>1. PICK kept : KeptOf(rs, u, kept, Len(rs)) /\ DeleteRows(rs, u) = kept[Len(rs)]
  BY KeptIs
<1> DEFINE T == {n \in 0..Len(rs) : kept[n] \in Seq(S) /\ Keeps(rs, u, kept[n], n)}
<1>2. 0 \in T
  <2>1. kept[0] = <<>>
    BY <1>1 DEF KeptOf
  <2>2. Keeps(rs, u, <<>>, 0)
    <3>1. \E f \in [{} -> 1..0] : TRUE
      <4>1. [i \in {} |-> 1] \in [{} -> 1..0]
        OBVIOUS
      <4>2. QED
        BY <4>1
    <3>2. DOMAIN <<>> = {} /\ 1..0 = {}
      OBVIOUS
    <3>3. QED
      BY <3>1, <3>2 DEF Keeps
  <2>3. kept[0] \in Seq(S) /\ Keeps(rs, u, kept[0], 0) /\ 0 \in 0..Len(rs)
    BY <2>1, <2>2
  <2>4. QED
    BY <2>3
<1>3. ASSUME NEW n \in T, n \in 0..(Len(rs) - 1) PROVE n + 1 \in T
  <2>1. n \in Nat /\ n + 1 \in 1..Len(rs) /\ n + 1 \in 0..Len(rs) /\ kept[n] \in Seq(S) /\ Keeps(rs, u, kept[n], n)
    BY <1>3
  <2>2. kept[n + 1] = IF Matches(rs[n + 1], u) THEN kept[n] ELSE Append(kept[n], rs[n + 1])
    <3>1. n + 1 # 0 /\ (n + 1) - 1 = n
      BY <2>1
    <3>2. QED
      BY <1>1, <2>1, <3>1 DEF KeptOf
  <2> HIDE DEF T
  <2>3. rs[n + 1] \in S
    BY <2>1
  <2>4. Keeps(rs, u, kept[n + 1], n + 1) /\ kept[n + 1] \in Seq(S)
    <3> DEFINE now == kept[n]
    <3>1. now \in Seq(S) /\ Keeps(rs, u, now, n)
      BY <2>1
    <3> HIDE DEF now
    <3>2. /\ Matches(rs[n + 1], u) => Keeps(rs, u, now, n + 1)
          /\ ~ Matches(rs[n + 1], u) => Keeps(rs, u, Append(now, rs[n + 1]), n + 1)
      BY <2>1, <3>1, KeepsMore
    <3>3. Append(now, rs[n + 1]) \in Seq(S)
      BY <2>3, <3>1
    <3>4. QED
      BY <2>2, <3>1, <3>2, <3>3 DEF now
  <2>5. QED
    BY <2>1, <2>4 DEF T
<1> HIDE DEF T
<1>4. Len(rs) \in T
  BY <1>2, <1>3, UpTo
<1>5. kept[Len(rs)] \in Seq(S) /\ Keeps(rs, u, kept[Len(rs)], Len(rs))
  BY <1>4 DEF T
<1> DEFINE new == DeleteRows(rs, u)
<1>6. new \in Seq(S) /\ Keeps(rs, u, new, Len(rs))
  BY <1>1, <1>5
<1> HIDE DEF new
<1>7. DOMAIN rs = 1..Len(rs) /\ \A i \in DOMAIN rs : i \in Hits(rs, u) <=> Matches(rs[i], u)
  BY DEF Hits
<1>8. Rewritten(rs, new, u, {})
  <2>1. PICK from \in [DOMAIN new -> 1..Len(rs)] :
          /\ \A i, j \in DOMAIN new : i < j => from[i] < from[j]
          /\ \A i \in DOMAIN new : ~ Matches(rs[from[i]], u) /\ new[i] = rs[from[i]]
    BY <1>6 DEF Keeps
  <2>2. from \in [DOMAIN new -> 1..(Len(rs) + 1)]
    OBVIOUS
  <2>3. \A i \in DOMAIN new : from[i] \in DOMAIN rs \ Hits(rs, u)
    BY <1>7, <2>1
  <2>4. \A i \in DOMAIN rs \ Hits(rs, u) : \E j \in DOMAIN new : new[j] = rs[i]
    BY <1>6, <1>7 DEF Keeps
  <2>5. QED
    BY <2>1, <2>2, <2>3, <2>4 DEF Rewritten
<1>9. QED
  BY <1>6, <1>8 DEF new

(* SetStatus puts the new line where lines matched, or at the end.         *)
LEMMA SetRewrites ==
    ASSUME NEW S, NEW rs \in Seq(S), NEW u, NEW s, NEW v, Row(u, s, v) \in S
    PROVE  SetStatus(rs, u, s, v) \in Seq(S) /\ Rewritten(rs, SetStatus(rs, u, s, v), u, {Row(u, s, v)})
<1> DEFINE new == SetStatus(rs, u, s, v)
           r == Row(u, s, v)
           l == Len(rs)
<1>0. l \in Nat /\ DOMAIN rs = 1..l /\ Hits(rs, u) \subseteq 1..l
  BY DEF Hits
<1>1. CASE Found(rs, u)
  <2>1. new = [i \in 1..l |-> IF i \in Hits(rs, u) THEN r ELSE rs[i]]
    BY <1>0, <1>1 DEF SetStatus
  <2> HIDE DEF new, r
  <2>2. r \in S
    BY DEF r
  <2>3. new \in Seq(S) /\ DOMAIN new = 1..l
    <3>1. \A i \in 1..l : rs[i] \in S
      BY <1>0
    <3>2. QED
      BY <1>0, <2>1, <2>2, <3>1
  <2> DEFINE from == [i \in 1..l |-> i]
  <2>4. from \in [DOMAIN new -> 1..(l + 1)]
    BY <1>0, <2>3
  <2>5. \A i \in DOMAIN new : from[i] = i /\ new[i] = IF i \in Hits(rs, u) THEN r ELSE rs[i]
    BY <2>1, <2>3
  <2>6. \A i \in DOMAIN rs \ Hits(rs, u) : \E j \in DOMAIN new : new[j] = rs[i]
    BY <1>0, <2>3, <2>5
  <2> HIDE DEF from
  <2>7. Rewritten(rs, new, u, {r})
    <3>1. \A i, j \in DOMAIN new : i < j => from[i] < from[j]
      BY <2>5
    <3>2. \A i \in DOMAIN new :
            \/ from[i] \in DOMAIN rs \ Hits(rs, u) /\ new[i] = rs[from[i]]
            \/ new[i] \in {r} /\ (from[i] \in Hits(rs, u) \/ (from[i] = l + 1 /\ Hits(rs, u) = {}))
      BY <1>0, <2>3, <2>5
    <3>3. QED
      BY <2>4, <2>6, <3>1, <3>2 DEF Rewritten
  <2>8. QED
    BY <2>3, <2>7 DEF new, r
<1>2. CASE ~ Found(rs, u)
  <2>1. new = Append(rs, r) /\ Hits(rs, u) = {}
    BY <1>2 DEF SetStatus, Found
  <2> HIDE DEF r
  <2>2. r \in S
    BY DEF r
  <2> HIDE DEF new
  <2>3. /\ new \in Seq(S) /\ DOMAIN new = 1..(l + 1)
        /\ \A i \in 1..l : new[i] = rs[i]
        /\ new[l + 1] = r
    BY <1>0, <2>1, <2>2
  <2> HIDE DEF l
  <2> DEFINE from == [i \in 1..(l + 1) |-> i]
  <2>4. from \in [DOMAIN new -> 1..(l + 1)] /\ \A i \in DOMAIN new : from[i] = i
    BY <2>3
  <2> HIDE DEF from
  <2>5. \A i \in DOMAIN new : i \in 1..l \/ i = l + 1
    BY <1>0, <2>3
  <2>6. \A i \in DOMAIN rs \ Hits(rs, u) : \E j \in DOMAIN new : new[j] = rs[i]
    BY <1>0, <2>3
  <2>7. Rewritten(rs, new, u, {r})
    <3>1. \A i, j \in DOMAIN new : i < j => from[i] < from[j]
      BY <2>4
    <3>2. \A i \in DOMAIN new :
            \/ from[i] \in DOMAIN rs \ Hits(rs, u) /\ new[i] = rs[from[i]]
            \/ new[i] \in {r} /\ (from[i] \in Hits(rs, u) \/ (from[i] = l + 1 /\ Hits(rs, u) = {}))
      BY <1>0, <2>1, <2>3, <2>4, <2>5
    <3>3. QED
      BY <2>4, <2>6, <3>1, <3>2 DEF Rewritten, l
  <2>8. QED
    BY <2>3, <2>7 DEF new, r
<1>3. QED
  BY <1>1, <1>2

RowRecord == [name : User, secret : Secret, verified : BOOLEAN]

(* A line that begins with the name of a later one is the same: whoever is *)
(* looked up, the first line that matches is the user's own if any is.     *)
OwnIsFirst(rs) ==
    \A i, j \in DOMAIN rs : i < j /\ rs[j].name \in BeginsWith[rs[i].name] => rs[i] = rs[j]

(* The second factor of u was shown to be known with this secret.          *)
RowsProved(rs) == \A i \in DOMAIN rs : rs[i].verified => <<rs[i].name, rs[i].secret>> \in proved

(* The status of a user is that of the first line that matches ...         *)
LEMMA StatusIsFirst ==
    ASSUME NEW rs \in Seq(RowRecord), NEW u, Found(rs, u)
    PROVE  \E i \in Hits(rs, u) : (\A j \in Hits(rs, u) : i <= j) /\ StatusOf(rs, u) = rs[i]
<1>1. Hits(rs, u) \in SUBSET Nat /\ Hits(rs, u) # {}
  BY DEF Found, Hits
<1>2. \E i \in Hits(rs, u) : \A j \in Hits(rs, u) : i <= j
  BY <1>1, Least
<1>3. QED
  BY <1>2 DEF StatusOf

(* ... which is the user's own if there is one.                            *)
LEMMA OwnIsFound ==
    ASSUME NEW rs \in Seq(RowRecord), OwnIsFirst(rs), NEW u \in User, Verified(rs, u)
    PROVE  Found(rs, u) /\ StatusOf(rs, u).verified
<1>1. PICK j \in DOMAIN rs : rs[j].name = u /\ rs[j].verified
  BY DEF Verified, OwnRows
<1>2. j \in Hits(rs, u)
  BY <1>1, MFATableAssumption DEF Hits, Matches
<1>3. Found(rs, u)
  BY <1>2 DEF Found
<1>4. PICK i \in Hits(rs, u) : i <= j /\ StatusOf(rs, u) = rs[i]
  BY <1>2, <1>3, StatusIsFirst
<1>5. i \in DOMAIN rs /\ u \in BeginsWith[rs[i].name] /\ i \in Nat /\ j \in Nat
  BY <1>4 DEF Hits, Matches
<1>6. i = j \/ i < j
  BY <1>4, <1>5
<1>7. rs[i] = rs[j]
  BY <1>1, <1>5, <1>6 DEF OwnIsFirst
<1>8. QED
  BY <1>1, <1>3, <1>4, <1>7

(* What is put into a table for u: one line of u at most, and proved if it *)
(* is verified.                                                            *)
GoodFor(u, R) ==
    /\ \A r \in R : r.name = u /\ (r.verified => <<u, r.secret>> \in proved)
    /\ \A q, r \in R : q = r

(* A table that is rewritten for a user still has the user's own line      *)
(* before all others that match.                                           *)
LEMMA RewrittenFirst ==
    ASSUME NEW rs \in Seq(RowRecord), NEW new \in Seq(RowRecord), NEW u \in User, NEW R,
           GoodFor(u, R), OwnIsFirst(rs), Rewritten(rs, new, u, R)
    PROVE  OwnIsFirst(new)
<1>1. PICK from \in [DOMAIN new -> 1..(Len(rs) + 1)] :
         /\ \A i, j \in DOMAIN new : i < j => from[i] < from[j]
         /\ \A i \in DOMAIN new :
              \/ from[i] \in DOMAIN rs \ Hits(rs, u) /\ new[i] = rs[from[i]]
              \/ new[i] \in R /\ (from[i] \in Hits(rs, u) \/ (from[i] = Len(rs) + 1 /\ Hits(rs, u) = {}))
  BY DEF Rewritten
<1> SUFFICES ASSUME NEW i \in DOMAIN new, NEW j \in DOMAIN new, i < j,
                    new[j].name \in BeginsWith[new[i].name]
             PROVE  new[i] = new[j]
  BY DEF OwnIsFirst
<1>2. from[i] < from[j]
  BY <1>1
<1>3. \A k \in DOMAIN rs : rs[k].name \in User /\ (k \in Hits(rs, u) <=> u \in BeginsWith[rs[k].name])
  <2>1. \A k \in DOMAIN rs : rs[k] \in RowRecord
    OBVIOUS
  <2>2. QED
    BY <2>1 DEF Hits, Matches, RowRecord
<1>4. CASE from[i] \in DOMAIN rs \ Hits(rs, u) /\ new[i] = rs[from[i]]
  <2>1. CASE from[j] \in DOMAIN rs \ Hits(rs, u) /\ new[j] = rs[from[j]]
    BY <1>2, <1>4, <2>1 DEF OwnIsFirst
  <2>2. CASE new[j] \in R
    BY <1>3, <1>4, <2>2 DEF GoodFor
  <2>3. QED
    BY <1>1, <2>1, <2>2
<1>5. CASE new[i] \in R /\ (from[i] \in Hits(rs, u) \/ (from[i] = Len(rs) + 1 /\ Hits(rs, u) = {}))
  <2>1. CASE from[j] \in DOMAIN rs \ Hits(rs, u) /\ new[j] = rs[from[j]]
    <3>1. from[i] \in Hits(rs, u) /\ from[i] \in DOMAIN rs
      BY <1>1, <1>2, <1>5, <2>1 DEF Hits
    <3>2. BeginsWith[u] \subseteq BeginsWith[rs[from[i]].name]
      BY <1>3, <3>1, MFATableAssumption
    <3>3. rs[from[i]] = rs[from[j]]
      BY <1>2, <1>5, <2>1, <3>1, <3>2 DEF GoodFor, OwnIsFirst
    <3>4. QED
      BY <1>3, <2>1, <3>1, <3>3
  <2>2. CASE new[j] \in R
    BY <1>5, <2>2 DEF GoodFor
  <2>3. QED
    BY <1>1, <2>1, <2>2
<1>6. QED
  BY <1>1, <1>4, <1>5

(* Its verified lines are proved if the old ones are.                      *)
LEMMA RewrittenProved ==
    ASSUME NEW rs, NEW new, NEW u, NEW R, GoodFor(u, R), RowsProved(rs), Rewritten(rs, new, u, R)
    PROVE  RowsProved(new)
BY DEF Rewritten, RowsProved, GoodFor

(* The lines of another user, whose name begins with no other's, stay.     *)
LEMMA RewrittenOthers ==
    ASSUME NEW rs \in Seq(RowRecord), NEW new, NEW u \in User, NEW R,
           GoodFor(u, R), Rewritten(rs, new, u, R),
           NEW w \in User, BeginsWith[w] = {w}, w # u
    PROVE  OwnRows(new, w) = OwnRows(rs, w)
<1>1. \A i \in DOMAIN new : new[i].name = w => \E j \in DOMAIN rs : rs[j] = new[i]
  BY DEF Rewritten, GoodFor
<1>2. \A i \in DOMAIN rs : rs[i].name = w => \E j \in DOMAIN new : new[j] = rs[i]
  BY DEF Rewritten, Hits, Matches
<1>3. ASSUME NEW r PROVE r \in OwnRows(new, w) <=> r \in OwnRows(rs, w)
  BY <1>1, <1>2 DEF OwnRows
<1>4. QED
  BY <1>3

-----------------------------------------------------------------------------
(* A verify that is about to write has shown that its secret is known ...  *)
ShownAt(t) ==
    req[t] # Idle /\ req[t].op = "verify" /\ req[t].at = "write" =>
      req[t].secret \in Secret /\ <<req[t].user, req[t].secret>> \in proved

(* ... and a request that gives a guarded user a grant, that its code is.  *)
GuardedAt(t) ==
    req[t] # Idle /\ req[t].op \in {"login", "authorize"} /\ req[t].guarded =>
      /\ Verified(rows, req[t].user)
      /\ req[t].authorized => req[t].presented

TableInv ==
    /\ rows \in Seq(RowRecord)
    /\ OwnIsFirst(rows)
    /\ RowsProved(rows)
    /\ \A t \in Tab : ShownAt(t) /\ GuardedAt(t)

(* A write of the table rewrites it for the user of the request.           *)
LEMMA WrittenRewrites ==
    ASSUME Typed, Placed, TableInv, NEW t \in Tab, At(t, "write"),
           req[t].op = "enable" => made.secrets < MaxSecrets
    PROVE  /\ Written(t) \in Seq(RowRecord)
           /\ \E R : GoodFor(req[t].user, R) /\ Rewritten(rows, Written(t), req[t].user, R)
<1> DEFINE u == req[t].user
<1>1. /\ req[t] \in Request /\ u \in User /\ req[t].op \in {"enable", "disable", "verify"}
      /\ ShownAt(t) /\ rows \in Seq(RowRecord)
  BY DEF At, Typed, Request, Placed, PlacedAt, TableInv
<1>2. ASSUME NEW s \in Secret, NEW v \in BOOLEAN, v => <<u, s>> \in proved,
             Written(t) = SetStatus(rows, u, s, v)
      PROVE  /\ Written(t) \in Seq(RowRecord)
             /\ \E R : GoodFor(u, R) /\ Rewritten(rows, Written(t), u, R)
  <2>1. Row(u, s, v) \in RowRecord
    BY <1>1 DEF Row, RowRecord
  <2>2. GoodFor(u, {Row(u, s, v)})
    BY <1>2 DEF GoodFor, Row
  <2> HIDE DEF u
  <2>3. /\ SetStatus(rows, u, s, v) \in Seq(RowRecord)
        /\ Rewritten(rows, SetStatus(rows, u, s, v), u, {Row(u, s, v)})
    BY <1>1, <2>1, SetRewrites
  <2>4. QED
    BY <1>2, <2>2, <2>3
<1>3. CASE req[t].op = "enable"
  <2>1. made.secrets + 1 \in Secret
    BY <1>3, LoginAssumption DEF Typed, Counts, Secret
  <2>2. Written(t) = SetStatus(rows, u, made.secrets + 1, FALSE)
    BY <1>3 DEF Written
  <2>3. QED
    BY <1>2, <2>1, <2>2
<1>4. CASE req[t].op = "disable"
  <2>1. Written(t) = DeleteRows(rows, u)
    BY <1>4 DEF Written
  <2>2. GoodFor(u, {})
    BY DEF GoodFor
  <2> HIDE DEF u
  <2>3. QED
    BY <1>1, <2>1, <2>2, DeleteRewrites DEF u
<1>5. CASE req[t].op = "verify"
  <2>1. req[t].secret \in Secret /\ <<u, req[t].secret>> \in proved
    BY <1>1, <1>5 DEF ShownAt, At
  <2>2. Written(t) = SetStatus(rows, u, req[t].secret, TRUE)
    BY <1>5 DEF Written
  <2>3. QED
    BY <1>2, <2>1, <2>2
<1>6. QED
  BY <1>1, <1>3, <1>4, <1>5

(* A step leaves the table alone or rewrites it for the user of a request, *)
(* and then lowers the guard of those whose verified line is gone.         *)
LEMMA TableSteps ==
    ASSUME Typed, Placed, TableInv, NEW t \in Tab, Acts(t)
    PROVE  \/ rows' = rows
           \/ /\ At(t, "write") /\ req'[t] # req[t]
              /\ rows' \in Seq(RowRecord)
              /\ \E R : GoodFor(req[t].user, R) /\ Rewritten(rows, rows', req[t].user, R)
              /\ \A x \in Tab : req'[x] # Idle /\ req'[x].guarded => Verified(rows', req'[x].user)
<1>1. CASE rows' = rows
  BY <1>1
<1>2. CASE WriteStatus(t) \/ (Fails(t) /\ At(t, "write") /\ Writes(t)
                              /\ req' = Reguarded(Written(t), [req EXCEPT ![t] = Idle]))
  <2>1. At(t, "write") /\ req[t] # Idle /\ req[t] \in Request /\ Writes(t)
    BY <1>2 DEF WriteStatus, At, Typed
  <2>2. rows' = Written(t) /\ (req[t].op = "enable" => made.secrets < MaxSecrets)
    BY <2>1 DEF Writes
  <2>3. \E q \in Request \cup {Idle} :
          /\ req' = Reguarded(Written(t), [req EXCEPT ![t] = q])
          /\ q = Idle \/ q.at = "answer"
    <3>1. CASE WriteStatus(t)
      <4>1. [req[t] EXCEPT !.at = "answer"] \in Request /\ [req[t] EXCEPT !.at = "answer"].at = "answer"
        BY <2>1 DEF Request
      <4>2. req' = Reguarded(Written(t), [req EXCEPT ![t] = [req[t] EXCEPT !.at = "answer"]])
        BY <3>1 DEF WriteStatus
      <4>3. QED
        BY <4>1, <4>2
    <3>2. CASE req' = Reguarded(Written(t), [req EXCEPT ![t] = Idle])
      BY <3>2
    <3>3. QED
      BY <1>2, <3>1, <3>2
  <2>4. PICK q \in Request \cup {Idle} :
          /\ req' = Reguarded(Written(t), [req EXCEPT ![t] = q])
          /\ q = Idle \/ q.at = "answer"
    BY <2>3
  <2>5. /\ \A x \in Tab : req'[x] # Idle /\ req'[x].guarded => Verified(rows', req'[x].user)
        /\ q = Idle => req'[t] = Idle
        /\ q # Idle => Alike(req'[t], q)
    BY <2>2, <2>4, WriteKeeps
  <2>6. req'[t] # req[t]
    BY <2>1, <2>4, <2>5 DEF At, Alike
  <2>7. /\ rows' \in Seq(RowRecord)
        /\ \E R : GoodFor(req[t].user, R) /\ Rewritten(rows, rows', req[t].user, R)
    BY <2>1, <2>2, WrittenRewrites
  <2>8. QED
    BY <2>1, <2>5, <2>6, <2>7
<1>3. QED
  BY <1>1, <1>2 DEF Acts, Handle, Begin, ReadLogin, ReadAuthorize, ReadVerify, LookupRefresh,
     LookupLogout, GetUser, Issue, Answer, Fails, Tables

(* A code that is found right is that of the line, and remembered.         *)
LEMMA VerifyReads ==
    ASSUME Typed, TableInv, NEW t \in Tab, ReadVerify(t), req'[t] # Idle
    PROVE  /\ req'[t].secret \in Secret /\ req'[t].user = req[t].user
           /\ <<req'[t].user, req'[t].secret>> \in proved'
<1> DEFINE u == req[t].user
<1>1. /\ req[t] \in Request /\ Found(rows, u) /\ StatusOf(rows, u).secret = req[t].code
      /\ proved' = proved \cup {<<u, req[t].code>>}
      /\ req' = [req EXCEPT ![t].secret = StatusOf(rows, u).secret, ![t].at = "write"]
  BY DEF ReadVerify, At, Ends, Typed
<1>2. StatusOf(rows, u) \in RowRecord
  <2>1. \E i \in Hits(rows, u) : StatusOf(rows, u) = rows[i]
    BY <1>1, StatusIsFirst DEF TableInv
  <2>2. QED
    BY <2>1 DEF TableInv, Hits
<1>3. StatusOf(rows, u).secret \in Secret
  BY <1>2 DEF RowRecord
<1>4. req'[t] = [req[t] EXCEPT !.secret = StatusOf(rows, u).secret, !.at = "write"]
  BY <1>1 DEF Typed
<1>5. req'[t].secret = StatusOf(rows, u).secret /\ req'[t].user = u
  <2>1. ASSUME NEW q \in Request, NEW s
        PROVE  LET r == [q EXCEPT !.secret = s, !.at = "write"] IN r.secret = s /\ r.user = q.user
    BY DEF Request
  <2>2. QED
    BY ZenonT(30), <1>1, <1>4, <2>1
<1>6. QED
  BY <1>1, <1>3, <1>5

(* Every step keeps TableInv.                                              *)
LEMMA TableStep == Typed /\ Placed /\ TableInv /\ [Next]_vars => TableInv'
<1> SUFFICES ASSUME Typed, Placed, TableInv, [Next]_vars PROVE TableInv'
  OBVIOUS
<1>1. ASSUME NEW t \in Tab, Acts(t) PROVE TableInv'
  <2>1. \A x \in Tab \ {t} : Kept(x)
    BY <1>1, OthersKept
  <2>2. proved \subseteq proved'
    BY <1>1 DEF Acts, Handle, Begin, ReadLogin, ReadAuthorize, ReadVerify, LookupRefresh,
       LookupLogout, GetUser, Issue, WriteStatus, Answer, Fails, History
  <2>3. /\ rows' \in Seq(RowRecord) /\ OwnIsFirst(rows')
        /\ RowsProved(rows)'
    <3>1. CASE rows' = rows
      BY <2>2, <3>1 DEF TableInv, RowsProved
    <3>2. CASE rows' # rows
      <4>1. /\ At(t, "write") /\ rows' \in Seq(RowRecord)
            /\ \E R : GoodFor(req[t].user, R) /\ Rewritten(rows, rows', req[t].user, R)
        BY <1>1, <3>2, TableSteps
      <4>2. req[t].user \in User
        BY <4>1 DEF At, Typed, Request
      <4>3. OwnIsFirst(rows')
        BY <4>1, <4>2, RewrittenFirst DEF TableInv
      <4>4. RowsProved(rows) /\ RowsProved(rows')
        BY <4>1, RewrittenProved DEF TableInv
      <4>5. \A i \in DOMAIN rows' : rows'[i].verified => <<rows'[i].name, rows'[i].secret>> \in proved'
        BY <2>2, <4>4 DEF RowsProved
      <4>6. QED
        BY <4>1, <4>3, <4>4, <4>5 DEF RowsProved
    <3>3. QED
      BY <3>1, <3>2
  <2>4. \A x \in Tab : req'[x] # Idle /\ req'[x].guarded /\ rows' # rows => Verified(rows', req'[x].user)
    BY <1>1, TableSteps
  <2>5. \A x \in Tab \ {t} : ShownAt(x)'
    BY <2>1, <2>2 DEF TableInv, ShownAt, Kept, Alike
  <2>6. \A x \in Tab \ {t} : GuardedAt(x)'
    BY <2>1, <2>4 DEF TableInv, GuardedAt, Kept, Alike
  <2>7. ShownAt(t)' /\ GuardedAt(t)'
    <3> USE DEF At, Step, Ends
    <3>r. /\ req[t] # Idle => req[t] \in Request
          /\ ShownAt(t) /\ GuardedAt(t)
      BY DEF Typed, TableInv
    <3>q. ASSUME req'[t] = Idle \/ (req'[t].op \notin {"login", "authorize"} /\ req'[t].at # "write")
          PROVE  ShownAt(t)' /\ GuardedAt(t)'
      BY <3>q DEF ShownAt, GuardedAt
    <3>1. ASSUME NEW op \in Op, NEW u \in User, NEW code \in Secret \cup {None}, Begin(t, op, u, code)
          PROVE  ShownAt(t)' /\ GuardedAt(t)'
      <4>1. /\ rows' = rows /\ req'[t].op = op /\ req'[t].at = First(op)
            /\ req'[t].user = u /\ req'[t].guarded = Verified(rows, u) /\ ~ req'[t].authorized
        BY <3>1 DEF Begin, Typed, Tables
      <4>2. op = "verify" => First(op) # "write"
        BY DEF First
      <4>3. QED
        BY <4>1, <4>2 DEF ShownAt, GuardedAt
    <3>2. ASSUME ReadLogin(t) PROVE ShownAt(t)' /\ GuardedAt(t)'
      <4>1. /\ req[t] # Idle /\ req[t].op = "login" /\ rows' = rows
            /\ req'[t] = [req[t] EXCEPT !.authorized = ~ (Found(rows, req[t].user) /\ StatusOf(rows, req[t].user).verified),
                            !.at = IF Found(rows, req[t].user) /\ StatusOf(rows, req[t].user).verified
                                   THEN "answer" ELSE "issue"]
        BY <3>2 DEF ReadLogin, Typed, Tables
      <4>2. /\ req'[t].op = "login" /\ req'[t].user = req[t].user /\ req'[t].guarded = req[t].guarded
            /\ req'[t].authorized = ~ (Found(rows, req[t].user) /\ StatusOf(rows, req[t].user).verified)
        BY <3>r, <4>1 DEF Request
      <4>3. req[t].guarded => Verified(rows, req[t].user)
        BY <3>r, <4>1 DEF GuardedAt
      <4>4. req[t].guarded => ~ req'[t].authorized
        BY <3>r, <4>1, <4>2, <4>3, OwnIsFound DEF TableInv, Request
      <4>5. QED
        BY <4>1, <4>2, <4>3, <4>4 DEF ShownAt, GuardedAt
    <3>3. ASSUME ReadAuthorize(t), req'[t] # Idle PROVE ShownAt(t)' /\ GuardedAt(t)'
      <4> DEFINE right == Found(rows, req[t].user) /\ StatusOf(rows, req[t].user).verified
                            /\ StatusOf(rows, req[t].user).secret = req[t].code
      <4>1. /\ req[t] # Idle /\ req[t].op = "authorize" /\ rows' = rows
            /\ ~ Found(rows, req[t].user) \/ right
            /\ req'[t] = [req[t] EXCEPT !.authorized = TRUE, !.presented = right, !.at = "issue"]
        BY <3>3 DEF ReadAuthorize, Typed, Tables
      <4> HIDE DEF right
      <4>2. /\ req'[t].op = "authorize" /\ req'[t].user = req[t].user /\ req'[t].guarded = req[t].guarded
            /\ req'[t].presented = right
        BY <3>r, <4>1 DEF Request
      <4>3. req[t].guarded => Verified(rows, req[t].user)
        BY <3>r, <4>1 DEF GuardedAt
      <4>4. req[t].guarded => right
        BY <3>r, <4>1, <4>3, OwnIsFound DEF TableInv, Request
      <4>5. QED
        BY <4>1, <4>2, <4>3, <4>4 DEF ShownAt, GuardedAt
    <3>4. ASSUME ReadVerify(t), req'[t] # Idle PROVE ShownAt(t)' /\ GuardedAt(t)'
      <4>1. req'[t].op = "verify"
        BY <3>4, <3>r DEF ReadVerify, Typed, Request
      <4>2. /\ req'[t].secret \in Secret /\ <<req'[t].user, req'[t].secret>> \in proved'
        BY <3>4, VerifyReads
      <4>3. QED
        BY <4>1, <4>2 DEF ShownAt, GuardedAt
    <3>5. ASSUME LookupRefresh(t) PROVE ShownAt(t)' /\ GuardedAt(t)'
      <4>1. req'[t] = Idle \/ (req'[t].op = "refresh" /\ req'[t].at = "user")
        BY <3>5, <3>r DEF LookupRefresh, Typed, Request
      <4>2. QED
        BY <3>q, <4>1
    <3>6. ASSUME LookupLogout(t) PROVE ShownAt(t)' /\ GuardedAt(t)'
      <4>1. req'[t].op = "logout" /\ req'[t].at = "answer"
        BY <3>6, <3>r DEF LookupLogout, Typed, Request
      <4>2. QED
        BY <3>q, <4>1
    <3>7. ASSUME GetUser(t) PROVE ShownAt(t)' /\ GuardedAt(t)'
      <4>1. req'[t].op = "refresh" /\ req'[t].at = "issue"
        BY <3>7, <3>r DEF GetUser, Typed, Request, Placed, PlacedAt
      <4>2. QED
        BY <3>q, <4>1
    <3>8. ASSUME Issue(t) PROVE ShownAt(t)' /\ GuardedAt(t)'
      <4>1. /\ req[t] # Idle /\ rows' = rows
            /\ req'[t].op = req[t].op /\ req'[t].at = "answer" /\ req'[t].user = req[t].user
            /\ req'[t].guarded = req[t].guarded
            /\ req'[t].authorized = req[t].authorized /\ req'[t].presented = req[t].presented
        BY <3>8, <3>r DEF Issue, Typed, Request
      <4>2. QED
        BY <3>r, <4>1 DEF ShownAt, GuardedAt
    <3>9. ASSUME WriteStatus(t) PROVE ShownAt(t)' /\ GuardedAt(t)'
      <4>1. /\ [req[t] EXCEPT !.at = "answer"] \in Request /\ req[t] # Idle
            /\ req[t].op \in {"enable", "disable", "verify"}
        BY <3>9, <3>r DEF WriteStatus, Request, Placed, PlacedAt
      <4>2. req' = Reguarded(Written(t), [req EXCEPT ![t] = [req[t] EXCEPT !.at = "answer"]])
        BY <3>9 DEF WriteStatus
      <4>3. Alike(req'[t], [req[t] EXCEPT !.at = "answer"])
        BY <4>1, <4>2, WriteKeeps, IdleAssumption
      <4>4. req'[t].op \in {"enable", "disable", "verify"} /\ req'[t].at = "answer"
        BY <3>r, <4>1, <4>3 DEF Alike, Request
      <4>5. QED
        BY <3>q, <4>4
    <3>10. ASSUME Answer(t) PROVE ShownAt(t)' /\ GuardedAt(t)'
      BY <3>10, <3>q DEF Answer, Typed
    <3>11. ASSUME Fails(t) PROVE ShownAt(t)' /\ GuardedAt(t)'
      <4>1. \/ Ends(t) \/ (Step(t, "answer") /\ req[t].op = "logout" /\ req[t] # Idle)
            \/ req' = Reguarded(Written(t), [req EXCEPT ![t] = Idle])
        BY <3>11 DEF Fails
      <4>2. req' = Reguarded(Written(t), [req EXCEPT ![t] = Idle]) => req'[t] = Idle
        BY WriteKeeps
      <4>3. req'[t] = Idle \/ (req'[t].at = "answer" /\ req'[t].op = "logout")
        BY <3>r, <4>1, <4>2 DEF Typed, Request
      <4>4. QED
        BY <3>q, <4>3
    <3>12. QED
      BY <1>1, <3>q, <3>1, <3>2, <3>3, <3>4, <3>5, <3>6, <3>7, <3>8, <3>9, <3>10, <3>11 DEF Acts, Handle
  <2>8. QED
    BY <2>3, <2>5, <2>6, <2>7 DEF TableInv
<1>2. CASE UNCHANGED vars
  BY <1>2 DEF vars, TableInv, RowsProved, ShownAt, GuardedAt
<1>3. QED
  BY <1>1, <1>2, ATabActs

(* The table of second factors and what requests know of it, for any users *)
(* whose names begin with one another's as they may.                       *)
THEOREM TableInvariant == Spec => []TableInv
<1>1. Init => TableInv
  BY DEF Init, TableInv, OwnIsFirst, RowsProved, ShownAt, GuardedAt
<1>2. OnceInv /\ CookieInv /\ TableInv /\ [Next]_vars => TableInv'
  BY TableStep DEF OnceInv, CookieInv
<1>3. QED
  BY <1>1, <1>2, OnceInvariant, CookieInvariant, PTL DEF Spec

(* No token is given without the second factor to a user whose line was    *)
(* verified all along (checkMFAAndReturnJWT, PostAuthorize).               *)
THEOREM SecondFactorHolds == Spec => []SecondFactorAsked
<1>1. TableInv => SecondFactorAsked
  BY DEF TableInv, GuardedAt, SecondFactorAsked
<1>2. QED
  BY <1>1, TableInvariant, PTL

(* A verified line has a secret whose code was shown (PutUserMFAVerify).   *)
THEOREM VerifiedHolds == Spec => []VerifiedWasProved
<1>1. TableInv => VerifiedWasProved
  BY DEF TableInv, RowsProved, VerifiedWasProved
<1>2. QED
  BY <1>1, TableInvariant, PTL

(* The line of a user whose name begins with no other's is changed by      *)
(* requests for that user only (SetUserMFAStatus, DeleteUserSecret).       *)
THEOREM PlainRowsHolds == Spec => PlainRowsKept
<1>1. OnceInv /\ CookieInv /\ TableInv /\ [Next]_vars
        => [\A u \in User : BeginsWith[u] = {u} => ChangedByOwn(u)]_vars
  <2> SUFFICES ASSUME OnceInv, CookieInv, TableInv, NEW t \in Tab, Acts(t),
                      NEW u \in User, BeginsWith[u] = {u}
               PROVE  ChangedByOwn(u)
    BY ATabActs
  <2>1. CASE rows' = rows
    BY <2>1 DEF ChangedByOwn, OwnRows
  <2>2. CASE rows' # rows
    <3>1. /\ At(t, "write") /\ req'[t] # req[t]
          /\ \E R : GoodFor(req[t].user, R) /\ Rewritten(rows, rows', req[t].user, R)
      BY <2>2, TableSteps DEF OnceInv, CookieInv
    <3>2. req[t].user \in User
      BY <3>1 DEF At, OnceInv, Typed, Request
    <3>3. u # req[t].user => OwnRows(rows', u) = OwnRows(rows, u)
      BY <3>1, <3>2, RewrittenOthers DEF TableInv
    <3>4. OwnRows(rows, u)' = OwnRows(rows', u)
      BY DEF OwnRows
    <3>5. QED
      BY <3>1, <3>3, <3>4 DEF ChangedByOwn
  <2>3. QED
    BY <2>1, <2>2
<1>2. QED
  BY <1>1, OnceInvariant, CookieInvariant, TableInvariant, PTL DEF Spec, PlainRowsKept
=============================================================================
