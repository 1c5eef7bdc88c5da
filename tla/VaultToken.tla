----------------------------- MODULE VaultToken -----------------------------
(***************************************************************************)
(* The token of the vault provider (pkg/secrets/providers/vault): Setup    *)
(* makes a client and logs it in, a loop renews the token of whatever      *)
(* client there is or logs in again, Close stops the loop and revokes the  *)
(* token. The app sets its provider up again whenever it is told of the    *)
(* VDICluster, beside the loop; the manager sets one up for a pass and     *)
(* closes it.                                                              *)
(*                                                                         *)
(* A call takes no time: the clock waits for the loop and for Setup.       *)
(***************************************************************************)
EXTENDS Naturals

CONSTANTS Lease,     \* the ticks that a login is good for
          MaxTTL,    \* the ticks after which no renewal keeps a token alive
          Margin,    \* the loop works this long before the token expires, 60 seconds,
          Again,     \* and again this long after a login that failed, 10 seconds
          Renewable, \* the vault says that its tokens can be renewed
          NoToken,
          MaxOutages \* bound: the vault stops answering this often

ASSUME VaultAssumption ==
    /\ {Lease, MaxTTL, Margin, Again} \subseteq Nat \ {0} /\ MaxOutages \in Nat
    /\ Lease <= MaxTTL /\ Renewable \in BOOLEAN
    /\ NoToken \notin 1..4

VARIABLES keeper,   \* who has the provider
          up,       \* the vault answers
          outages,
          tokens,   \* what the vault knows of each token: the ticks left now and at most
          client,   \* the token of p.client
          renewer,     \* where the loop is, the ticks until its ticker's, authInfo
          setup,    \* where Setup is, and the token it was given
          close     \* where Close is

vaultVars == <<keeper, up, outages, tokens, client, renewer, setup, close>>

(* As many as the client, the loop and Setup can have, and one more. *)
Token == 1..4

Smaller(m, n) == IF m < n THEN m ELSE n
Less(n) == IF n = 0 THEN 0 ELSE n - 1

VaultTypeOK ==
    /\ keeper \in {"app", "manager"} /\ up \in BOOLEAN /\ outages \in 0..MaxOutages
    /\ tokens \in [Token -> [left : 0..Lease, most : 0..MaxTTL]]
    /\ client \in Token \cup {NoToken}
    /\ renewer \in [at : {"none", "wait", "renew", "login", "set", "stopped", "panic"},
                 due : 0..(Lease + Again), token : Token \cup {NoToken}, lease : 0..Lease]
    /\ setup \in [at : {"off", "idle", "login", "set", "failed"}, token : Token \cup {NoToken}]
    /\ close \in {"no", "stop", "revoke", "done"}

Expired == [left |-> 0, most |-> 0]
NoLoop == [at |-> "none", due |-> 0, token |-> NoToken, lease |-> 0]
SetupAt(at) == [at |-> at, token |-> NoToken]

VaultInit ==
    /\ keeper \in {"app", "manager"}
    /\ up = TRUE /\ outages = 0
    /\ tokens = [t \in Token |-> Expired]
    /\ client = NoToken /\ renewer = NoLoop /\ setup = SetupAt("off") /\ close = "no"

(* A token that nobody has any more is forgotten. *)
Held == {client, renewer.token, setup.token}
Unknown == CHOOSE t \in Token : t \notin Held
Granted == [t \in Token |-> IF t = Unknown THEN [left |-> Lease, most |-> MaxTTL]
                            ELSE IF t \in Held THEN tokens[t] ELSE Expired]

(* newAuthTicker: NewTicker panics unless the interval is positive. *)
Waiting(t, lease) ==
    [at |-> IF lease > Margin THEN "wait" ELSE "panic",
     due |-> IF lease > Margin THEN lease - Margin ELSE 0, token |-> t, lease |-> lease]

Running == renewer.at # "panic"

-----------------------------------------------------------------------------
(* Setup gives the provider a new client, which has no token yet. The app  *)
(* tries again until it succeeds, and starts over with the next event; the *)
(* manager tries again in its next pass.                                   *)
NewClient ==
    /\ client' = NoToken /\ setup' = SetupAt("login")
    /\ UNCHANGED <<keeper, up, outages, tokens, renewer, close>>

ProcessStarts ==
    /\ setup.at = "off" /\ setup' = SetupAt("idle")
    /\ UNCHANGED <<keeper, up, outages, tokens, client, renewer, close>>

FirstSetup == Running /\ close = "no" /\ setup.at \in {"idle", "failed"}
              /\ (renewer.at = "none" \/ setup.at = "failed") /\ NewClient
SetupAgain == Running /\ keeper = "app" /\ setup.at = "idle" /\ renewer.at # "none" /\ NewClient

SetupLogin ==
    /\ Running /\ setup.at = "login"
    /\ IF up THEN tokens' = Granted /\ setup' = [at |-> "set", token |-> Unknown]
             ELSE setup' = SetupAt("failed") /\ UNCHANGED tokens
    /\ UNCHANGED <<keeper, up, outages, client, renewer, close>>

(* The loop of the first Setup goes on, with what it knows of that token.  *)
SetupDone ==
    /\ Running /\ setup.at = "set"
    /\ client' = setup.token
    /\ renewer' = IF renewer.at = "none" THEN Waiting(setup.token, Lease) ELSE renewer
    /\ setup' = SetupAt("idle")
    /\ UNCHANGED <<keeper, up, outages, tokens, close>>

-----------------------------------------------------------------------------
(* runTokenRefreshLoop. *)
Wake ==
    /\ renewer.at = "wait" /\ renewer.due = 0
    /\ renewer' = [renewer EXCEPT !.at = IF renewer.token # NoToken /\ Renewable THEN "renew" ELSE "login"]
    /\ UNCHANGED <<keeper, up, outages, tokens, client, setup, close>>

(* RenewSelf, of the token the client has now, for as long as authInfo was *)
(* good for, or as long as the vault allows.                               *)
Renew ==
    /\ renewer.at = "renew"
    /\ IF up /\ client # NoToken /\ tokens[client].left > 0
         THEN LET lease == Smaller(renewer.lease, tokens[client].most) IN
              /\ tokens' = [tokens EXCEPT ![client].left = lease]
              /\ renewer' = [renewer EXCEPT !.at = "set", !.token = client, !.lease = lease]
         ELSE renewer' = [renewer EXCEPT !.at = "login", !.token = NoToken] /\ UNCHANGED tokens
    /\ UNCHANGED <<keeper, up, outages, client, setup, close>>

(* Broken LoopLogin: a login that fails ends the loop.                     *)
LoopLoginOnce ==
    /\ renewer.at = "login"
    /\ IF up
         THEN /\ tokens' = Granted
              /\ renewer' = [renewer EXCEPT !.at = "set", !.token = Unknown, !.lease = Lease]
         ELSE renewer' = [NoLoop EXCEPT !.at = "stopped"] /\ UNCHANGED tokens
    /\ UNCHANGED <<keeper, up, outages, client, setup, close>>

LoopLogin ==
    /\ renewer.at = "login"
    /\ IF up
         THEN /\ tokens' = Granted
              /\ renewer' = [renewer EXCEPT !.at = "set", !.token = Unknown, !.lease = Lease]
         ELSE renewer' = [NoLoop EXCEPT !.at = "wait", !.due = Again] /\ UNCHANGED tokens
    /\ UNCHANGED <<keeper, up, outages, client, setup, close>>

(* SetToken, of the client there is by now. *)
LoopDone ==
    /\ renewer.at = "set"
    /\ client' = renewer.token /\ renewer' = Waiting(renewer.token, renewer.lease)
    /\ UNCHANGED <<keeper, up, outages, tokens, setup, close>>

-----------------------------------------------------------------------------
(* Close waits for the loop to take the stop; the manager calls it once,   *)
(* when its pass is over.                                                  *)
CloseBegins ==
    /\ Running /\ keeper = "manager" /\ setup.at = "idle" /\ renewer.at # "none" /\ close = "no"
    /\ close' = "stop"
    /\ UNCHANGED <<keeper, up, outages, tokens, client, renewer, setup>>

StopLoop ==
    /\ close = "stop" /\ renewer.at = "wait"
    /\ close' = "revoke" /\ renewer' = [NoLoop EXCEPT !.at = "stopped"]
    /\ UNCHANGED <<keeper, up, outages, tokens, client, setup>>

RevokeSelf ==
    /\ close = "revoke"
    /\ tokens' = IF up /\ client # NoToken THEN [tokens EXCEPT ![client] = Expired] ELSE tokens
    /\ close' = "done"
    /\ UNCHANGED <<keeper, up, outages, client, renewer, setup>>

-----------------------------------------------------------------------------
(* A panic ends the process, and Kubernetes starts another. *)
Restart ==
    /\ ~Running
    /\ client' = NoToken /\ renewer' = NoLoop /\ setup' = SetupAt("idle") /\ close' = "no"
    /\ UNCHANGED <<keeper, up, outages, tokens>>

VaultFails == up /\ setup.at # "off" /\ outages < MaxOutages /\ up' = FALSE /\ outages' = outages + 1
          /\ UNCHANGED <<keeper, tokens, client, renewer, setup, close>>
VaultRecovers == ~up /\ up' = TRUE
            /\ UNCHANGED <<keeper, outages, tokens, client, renewer, setup, close>>

VaultTick ==
    /\ renewer.at \notin {"renew", "login", "set"} /\ ~(renewer.at = "wait" /\ renewer.due = 0)
    /\ setup.at \notin {"login", "set"}
    /\ renewer' = [renewer EXCEPT !.due = Less(@)]
    /\ tokens' = [t \in Token |->
                    IF t \notin Held THEN Expired
                    ELSE [left |-> Less(tokens[t].left), most |-> Less(tokens[t].most)]]
    /\ UNCHANGED <<keeper, up, outages, client, setup, close>>

SetupStep == FirstSetup \/ SetupLogin \/ SetupDone
LoopStep == Wake \/ Renew \/ LoopLogin \/ LoopDone
CloseStep == StopLoop \/ RevokeSelf

VaultNext ==
    \/ ProcessStarts \/ SetupStep \/ SetupAgain \/ LoopStep \/ CloseBegins \/ CloseStep
    \/ Restart \/ VaultFails \/ VaultRecovers \/ VaultTick

VaultSpec == VaultInit /\ [][VaultNext]_vaultVars

(* Goroutines run, a process that died is started again, the vault comes   *)
(* back and the clock runs. Nobody has to ask for another Setup.           *)
VaultFairness ==
    /\ WF_vaultVars(SetupStep) /\ WF_vaultVars(LoopStep) /\ WF_vaultVars(CloseStep)
    /\ WF_vaultVars(Restart) /\ WF_vaultVars(VaultRecovers) /\ WF_vaultVars(VaultTick)

-----------------------------------------------------------------------------
(* The requests and passes that find the provider set up.                  *)
Serving == renewer.at \notin {"none", "panic"} /\ setup.at = "idle" /\ close = "no"
Alive == client # NoToken /\ tokens[client].left > 0

(* While the vault has always answered, the client's token has not expired.*)
AliveWhileAnswered == outages = 0 /\ Serving => Alive

(* As long as the vault answers, the token of the client that requests use *)
(* has not expired, whatever Setup and the loop do beside each other; after *)
(* outages it is replaced, once and for all. And Close returns.            *)
TokenKept ==
    /\ []AliveWhileAnswered
    /\ <>[](Serving => Alive)
    /\ (close = "stop" ~> close # "stop")

(* "If authentication succeeds, a loop is spawned to keep the token fresh" *)
(* (provider.go:59-60): the loop does not end on its own, or the process   *)
(* with it.                                                                *)
LoopKeepsRunning == renewer.at # "panic"
=============================================================================
