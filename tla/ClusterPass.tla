---------------------------- MODULE ClusterPass ----------------------------
(***************************************************************************)
(* The manager's pass over a VDICluster (controllers/app,                  *)
(* pkg/resources/app) and the PKI part of its pass over a session          *)
(* (pkg/pki): the administrator's password, the secret of the app with its *)
(* keys and the CA, the certificates, and the objects of the app.          *)
(*                                                                         *)
(* One worker makes the passes of the cluster, another those of sessions.  *)
(* A pass is a sequence of steps, and a step looks at an object in the     *)
(* manager's cache and changes it in the API server if it has to. The      *)
(* cache lags behind. What it learns of an object that the cluster owns    *)
(* queues the cluster for another pass; so does a pass that fails or asks  *)
(* to be run again. Nothing else does.                                     *)
(***************************************************************************)
EXTENDS Naturals, Sequences

CONSTANTS Session,
          Roles, Rbac,   \* objects made from the spec of the cluster: before
                         \* the users, and before the PKI
          Once,          \* those of them that are never updated
          Unowned,       \* those of them that the cluster does not own
          Kinds,         \* the objects of the same kind, sets that make up Object
          None, Bad, Idle,
          MaxDisturbed,  \* bound: passes of sessions, failed calls, crashes of the
                         \* manager and changes by others, together
          Number         \* bound: CAs, passwords and keys of tokens, a number each

Key == {"jwt", "passwd"}
Secret == {"admin", "app", "server", "client"}

ClusterSteps == <<"admin", "app", "jwt">> \o Roles \o <<"passwd">> \o Rbac
                  \o <<"ca", "server", "client", "deployment", "service">>
SessionSteps == <<"app", "ca", "desktop">>

Thing == {Roles[i] : i \in DOMAIN Roles} \cup {Rbac[i] : i \in DOMAIN Rbac}
           \cup {"deployment", "service"}
Object == {"cluster", "replicas"} \cup Secret \cup Session \cup Thing

ASSUME ClusterAssumption ==
    /\ {Roles, Rbac} \subseteq Seq(Thing \ {"deployment", "service"})
    /\ Thing \cap (Key \cup Secret \cup Session \cup {"cluster", "replicas", "ca", "desktop"}) = {}
    /\ Session \cap (Secret \cup {"cluster", "replicas"}) = {}
    /\ Once \cup Unowned \subseteq Thing \ {"deployment", "service"}
    /\ UNION Kinds = Object
    /\ \A j, k \in Kinds : j = k \/ j \cap k = {}
    /\ Number \subseteq Nat /\ None \notin Nat \cup Object /\ Bad \notin Nat /\ None # Bad
    /\ MaxDisturbed \in Nat

Worker == {"cluster", "sessions"}
StepsOf(w) == IF w = "cluster" THEN ClusterSteps ELSE SessionSteps

(* The data of the app's secret: a key for tokens, the administrator's     *)
(* password, and a CA.                                                     *)
AppSecret == [jwt : Number \cup {None}, passwd : Number \cup {None},
              ca : Number \cup {None, Bad}]

Pass == [step : Nat, session : Session \cup {None}, spec : Nat,
         does : {"look", "create", "update", "delete", "write", "clear"},
         seen : Nat \cup {None},     \* the object to be updated, as it was read
         password : Number \cup {None},
         ca : Number \cup {None}]

VARIABLES live,    \* the objects in the API server
          cached,  \* the objects in the manager's cache
          unseen,  \* objects with changes that the cache has not seen
          queued,  \* the cluster is in the work queue
          pass,    \* what each worker is at
          disturbed,  \* a count
          byHand,  \* history: objects that others have changed
          lost     \* history: CAs that were in the secret, are no more, and signed
                   \* certificates that there are

vars == <<live, cached, unseen, queued, pass, disturbed, byHand, lost>>
History == <<byHand, lost>>

CA(objects) == IF objects["app"] = None THEN None ELSE objects["app"].ca

Contents ==
    [o \in Object |-> CASE o = "cluster" -> Nat
                        [] o = "replicas" -> {0, 1}  \* 1: all of them are ready
                        [] o = "app" -> AppSecret \cup {None}
                        [] o \in Thing -> Nat \cup {None}
                        [] OTHER -> Number \cup {None, Bad}]

Typed(objects) == DOMAIN objects = Object /\ \A o \in Object : objects[o] \in Contents[o]

TypeOK ==
    /\ Typed(live) /\ Typed(cached)
    /\ unseen \subseteq Object /\ queued \in BOOLEAN
    /\ pass \in [Worker -> Pass \cup {Idle}]
    /\ \A w \in Worker : pass[w] = Idle \/ pass[w].step \in DOMAIN StepsOf(w)
    /\ disturbed \in Nat
    /\ byHand \subseteq Object
    /\ lost \subseteq Number

(* A new cluster. *)
Init ==
    /\ live = [o \in Object |-> IF o \in {"cluster", "replicas"} THEN 0 ELSE None]
    /\ cached = live
    /\ unseen = {} /\ queued = TRUE
    /\ pass = [w \in Worker |-> Idle]
    /\ disturbed = 0
    /\ byHand = {} /\ lost = {}

-----------------------------------------------------------------------------
(* A pass reads the cluster and sets up an engine with an empty cache. *)
NewPass(s) == [step |-> 1, session |-> s, spec |-> cached["cluster"], does |-> "look",
               seen |-> None, password |-> None, ca |-> None]

Begin ==
    /\ queued /\ pass["cluster"] = Idle
    /\ queued' = FALSE
    /\ pass' = [pass EXCEPT !["cluster"] = NewPass(None)]
    /\ UNCHANGED <<live, cached, unseen, disturbed, History>>

(* Sessions are made by the app. *)
BeginSession(s) ==
    /\ pass["sessions"] = Idle /\ live["deployment"] # None
    /\ disturbed < MaxDisturbed
    /\ disturbed' = disturbed + 1
    /\ pass' = [pass EXCEPT !["sessions"] = NewPass(s)]
    /\ UNCHANGED <<live, cached, unseen, queued, History>>

StepOf(w) == StepsOf(w)[pass[w].step]
Looks(w, step) == pass[w] # Idle /\ pass[w].does = "look" /\ StepOf(w) = step

(* What a pass p does next. *)
Then(w, p) == pass' = [pass EXCEPT ![w] = p] /\ UNCHANGED queued
Does(w, what) == Then(w, [pass[w] EXCEPT !.does = what])

GoesOn(w, p) ==
    Then(w, IF p.step = Len(StepsOf(w)) THEN Idle
            ELSE [p EXCEPT !.step = @ + 1, !.does = "look", !.seen = None])

(* The pass ends with an error, or asks to be run again. *)
Requeue(w) ==
    /\ pass' = [pass EXCEPT ![w] = Idle]
    /\ queued' = (queued \/ w = "cluster")

-----------------------------------------------------------------------------
(* Steps that only look. *)

(* reconcileAdminSecret: a secret without a password is deleted. *)
LookAdmin(w) ==
    LET a == cached["admin"] IN
    /\ Looks(w, "admin")
    /\ CASE a = None -> Does(w, "create")
         [] a = Bad  -> Does(w, "delete")
         [] OTHER    -> GoesOn(w, [pass[w] EXCEPT !.password = a])

(* ensureSecret, in the setup of the engine. *)
LookApp(w) ==
    /\ Looks(w, "app")
    /\ IF cached["app"] = None THEN Does(w, "create") ELSE GoesOn(w, pass[w])

(* The key of the tokens, and the passwd file. *)
LookKey(w, k) ==
    /\ Looks(w, k)
    /\ IF cached["app"] = None THEN Requeue(w)
       ELSE IF cached["app"][k] = None THEN Does(w, "write") ELSE GoesOn(w, pass[w])

(* reconcileCA: a damaged CA is taken out, and the pass is run again. *)
LookCA(w) ==
    LET ca == CA(cached) IN
    /\ Looks(w, "ca")
    /\ IF cached["app"] = None THEN Requeue(w)
       ELSE CASE ca = None -> Does(w, "write")
              [] ca = Bad  -> Does(w, "clear")
              [] OTHER     -> GoesOn(w, [pass[w] EXCEPT !.ca = ca])

(* Broken LookCert: whose signature it is does not matter.                 *)
LookCertThere(w, c) ==
    /\ Looks(w, c)
    /\ CASE cached[c] = None -> Does(w, "create")
         [] cached[c] = Bad  -> Does(w, "delete")
         [] OTHER            -> GoesOn(w, pass[w])

(* reconcileAppCertificates: a certificate must be signed by the CA. *)
LookCert(w, c) ==
    /\ Looks(w, c)
    /\ IF cached[c] = None THEN Does(w, "create")
       ELSE IF cached[c] # pass[w].ca THEN Does(w, "delete") ELSE GoesOn(w, pass[w])

(* ReconcileDesktop: one that is there is not verified. *)
LookDesktop(w) ==
    /\ Looks(w, "desktop")
    /\ IF cached[pass[w].session] = None THEN Does(w, "create") ELSE GoesOn(w, pass[w])

(* pkg/util/reconcile: an object carries the checksum of the spec it was    *)
(* made from, and is updated if the spec now gives another.                *)
OutOfDate(w, o) == cached[o] # None /\ cached[o] # pass[w].spec
Updates(w, o) == Then(w, [pass[w] EXCEPT !.does = "update", !.seen = cached[o]])

LookThing(w, o) ==
    /\ Looks(w, o)
    /\ CASE cached[o] = None -> Does(w, "create")
         [] OutOfDate(w, o) /\ o \notin Once -> Updates(w, o)
         [] OTHER -> GoesOn(w, pass[w])

(* The deployment must be ready. *)
LookDeployment(w) ==
    LET o == "deployment" IN
    /\ Looks(w, o)
    /\ CASE cached[o] = None         -> Does(w, "create")
         [] OutOfDate(w, o)          -> Updates(w, o)
         [] OTHER -> IF cached["replicas"] = 0 THEN Requeue(w) ELSE GoesOn(w, pass[w])

(* A service is deleted, to be made anew. *)
LookService(w) ==
    LET o == "service" IN
    /\ Looks(w, o)
    /\ CASE cached[o] = None         -> Does(w, "create")
         [] OutOfDate(w, o)          -> Does(w, "delete")
         [] OTHER                    -> GoesOn(w, pass[w])

Look(w) ==
    /\ \/ LookAdmin(w) \/ LookApp(w) \/ LookCA(w) \/ LookDesktop(w)
       \/ LookDeployment(w) \/ LookService(w)
       \/ \E k \in Key : LookKey(w, k)
       \/ \E c \in {"server", "client"} : LookCert(w, c)
       \/ \E o \in Thing \ {"deployment", "service"} : LookThing(w, o)
    /\ UNCHANGED <<live, cached, unseen, disturbed, History>>

-----------------------------------------------------------------------------
(* Steps that call the API server. *)

Target(w) == IF StepOf(w) = "desktop" THEN pass[w].session
             ELSE IF StepOf(w) \in Key \cup {"ca"} THEN "app" ELSE StepOf(w)

(* Secrets are drawn at random: a new one is none of those there are. *)
Certs == {"server", "client"} \cup Session
CAsInHand(passes) == {passes[w].ca : w \in {v \in Worker : passes[v] # Idle}}
CAsInUse == {CA(live), CA(cached)} \cup {live[c] : c \in Certs} \cup {cached[c] : c \in Certs}
              \cup CAsInHand(pass)
KeysInUse(k) == {objects["app"][k] : objects \in {x \in {live, cached} : x["app"] # None}}
PasswordsInUse == KeysInUse("passwd") \cup {live["admin"], cached["admin"]}

New(used) == CHOOSE n \in Number \ used : \A m \in Number \ used : n <= m

NewValue(w) ==
    CASE StepOf(w) = "admin" -> New(PasswordsInUse)
      [] StepOf(w) = "app" -> [jwt |-> None, passwd |-> None, ca |-> None]
      [] StepOf(w) \in {"server", "client", "desktop"} -> pass[w].ca
      [] OTHER -> pass[w].spec

(* A write of a key is a read of the whole secret, from the cache, and an  *)
(* update of it.                                                           *)
NewKey(w) == IF pass[w].does = "clear" THEN None
             ELSE CASE StepOf(w) = "jwt" -> New(KeysInUse("jwt"))
                    [] StepOf(w) = "passwd" -> pass[w].password
                    [] StepOf(w) = "ca" -> New(CAsInUse)
Written(w) == [cached["app"] EXCEPT ![StepOf(w)] = NewKey(w)]

Calls(w) == pass[w] # Idle /\ pass[w].does # "look"

(* Broken Accepted: an update whatever version it was read at.             *)
AcceptedAnyVersion(w) ==
    CASE pass[w].does = "create" -> live[Target(w)] = None
      [] pass[w].does \in {"update", "delete"} -> live[Target(w)] # None
      [] OTHER -> cached["app"] # None /\ live["app"] # None

(* Broken Accepted: a create that replaces what is there.                  *)
AcceptedCreate(w) ==
    CASE pass[w].does = "create" -> TRUE
      [] pass[w].does = "update" -> live[Target(w)] = pass[w].seen
      [] pass[w].does = "delete" -> live[Target(w)] # None
      [] OTHER -> "app" \notin unseen /\ live["app"] # None

Accepted(w) ==
    CASE pass[w].does = "create" -> live[Target(w)] = None
      [] pass[w].does = "update" -> live[Target(w)] = pass[w].seen
      [] pass[w].does = "delete" -> live[Target(w)] # None
      [] OTHER -> "app" \notin unseen /\ live["app"] # None

LosesCA ==
    lost' = (lost \cup {CA(live)}) \cap
              (({live'[c] : c \in Certs} \cup {CA(cached)} \cup CAsInHand(pass'))
                 \ {CA(live'), None, Bad})

Effect(w) ==
    /\ live' = [live EXCEPT ![Target(w)] =
                  CASE pass[w].does \in {"create", "update"} -> NewValue(w)
                    [] pass[w].does = "delete" -> None
                    [] OTHER -> Written(w)]
    /\ unseen' = unseen \cup {Target(w)}

(* What the pass has learnt from its call. *)
Learnt(w) ==
    [pass[w] EXCEPT
       !.password = IF StepOf(w) = "admin" THEN NewValue(w) ELSE @,
       !.ca = IF StepOf(w) = "ca" THEN NewKey(w) ELSE @]

(* After a delete the pass is run again, and after a new deployment to     *)
(* wait for it.                                                            *)
Again(w) ==
    \/ pass[w].does \in {"delete", "clear"}
    \/ Target(w) = "deployment" /\ (pass[w].does = "create" \/ cached["replicas"] = 0)

Call(w) ==
    /\ Calls(w) /\ Accepted(w)
    /\ Effect(w)
    /\ IF Again(w) THEN Requeue(w) ELSE GoesOn(w, Learnt(w))
    /\ LosesCA
    /\ UNCHANGED <<cached, disturbed, byHand>>

(* Broken Refused: the error of a write is dropped.                        *)
RefusedDropped(w) ==
    /\ Calls(w) /\ ~Accepted(w)
    /\ IF pass[w].does = "write" THEN GoesOn(w, Learnt(w)) ELSE Requeue(w)
    /\ UNCHANGED <<live, cached, unseen, disturbed, History>>

(* Already there, not there, or changed since it was read. *)
Refused(w) ==
    /\ Calls(w) /\ ~Accepted(w)
    /\ Requeue(w)
    /\ UNCHANGED <<live, cached, unseen, disturbed, History>>

(* A call fails, and may have been applied. *)
Fails(w) ==
    /\ Calls(w) /\ disturbed < MaxDisturbed
    /\ \/ UNCHANGED <<live, unseen>>
       \/ Accepted(w) /\ Effect(w)
    /\ disturbed' = disturbed + 1
    /\ Requeue(w)
    /\ LosesCA
    /\ UNCHANGED <<cached, byHand>>

(* The manager starts anew: it lists all objects. *)
Crash ==
    /\ disturbed < MaxDisturbed
    /\ cached' = live /\ unseen' = {} /\ queued' = TRUE
    /\ pass' = [w \in Worker |-> Idle]
    /\ disturbed' = disturbed + 1
    /\ UNCHANGED <<live, History>>

-----------------------------------------------------------------------------
(* Broken Watched: the cluster does not own its secrets.                   *)
WatchedNoSecrets == ({"cluster", "replicas"} \cup Thing) \ (Unowned \cup Once)

(* Owns in SetupWithManager: what the cluster owns. Service accounts, which *)
(* are never updated, are not watched.                                     *)
Watched == ({"cluster", "replicas"} \cup Secret \cup Thing) \ (Unowned \cup Once)

(* The manager's cache has one informer for each kind of object. *)
CatchUp(kind) ==
    LET news == unseen \cap kind IN
    /\ news # {}
    /\ cached' = [o \in Object |-> IF o \in news THEN live[o] ELSE cached[o]]
    /\ unseen' = unseen \ news
    /\ queued' = (queued \/ news \cap Watched # {})
    /\ UNCHANGED <<live, pass, disturbed, History>>

(* The pods of the deployment mount the certificates. "replicas", its      *)
(* status, comes with the deployment.                                      *)
BecomesReady ==
    /\ live["replicas"] = 0 /\ live["deployment"] # None
    /\ \A c \in {"server", "client"} : live[c] # None
    /\ live' = [live EXCEPT !["replicas"] = 1]
    /\ unseen' = unseen \cup {"replicas"}
    /\ UNCHANGED <<cached, queued, pass, disturbed, History>>

-----------------------------------------------------------------------------
(* Others: a new spec, and objects that are changed or removed by hand. *)
ChangeCluster ==
    /\ disturbed < MaxDisturbed
    /\ disturbed' = disturbed + 1
    /\ live' = [live EXCEPT !["cluster"] = @ + 1]
    /\ unseen' = unseen \cup {"cluster"}
    /\ UNCHANGED <<cached, queued, pass, History>>

ByHand(o, value) ==
    /\ disturbed < MaxDisturbed
    /\ live' = [live EXCEPT ![o] = value,
                            !["replicas"] = IF o = "deployment" THEN 0 ELSE @]
    /\ disturbed' = disturbed + 1
    /\ unseen' = unseen \cup {o} \cup (IF o = "deployment" THEN {"replicas"} ELSE {})
    /\ byHand' = byHand \cup {o}
    /\ UNCHANGED <<cached, queued, pass>>
    /\ LosesCA

Remove(o) == live[o] # None /\ ByHand(o, None)
Damage(o) == live[o] \notin {None, Bad} /\ ByHand(o, Bad)
DamageCA ==
    /\ live["app"] # None /\ CA(live) \notin {None, Bad}
    /\ ByHand("app", [live["app"] EXCEPT !.ca = Bad])

(* The app writes its users and tokens into other keys of the secret. *)
AppWrites ==
    /\ disturbed < MaxDisturbed /\ live["replicas"] = 1 /\ live["app"] # None
    /\ unseen' = unseen \cup {"app"}
    /\ disturbed' = disturbed + 1
    /\ UNCHANGED <<live, cached, queued, pass, History>>

Others ==
    \/ ChangeCluster \/ DamageCA \/ AppWrites
    \/ \E o \in Secret \cup Thing : Remove(o)
    \/ \E o \in {"admin", "server", "client"} : Damage(o)

-----------------------------------------------------------------------------
Goes(w) == Look(w) \/ Call(w) \/ Refused(w)

Next ==
    \/ Begin \/ BecomesReady \/ Crash \/ Others
    \/ \E s \in Session : BeginSession(s)
    \/ \E w \in Worker : Goes(w) \/ Fails(w)
    \/ \E kind \in Kinds : CatchUp(kind)

Fairness ==
    /\ WF_vars(Begin) /\ WF_vars(BecomesReady)
    /\ \A w \in Worker : WF_vars(Goes(w))
    /\ \A kind \in Kinds : WF_vars(CatchUp(kind))

Spec == Init /\ [][Next]_vars /\ Fairness

-----------------------------------------------------------------------------
(* All as it should be: the secrets are there and whole, the certificates  *)
(* of the app are signed by the CA there is, the app runs, and every       *)
(* object is there and made from the spec of the cluster, also one that    *)
(* was changed or removed if the cluster is told of it.                    *)
Done ==
    /\ live["admin"] \notin {None, Bad} /\ live["app"] # None /\ CA(live) \notin {None, Bad}
    /\ \A k \in Key : live["app"][k] # None
    /\ \A c \in {"server", "client"} : live[c] = CA(live)
    /\ live["replicas"] = 1
    /\ \A o \in Thing : o \in Watched \ Once \/ o \notin byHand =>
         live[o] # None /\ (o \notin Once => live[o] = live["cluster"])

(* In the end it is, whatever was damaged or removed, and however the      *)
(* passes of the cluster and of sessions, with a cache that lags, met over *)
(* the CA.                                                                 *)
Converges == <>[]Done

(* The manager rests, with no pass queued or under way and nothing to hear *)
(* of, only when it is: no step of a pass comes too early to be followed   *)
(* by another, and no change goes unheard that undoes what a pass did.     *)
RestsWhenDone == pass["cluster"] = Idle /\ ~queued /\ unseen = {} => Done

(* "retrieve the admin password from kvdi-admin-secret" (README.md:111):   *)
(* it is the one in the passwd file, unless others changed the secret,     *)
(* also after crashes, failed calls and looks at an old cache.             *)
AdminCanLogIn ==
    /\ live["admin"] \notin {None, Bad} /\ "admin" \notin byHand
    /\ live["app"] # None /\ live["app"].passwd # None
    => live["app"].passwd = live["admin"]

(* Once the app runs, no pass takes away or makes anew the key of the      *)
(* tokens or the users, though a pass writes the whole secret and may see  *)
(* an old one in the cache.                                                *)
KeysKept ==
    [][\A k \in Key :
         live["deployment"] # None /\ live["app"] # None /\ "app" \notin byHand'
         => live'["app"] # None /\ live'["app"][k] = live["app"][k]]_vars

(* A certificate is signed by the CA of the cluster or by one that was     *)
(* lost, never by one that was made but not stored.                        *)
SignedByStored ==
    \A c \in Certs : live[c] \in Number => live[c] = CA(live) \/ live[c] \in lost
=============================================================================
