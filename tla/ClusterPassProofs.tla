------------------------- MODULE ClusterPassProofs -------------------------
(***************************************************************************)
(* Proofs about ClusterPass for any sessions, roles and objects, and any   *)
(* number of crashes, failed calls and changes by others.                  *)
(***************************************************************************)
EXTENDS ClusterPass, WellFoundedInduction, TLAPS

AppFields == {"jwt", "passwd", "ca"}
PassFields == {"step", "session", "spec", "does", "seen", "password", "ca"}

(* None is not taken for a secret.                                         *)
NoneApart == DOMAIN None # AppFields

(* The steps at which a pass makes each kind of call.                      *)
DoneAt ==
    [look |-> {}, create |-> {"admin", "app", "server", "client", "desktop"} \cup Thing,
     update |-> Thing, delete |-> {"admin", "server", "client", "service"},
     write |-> Key \cup {"ca"}, clear |-> {"ca"}]

(* Objects and passes are made as they should be, and what the cache does  *)
(* not lack is as it is in the API server. The values are left open: New   *)
(* may have none left.                                                     *)
Shaped ==
    /\ DOMAIN live = Object /\ DOMAIN cached = Object /\ DOMAIN pass = Worker
    /\ \A o \in Object \ unseen : cached[o] = live[o]
    /\ live["app"] = None \/ DOMAIN live["app"] = AppFields
    /\ cached["app"] = None \/ DOMAIN cached["app"] = AppFields
    /\ \A w \in Worker : pass[w] # Idle =>
         /\ DOMAIN pass[w] = PassFields
         /\ pass[w].session \in Session \cup {None}
         /\ pass[w].does # "look" => pass[w].does \in DOMAIN DoneAt /\ StepOf(w) \in DoneAt[pass[w].does]

(* A CA that is the one there is, or was and is remembered.                *)
Stored(ca, objects, gone) == ca \in Number => ca = CA(objects) \/ ca \in gone

(* Whoever holds a CA, to sign with or signed by it, holds a stored one:   *)
(* the certificates, the cache, and a pass that has read or made one.      *)
HeldIsStored ==
    /\ \A c \in Certs : Stored(live[c], live, lost)
    /\ Stored(CA(cached), live, lost)
    /\ \A w \in Worker : pass[w] # Idle => Stored(pass[w].ca, live, lost)

SignedInv == Shaped /\ HeldIsStored

(* The names of the objects are apart, and None and Bad are no numbers.    *)
LEMMA Names ==
    /\ "app" \in Object /\ Certs \subseteq Object /\ "app" \notin Certs
    /\ Thing \cap Certs = {} /\ "app" \notin Thing
    /\ {"admin", "replicas", "deployment", "service", "cluster"} \cap Certs = {}
    /\ None \notin Number /\ Bad \notin Number
<1>1. None \notin Number /\ Bad \notin Number
  BY ClusterAssumption
<1>2. /\ Thing \cap (Key \cup Secret \cup Session \cup {"cluster", "replicas", "ca", "desktop"}) = {}
      /\ Session \cap (Secret \cup {"cluster", "replicas"}) = {}
  BY ClusterAssumption
<1>3. QED
  BY <1>1, <1>2 DEF Object, Secret, Certs, Thing, Key

(* What a pass makes of itself: it ends, or keeps its CA or takes what the *)
(* cache has, and does at a step what is done there.                       *)
Fit(p, w) ==
    /\ DOMAIN p = PassFields
    /\ p.session = pass[w].session
    /\ p.does = "look" \/ (p.step = pass[w].step /\ p.does \in DOMAIN DoneAt /\ StepOf(w) \in DoneAt[p.does])

(* A pass that goes on with p ends or is at its next step, with p's CA.    *)
LEMMA Going ==
    ASSUME Shaped, NEW w \in Worker, pass[w] # Idle, NEW p, Fit(p, w), GoesOn(w, p)
    PROVE  \E q : /\ pass' = [pass EXCEPT ![w] = q]
                  /\ q = Idle \/ (Fit(q, w) /\ q.does = "look" /\ q.ca = p.ca)
<1> DEFINE q == [p EXCEPT !.step = @ + 1, !.does = "look", !.seen = None]
<1>1. DOMAIN q = PassFields /\ q.session = p.session /\ q.does = "look" /\ q.ca = p.ca
  BY DEF Fit, PassFields
<1>2. Fit(q, w)
  BY <1>1 DEF Fit
<1> HIDE DEF q
<1>3. pass' = [pass EXCEPT ![w] = IF p.step = Len(StepsOf(w)) THEN Idle ELSE q]
  BY DEF GoesOn, Then, q
<1>4. QED
  BY <1>1, <1>2, <1>3

(* After it has looked, a pass has ended, or has the CA it had or the one  *)
(* in the cache.                                                           *)
LEMMA Looking ==
    ASSUME Shaped, NEW w \in Worker, Look(w)
    PROVE  \E q : /\ pass' = [pass EXCEPT ![w] = q]
                  /\ q = Idle \/ (Fit(q, w) /\ q.ca \in {pass[w].ca, CA(cached)})
<1>0. pass[w] # Idle /\ pass[w].does = "look" /\ DOMAIN pass[w] = PassFields
  BY DEF Look, Looks, LookAdmin, LookApp, LookCA, LookDesktop, LookDeployment, LookService,
         LookKey, LookCert, LookThing, Shaped
<1> DEFINE Result == \E q : /\ pass' = [pass EXCEPT ![w] = q]
                            /\ q = Idle \/ (Fit(q, w) /\ q.ca \in {pass[w].ca, CA(cached)})
<1>1. ASSUME NEW p, Fit(p, w), p.ca \in {pass[w].ca, CA(cached)}, GoesOn(w, p) PROVE Result
  BY <1>0, <1>1, Going
<1>2. ASSUME NEW d \in DOMAIN DoneAt, StepOf(w) \in DoneAt[d], Does(w, d) PROVE Result
  <2>1. Fit([pass[w] EXCEPT !.does = d], w) /\ [pass[w] EXCEPT !.does = d].ca = pass[w].ca
    BY <1>0, <1>2 DEF Fit, PassFields
  <2>2. QED
    BY <1>2, <2>1 DEF Does, Then
<1>3. ASSUME Requeue(w) PROVE Result
  BY <1>3 DEF Requeue
<1>4. ASSUME GoesOn(w, pass[w]) PROVE Result
  BY <1>0, <1>1, <1>4 DEF Fit
<1>5. ASSUME NEW o, StepOf(w) = o, o \in Thing, Updates(w, o) PROVE Result
  <2> DEFINE q == [pass[w] EXCEPT !.does = "update", !.seen = cached[o]]
  <2>1. Fit(q, w) /\ q.ca = pass[w].ca
    BY <1>0, <1>5 DEF Fit, PassFields, DoneAt
  <2>2. QED
    BY <1>5, <2>1 DEF Updates, Then
<1> HIDE DEF Result
<1>6. /\ StepOf(w) \in {"admin", "app", "server", "client", "desktop"} \cup Thing /\ Does(w, "create") => Result
      /\ StepOf(w) \in {"admin", "server", "client", "service"} /\ Does(w, "delete") => Result
      /\ StepOf(w) \in Key \cup {"ca"} /\ Does(w, "write") => Result
      /\ StepOf(w) = "ca" /\ Does(w, "clear") => Result
  BY <1>2 DEF DoneAt
<1>7. ASSUME LookAdmin(w) PROVE Result
  <2>1. Fit([pass[w] EXCEPT !.password = cached["admin"]], w)
        /\ [pass[w] EXCEPT !.password = cached["admin"]].ca = pass[w].ca
    BY <1>0 DEF Fit, PassFields
  <2>2. /\ StepOf(w) = "admin"
        /\ \/ Does(w, "create") \/ Does(w, "delete")
           \/ GoesOn(w, [pass[w] EXCEPT !.password = cached["admin"]])
    BY <1>7 DEF LookAdmin, Looks
  <2>3. QED
    BY <1>1, <1>6, <2>1, <2>2
<1>8. ASSUME LookApp(w) PROVE Result
  <2>1. StepOf(w) = "app" /\ (Does(w, "create") \/ GoesOn(w, pass[w]))
    BY <1>8 DEF LookApp, Looks
  <2>2. QED
    BY <1>4, <1>6, <2>1
<1>9. ASSUME LookCA(w) PROVE Result
  <2>1. Fit([pass[w] EXCEPT !.ca = CA(cached)], w) /\ [pass[w] EXCEPT !.ca = CA(cached)].ca = CA(cached)
    BY <1>0 DEF Fit, PassFields
  <2>2. /\ StepOf(w) = "ca"
        /\ \/ Requeue(w) \/ Does(w, "write") \/ Does(w, "clear")
           \/ GoesOn(w, [pass[w] EXCEPT !.ca = CA(cached)])
    BY <1>9 DEF LookCA, Looks
  <2>3. QED
    BY <1>1, <1>3, <1>6, <2>1, <2>2
<1>10. ASSUME LookDesktop(w) PROVE Result
  <2>1. StepOf(w) = "desktop" /\ (Does(w, "create") \/ GoesOn(w, pass[w]))
    BY <1>10 DEF LookDesktop, Looks
  <2>2. QED
    BY <1>4, <1>6, <2>1
<1>11. ASSUME LookDeployment(w) PROVE Result
  <2>1. /\ StepOf(w) = "deployment"
        /\ \/ Does(w, "create") \/ Updates(w, "deployment") \/ Requeue(w) \/ GoesOn(w, pass[w])
    BY <1>11 DEF LookDeployment, Looks
  <2>2. "deployment" \in Thing
    BY DEF Thing
  <2>3. QED
    BY <1>3, <1>4, <1>5, <1>6, <2>1, <2>2
<1>12. ASSUME LookService(w) PROVE Result
  <2>1. StepOf(w) = "service" /\ (Does(w, "create") \/ Does(w, "delete") \/ GoesOn(w, pass[w]))
    BY <1>12 DEF LookService, Looks
  <2>2. "service" \in Thing
    BY DEF Thing
  <2>3. QED
    BY <1>4, <1>6, <2>1, <2>2
<1>13. ASSUME NEW k \in Key, LookKey(w, k) PROVE Result
  <2>1. StepOf(w) = k /\ (Requeue(w) \/ Does(w, "write") \/ GoesOn(w, pass[w]))
    BY <1>13 DEF LookKey, Looks
  <2>2. QED
    BY <1>3, <1>4, <1>6, <2>1
<1>14. ASSUME NEW c \in {"server", "client"}, LookCert(w, c) PROVE Result
  <2>1. StepOf(w) = c /\ (Does(w, "create") \/ Does(w, "delete") \/ GoesOn(w, pass[w]))
    BY <1>14 DEF LookCert, Looks
  <2>2. QED
    BY <1>4, <1>6, <2>1
<1>15. ASSUME NEW o \in Thing, LookThing(w, o) PROVE Result
  <2>1. StepOf(w) = o /\ (Does(w, "create") \/ Updates(w, o) \/ GoesOn(w, pass[w]))
    BY <1>15 DEF LookThing, Looks
  <2>2. QED
    BY <1>4, <1>5, <1>6, <2>1
<1>16. Result
  BY <1>7, <1>8, <1>9, <1>10, <1>11, <1>12, <1>13, <1>14, <1>15 DEF Look
<1>17. QED
  BY <1>16 DEF Result

(* A call that is accepted changes its object, and a certificate it makes  *)
(* is signed by the CA of the pass.                                        *)
LEMMA Effects ==
    ASSUME NoneApart, Shaped, NEW w \in Worker, Calls(w), Accepted(w), Effect(w)
    PROVE  /\ DOMAIN live' = Object
           /\ unseen' = unseen \cup {Target(w)}
           /\ \A o \in Object : o # Target(w) => live'[o] = live[o]
           /\ live'["app"] = None \/ DOMAIN live'["app"] = AppFields
           /\ \A c \in Certs : live'[c] \in {live[c], pass[w].ca, None}
           /\ StepOf(w) = "ca" => CA(live') = NewKey(w)
<1> DEFINE step == StepOf(w)
           target == Target(w)
           value == CASE pass[w].does \in {"create", "update"} -> NewValue(w)
                      [] pass[w].does = "delete" -> None
                      [] OTHER -> Written(w)
<1>1. /\ live' = [live EXCEPT ![target] = value]
      /\ unseen' = unseen \cup {target}
  BY DEF Effect
<1>2. /\ pass[w].does \in {"create", "update", "delete", "write", "clear"}
      /\ pass[w].does = "create" => step \in {"admin", "app", "server", "client", "desktop"} \cup Thing
      /\ pass[w].does = "update" => step \in Thing
      /\ pass[w].does = "delete" => step \in {"admin", "server", "client", "service"}
      /\ pass[w].does \in {"write", "clear"} => step \in Key \cup {"ca"}
  BY DEF Calls, Shaped, DoneAt
<1>3. /\ step = "desktop" => target \in Session \cup {None}
      /\ step \in Key \cup {"ca"} => target = "app"
      /\ step \notin Key \cup {"ca", "desktop"} => target = step
  BY DEF Target, Calls, Shaped, Key
<1>4. "app" \in Object /\ "app" \notin Session
  BY Names DEF Certs
<1>5. step \in Thing => step \notin Key \cup {"ca", "desktop", "app", "admin", "server", "client"}
  BY ClusterAssumption DEF Secret
<1> HIDE DEF step, target, value
<1>6. CASE step \in Key \cup {"ca"}
  <2>1. pass[w].does \in {"write", "clear"} /\ target = "app"
    BY <1>2, <1>3, <1>5, <1>6 DEF Key
  <2>2. value = Written(w) /\ "app" \notin unseen /\ live["app"] # None
    BY <2>1 DEF value, Accepted
  <2>3. DOMAIN cached["app"] = AppFields
    BY <1>4, <2>2 DEF Shaped
  <2>4. DOMAIN Written(w) = AppFields /\ Written(w)[step] = NewKey(w)
    BY <1>6, <2>3 DEF Written, AppFields, Key, step
  <2>5. live'["app"] = Written(w)
    BY <1>1, <1>4, <2>1, <2>2 DEF Shaped
  <2>6. step = "ca" => CA(live') = NewKey(w)
    <3>1. live'["app"] # None
      BY <2>4, <2>5 DEF NoneApart
    <3>2. QED
      BY <2>4, <2>5, <3>1 DEF CA
  <2>7. QED
    BY <1>1, <1>4, <2>1, <2>4, <2>5, <2>6, Names DEF Shaped, step, target
<1>7. CASE step \in {"server", "client", "desktop"}
  <2>1. value \in {pass[w].ca, None} /\ target # "app"
    <3>1. pass[w].does \in {"create", "delete"}
      BY <1>2, <1>5, <1>7 DEF Key
    <3>2. pass[w].does = "create" => value = pass[w].ca
      BY <1>7 DEF value, NewValue, step
    <3>3. pass[w].does = "delete" => value = None
      BY DEF value
    <3>4. target # "app"
      BY <1>3, <1>4, <1>7, ClusterAssumption DEF Key
    <3>5. QED
      BY <3>1, <3>2, <3>3, <3>4
  <2>2. QED
    BY <1>1, <1>4, <1>7, <2>1, Names DEF Shaped, step, target
<1>8. CASE step \notin Key \cup {"ca", "server", "client", "desktop"}
  <2>1. target = step /\ target \in {"admin", "app"} \cup Thing /\ target \notin Certs
    <3>1. "service" \in Thing
      BY DEF Thing
    <3>2. step \in {"admin", "app"} \cup Thing
      BY <1>2, <1>8, <3>1
    <3>3. QED
      BY <1>3, <1>8, <3>2, Names
  <2>2. target = "app" => value = [jwt |-> None, passwd |-> None, ca |-> None]
    <3>1. target = "app" => pass[w].does = "create"
      BY <1>2, <1>5, <2>1 DEF Key
    <3>2. QED
      BY <2>1, <3>1 DEF value, NewValue, step
  <2>3. live'["app"] = live["app"] \/ DOMAIN live'["app"] = AppFields
    BY <1>1, <1>4, <2>2 DEF Shaped, AppFields
  <2>4. QED
    BY <1>1, <1>8, <2>1, <2>3, Names DEF Shaped, step, target
<1>9. QED
  BY <1>6, <1>7, <1>8

(* A CA that somebody still holds when it goes is remembered.              *)
LEMMA Remembered ==
    ASSUME LosesCA, NEW ca, Stored(ca, live, lost) \/ ca = CA(live'),
           ca \in {live'[c] : c \in Certs} \cup {CA(cached)} \cup CAsInHand(pass')
    PROVE  Stored(ca, live', lost')
BY Names DEF LosesCA, Stored, CA, CAsInHand

(* Whatever a worker does, it holds no CA but one it has read or stored.   *)
LEMMA SignedStep == NoneApart /\ SignedInv /\ [Next]_vars => SignedInv'
<1> SUFFICES ASSUME NoneApart, SignedInv, [Next]_vars PROVE Shaped' /\ HeldIsStored'
  BY DEF SignedInv
<1> USE DEF SignedInv
<1>0. \A o \in {"admin", "replicas", "deployment", "service", "cluster"} : o \in Object
  BY DEF Object, Secret, Thing
<1>1. ASSUME UNCHANGED <<live, cached, unseen, lost>>,
             NEW w \in Worker, NEW q, pass' = [pass EXCEPT ![w] = q],
             q = Idle \/ (pass[w] # Idle /\ Fit(q, w) /\ q.ca \in {pass[w].ca, CA(cached)})
      PROVE  Shaped' /\ HeldIsStored'
  <2>1. pass'[w] = q /\ \A v \in Worker : v # w => pass'[v] = pass[v]
    BY <1>1 DEF Shaped
  <2>2. \A v \in Worker : pass'[v] = pass[v] => StepOf(v)' = StepOf(v)
    BY DEF StepOf
  <2>3. Fit(q, w) /\ q.does # "look" => StepOf(w)' = StepOf(w)
    BY <2>1 DEF StepOf, Fit
  <2>4. Shaped'
    BY <1>1, <2>1, <2>2, <2>3 DEF Shaped, Fit
  <2>5. HeldIsStored'
    BY <1>1, <2>1 DEF HeldIsStored, Stored, CA
  <2>6. QED
    BY <2>4, <2>5
<1>2. ASSUME LosesCA, UNCHANGED cached, DOMAIN pass' = Worker,
             \A v \in Worker : pass'[v] = Idle \/ pass'[v] = pass[v],
             DOMAIN live' = Object, live'["app"] = None \/ DOMAIN live'["app"] = AppFields,
             \A o \in Object \ unseen' : o \notin unseen /\ live'[o] = live[o],
             \A c \in Certs : Stored(live'[c], live, lost)
      PROVE  Shaped' /\ HeldIsStored'
  <2>1. \A v \in Worker : pass'[v] = pass[v] => StepOf(v)' = StepOf(v)
    BY DEF StepOf
  <2>2. Shaped'
    BY <1>2, <2>1 DEF Shaped
  <2>3. ASSUME NEW c \in Certs PROVE Stored(live'[c], live', lost')
    BY <1>2, Remembered
  <2>4. Stored(CA(cached), live', lost')
    BY <1>2, Remembered DEF HeldIsStored
  <2>5. ASSUME NEW v \in Worker, pass'[v] # Idle PROVE Stored(pass'[v].ca, live', lost')
    <3>1. pass'[v] = pass[v] /\ Stored(pass'[v].ca, live, lost)
      BY <1>2, <2>5 DEF HeldIsStored
    <3>2. pass'[v].ca \in CAsInHand(pass')
      BY <2>5, <3>1 DEF CAsInHand
    <3>3. QED
      BY <1>2, <3>1, <3>2, Remembered
  <2>6. QED
    BY <1>2, <2>2, <2>3, <2>4, <2>5 DEF HeldIsStored
<1>3. CASE Begin
  <2> DEFINE q == NewPass(None)
  <2>1. DOMAIN q = PassFields /\ q.session = None /\ q.does = "look" /\ q.ca = None
    BY DEF NewPass, PassFields
  <2> HIDE DEF q
  <2>2. pass' = [pass EXCEPT !["cluster"] = q] /\ UNCHANGED <<live, cached, unseen, lost>>
    BY <1>3 DEF Begin, History, q
  <2>3. QED
    BY <2>1, <2>2, Names DEF Shaped, HeldIsStored, Worker, Stored, StepOf
<1>4. ASSUME NEW s \in Session, BeginSession(s) PROVE Shaped' /\ HeldIsStored'
  <2> DEFINE q == NewPass(s)
  <2>1. DOMAIN q = PassFields /\ q.session = s /\ q.does = "look" /\ q.ca = None
    BY DEF NewPass, PassFields
  <2> HIDE DEF q
  <2>2. pass' = [pass EXCEPT !["sessions"] = q] /\ UNCHANGED <<live, cached, unseen, lost>>
    BY <1>4 DEF BeginSession, History, q
  <2>3. QED
    BY <2>1, <2>2, Names DEF Shaped, HeldIsStored, Worker, Stored, StepOf
<1>5. ASSUME NEW w \in Worker, Look(w) PROVE Shaped' /\ HeldIsStored'
  <2>1. pass[w] # Idle
    BY <1>5 DEF Look, Looks, LookAdmin, LookApp, LookCA, LookDesktop, LookDeployment, LookService,
           LookKey, LookCert, LookThing
  <2>2. \E q : /\ pass' = [pass EXCEPT ![w] = q]
               /\ q = Idle \/ (Fit(q, w) /\ q.ca \in {pass[w].ca, CA(cached)})
    BY <1>5, Looking
  <2>3. UNCHANGED <<live, cached, unseen, lost>>
    BY <1>5 DEF Look, History
  <2>4. QED
    BY <1>1, <2>1, <2>2, <2>3
<1>6. ASSUME NEW w \in Worker, Call(w) PROVE Shaped' /\ HeldIsStored'
  <2>1. /\ Calls(w) /\ Accepted(w) /\ Effect(w) /\ LosesCA /\ UNCHANGED cached
        /\ Requeue(w) \/ GoesOn(w, Learnt(w))
    BY <1>6 DEF Call
  <2>2. /\ DOMAIN live' = Object
        /\ unseen' = unseen \cup {Target(w)}
        /\ \A o \in Object : o # Target(w) => live'[o] = live[o]
        /\ live'["app"] = None \/ DOMAIN live'["app"] = AppFields
        /\ \A c \in Certs : live'[c] \in {live[c], pass[w].ca, None}
        /\ StepOf(w) = "ca" => CA(live') = NewKey(w)
    BY <2>1, Effects
  <2>3. pass[w] # Idle /\ DOMAIN pass[w] = PassFields /\ pass[w].does # "look"
    BY <2>1 DEF Calls, Shaped
  <2>4. Fit(Learnt(w), w) /\ Learnt(w).ca = IF StepOf(w) = "ca" THEN NewKey(w) ELSE pass[w].ca
    BY <2>3 DEF Learnt, Fit, PassFields, Shaped
  <2>5. PICK q : /\ pass' = [pass EXCEPT ![w] = q]
                 /\ q = Idle \/ (Fit(q, w) /\ q.does = "look" /\ q.ca = Learnt(w).ca)
    BY <2>1, <2>3, <2>4, Going DEF Requeue
  <2>6. pass'[w] = q /\ DOMAIN pass' = Worker /\ \A v \in Worker : v # w => pass'[v] = pass[v]
    BY <2>5 DEF Shaped
  <2>7. \A v \in Worker : pass'[v] = pass[v] => StepOf(v)' = StepOf(v)
    BY DEF StepOf
  <2>8. Shaped'
    <3>1. \A o \in Object \ unseen' : cached'[o] = live'[o]
      BY <2>1, <2>2 DEF Shaped
    <3>2. \A v \in Worker : pass'[v] # Idle =>
            /\ DOMAIN pass'[v] = PassFields
            /\ pass'[v].session \in Session \cup {None}
            /\ pass'[v].does # "look" =>
                 pass'[v].does \in DOMAIN DoneAt /\ StepOf(v)' \in DoneAt[pass'[v].does]
      BY <2>3, <2>5, <2>6, <2>7 DEF Shaped, Fit
    <3>3. QED
      BY <2>1, <2>2, <2>6, <3>1, <3>2 DEF Shaped
  <2>9. ASSUME NEW c \in Certs PROVE Stored(live'[c], live', lost')
    <3>1. Stored(live'[c], live, lost)
      BY <2>2, <2>3, Names DEF HeldIsStored, Stored
    <3>2. QED
      BY <2>1, <3>1, Remembered
  <2>10. Stored(CA(cached), live', lost')
    BY <2>1, Remembered DEF HeldIsStored
  <2>11. ASSUME NEW v \in Worker, pass'[v] # Idle PROVE Stored(pass'[v].ca, live', lost')
    <3>1. pass'[v].ca \in CAsInHand(pass')
      BY <2>11 DEF CAsInHand
    <3>2. CASE v = w /\ StepOf(w) = "ca"
      BY <2>2, <2>4, <2>5, <2>6, <2>11, <3>2 DEF Stored
    <3>3. CASE ~(v = w /\ StepOf(w) = "ca")
      <4>1. Stored(pass'[v].ca, live, lost)
        BY <2>3, <2>4, <2>5, <2>6, <2>11, <3>3 DEF HeldIsStored
      <4>2. QED
        BY <2>1, <3>1, <4>1, Remembered
    <3>4. QED
      BY <3>2, <3>3
  <2>12. QED
    BY <2>1, <2>8, <2>9, <2>10, <2>11 DEF HeldIsStored
<1>7. ASSUME NEW w \in Worker, Refused(w) PROVE Shaped' /\ HeldIsStored'
  BY <1>1, <1>7 DEF Refused, Requeue, History
<1>8. ASSUME NEW w \in Worker, Fails(w) PROVE Shaped' /\ HeldIsStored'
  <2>1. Calls(w) /\ Requeue(w) /\ LosesCA /\ UNCHANGED cached
    BY <1>8 DEF Fails
  <2>2. DOMAIN pass' = Worker /\ \A v \in Worker : pass'[v] = Idle \/ pass'[v] = pass[v]
    BY <2>1 DEF Requeue, Shaped
  <2>3. CASE UNCHANGED <<live, unseen>>
    BY <1>2, <2>1, <2>2, <2>3 DEF Shaped, HeldIsStored
  <2>4. CASE Accepted(w) /\ Effect(w)
    <3>1. /\ DOMAIN live' = Object
          /\ unseen' = unseen \cup {Target(w)}
          /\ \A o \in Object : o # Target(w) => live'[o] = live[o]
          /\ live'["app"] = None \/ DOMAIN live'["app"] = AppFields
          /\ \A c \in Certs : live'[c] \in {live[c], pass[w].ca, None}
      BY <2>1, <2>4, Effects
    <3>2. \A c \in Certs : Stored(live'[c], live, lost)
      BY <2>1, <3>1, Names DEF HeldIsStored, Stored, Calls
    <3>3. QED
      BY <1>2, <2>1, <2>2, <3>1, <3>2
  <2>5. QED
    BY <1>8, <2>3, <2>4 DEF Fails
<1>9. CASE Crash
  <2>1. /\ cached' = live /\ unseen' = {} /\ UNCHANGED <<live, lost>>
        /\ pass' = [w \in Worker |-> Idle]
    BY <1>9 DEF Crash, History
  <2>2. QED
    BY <2>1 DEF Shaped, HeldIsStored, Stored, CA
<1>10. ASSUME NEW kind \in Kinds, CatchUp(kind) PROVE Shaped' /\ HeldIsStored'
  <2>1. /\ cached' = [o \in Object |-> IF o \in unseen \cap kind THEN live[o] ELSE cached[o]]
        /\ unseen' = unseen \ (unseen \cap kind)
        /\ UNCHANGED <<live, pass, lost>>
    BY <1>10 DEF CatchUp, History
  <2>2. CA(cached') \in {CA(cached), CA(live)}
    BY <2>1, Names DEF CA
  <2>3. QED
    BY <2>1, <2>2, Names DEF Shaped, HeldIsStored, Stored, StepOf
<1>11. ASSUME NEW o \in {"replicas", "cluster"}, NEW value, live' = [live EXCEPT ![o] = value],
              unseen' = unseen \cup {o}, UNCHANGED <<cached, pass, lost>>
       PROVE  Shaped' /\ HeldIsStored'
  <2>1. o \in Object /\ o # "app" /\ o \notin Certs
    BY <1>11, Names DEF Object
  <2>2. CA(live') = CA(live) /\ \A c \in Certs : live'[c] = live[c]
    BY <1>11, <2>1 DEF CA
  <2>3. CA(cached') = CA(cached) /\ \A v \in Worker : StepOf(v)' = StepOf(v)
    BY <1>11 DEF StepOf, CA
  <2>0. cached' = cached /\ pass' = pass /\ lost' = lost
    BY <1>11
  <2>4. Shaped'
    <3>1. DOMAIN live' = Object /\ live'["app"] = live["app"]
      BY <1>11, <2>1 DEF Shaped
    <3>2. \A x \in Object \ unseen' : cached[x] = live'[x]
      BY <1>11, <2>1 DEF Shaped
    <3>3. QED
      BY <2>0, <2>3, <3>1, <3>2 DEF Shaped
  <2>5. HeldIsStored'
    BY <2>0, <2>2, <2>3 DEF HeldIsStored, Stored
  <2>6. QED
    BY <2>4, <2>5
<1>12. ASSUME NEW o \in Secret \cup Thing, NEW value, ByHand(o, value),
              o = "app" => value = None \/ DOMAIN value = AppFields,
              o \in Certs => value \notin Number
       PROVE  Shaped' /\ HeldIsStored'
  <2>1. /\ live' = [live EXCEPT ![o] = value, !["replicas"] = IF o = "deployment" THEN 0 ELSE @]
        /\ unseen' = unseen \cup {o} \cup (IF o = "deployment" THEN {"replicas"} ELSE {})
        /\ UNCHANGED <<cached, pass>> /\ LosesCA
    BY <1>12 DEF ByHand
  <2>2. "replicas" \notin Secret \cup Thing \cup Certs
    BY ClusterAssumption DEF Secret, Certs
  <2>3. /\ DOMAIN live' = Object /\ live'[o] = value
        /\ \A x \in Object : x # o /\ x # "replicas" => live'[x] = live[x]
        /\ o # "deployment" => live'["replicas"] = live["replicas"]
    BY <2>1, <2>2 DEF Shaped, Object
  <2>4. live'["app"] = None \/ DOMAIN live'["app"] = AppFields
    BY <1>12, <2>3, Names DEF Shaped
  <2>5. \A x \in Object \ unseen' : x \notin unseen /\ live'[x] = live[x]
    BY <2>1, <2>3
  <2>6. \A c \in Certs : Stored(live'[c], live, lost)
    BY <1>12, <2>2, <2>3, Names DEF HeldIsStored, Stored
  <2>7. QED
    BY <1>2, <2>1, <2>3, <2>4, <2>5, <2>6 DEF Shaped
<1>13. CASE Others
  <2>1. CASE ChangeCluster
    BY <1>11, <2>1 DEF ChangeCluster, History
  <2>2. CASE DamageCA
    <3>1. DOMAIN [live["app"] EXCEPT !.ca = Bad] = AppFields
      BY <2>2 DEF DamageCA, Shaped
    <3>2. QED
      BY <1>12, <2>2, <3>1, Names DEF DamageCA, Secret
  <2>3. CASE AppWrites
    BY <2>3 DEF AppWrites, History, Shaped, HeldIsStored, Stored, CA, StepOf
  <2>4. ASSUME NEW o \in Secret \cup Thing, Remove(o) PROVE Shaped' /\ HeldIsStored'
    BY <1>12, <2>4, Names DEF Remove
  <2>5. ASSUME NEW o \in {"admin", "server", "client"}, Damage(o) PROVE Shaped' /\ HeldIsStored'
    BY <1>12, <2>5, Names DEF Damage, Secret
  <2>6. QED
    BY <1>13, <2>1, <2>2, <2>3, <2>4, <2>5 DEF Others
<1>14. CASE BecomesReady
  BY <1>11, <1>14 DEF BecomesReady, History
<1>15. CASE UNCHANGED vars
  BY <1>15 DEF vars, History, Shaped, HeldIsStored, Stored, CA, StepOf
<1>16. QED
  BY <1>3, <1>4, <1>5, <1>6, <1>7, <1>8, <1>9, <1>10, <1>13, <1>14, <1>15 DEF Next, Goes

(* The inductive invariant: objects and passes are shaped as they should   *)
(* be, and nobody holds a CA that was not stored.                          *)
THEOREM SignedInvariant == NoneApart => (Spec => []SignedInv)
<1> SUFFICES ASSUME NoneApart PROVE Spec => []SignedInv
  OBVIOUS
<1>1. Init => SignedInv
  BY Names DEF Init, SignedInv, Shaped, HeldIsStored, Stored, CA, Object, Certs
<1>2. SignedInv /\ [Next]_vars => SignedInv'
  BY SignedStep
<1>3. QED
  BY <1>1, <1>2, PTL DEF Spec

(* However the passes of the cluster and of sessions meet over the CA, and *)
(* whatever fails or is changed by others, each certificate is signed by   *)
(* the CA there is, or by one that was there.                              *)
THEOREM CertsSignedByStored == NoneApart => (Spec => []SignedByStored)
<1> SUFFICES ASSUME NoneApart PROVE Spec => []SignedByStored
  OBVIOUS
<1>1. SignedInv => SignedByStored
  BY DEF SignedInv, HeldIsStored, Stored, SignedByStored
<1>2. QED
  BY <1>1, SignedInvariant, PTL

-----------------------------------------------------------------------------
(* The places of the steps of a pass over the cluster.                     *)
PasswdStep == Len(Roles) + 4
CAStep == Len(Roles) + Len(Rbac) + 5

Named(i) ==
    /\ i = 1 <=> ClusterSteps[i] = "admin"
    /\ i = 3 <=> ClusterSteps[i] = "jwt"
    /\ i = PasswdStep <=> ClusterSteps[i] = "passwd"
    /\ i = CAStep <=> ClusterSteps[i] = "ca"
    /\ ClusterSteps[i] \in {"server", "client", "deployment"} => i > CAStep

(* Two sequences one after the other.                                      *)
LEMMA Joined ==
    ASSUME NEW U, NEW s \in Seq(U), NEW t \in Seq(U), NEW st, st = s \o t
    PROVE  /\ st \in Seq(U) /\ Len(st) = Len(s) + Len(t)
           /\ \A i \in 1..(Len(s) + Len(t)) : st[i] = IF i <= Len(s) THEN s[i] ELSE t[i - Len(s)]
OBVIOUS

(* Which step is where: the steps that come first and last, and between    *)
(* them the objects, with the passwd file in their middle.                 *)
FirstSteps == <<"admin", "app", "jwt">>
LastSteps == <<"ca", "server", "client", "deployment", "service">>

Laid(i) ==
    ClusterSteps[i] = IF i <= 3 THEN FirstSteps[i]
                      ELSE IF i <= 3 + Len(Roles) THEN Roles[i - 3]
                      ELSE IF i = PasswdStep THEN "passwd"
                      ELSE IF i < CAStep THEN Rbac[i - PasswdStep]
                      ELSE LastSteps[i - (PasswdStep + Len(Rbac))]

LEMMA Layout ==
    /\ Len(Roles) \in Nat /\ Len(Rbac) \in Nat /\ Len(ClusterSteps) = Len(Roles) + Len(Rbac) + 9
    /\ Roles \in Seq(Thing \ {"deployment", "service"}) /\ Rbac \in Seq(Thing \ {"deployment", "service"})
    /\ \A i \in 1..Len(ClusterSteps) : Laid(i)
<1> DEFINE R == Thing \ {"deployment", "service"}
           U == R \cup {"admin", "app", "jwt", "passwd", "ca", "server", "client", "deployment", "service"}
<1>2. Roles \in Seq(R) /\ Rbac \in Seq(R)
  BY ClusterAssumption
<1> HIDE DEF R
<1>3. Len(Roles) \in Nat /\ Len(Rbac) \in Nat
  BY <1>2
<1>4. /\ Roles \in Seq(U) /\ Rbac \in Seq(U) /\ <<"passwd">> \in Seq(U)
      /\ FirstSteps \in Seq(U) /\ LastSteps \in Seq(U)
  BY <1>2 DEF FirstSteps, LastSteps
<1>5. Len(FirstSteps) = 3 /\ Len(LastSteps) = 5
  BY DEF FirstSteps, LastSteps
<1> HIDE DEF U
<1> DEFINE b == FirstSteps \o Roles
           c == b \o <<"passwd">>
           d == c \o Rbac
           f == d \o LastSteps
<1>8. b = FirstSteps \o Roles /\ c = b \o <<"passwd">> /\ d = c \o Rbac /\ f = d \o LastSteps
  OBVIOUS
<1>9. ClusterSteps = f
  BY DEF ClusterSteps, FirstSteps, LastSteps
<1> HIDE DEF b, c, d, f
<1>10. /\ b \in Seq(U) /\ Len(b) = 3 + Len(Roles)
       /\ \A i \in 1..Len(b) : b[i] = IF i <= 3 THEN FirstSteps[i] ELSE Roles[i - 3]
  <2>1. /\ b \in Seq(U) /\ Len(b) = Len(FirstSteps) + Len(Roles)
        /\ \A i \in 1..(Len(FirstSteps) + Len(Roles)) :
             b[i] = IF i <= Len(FirstSteps) THEN FirstSteps[i] ELSE Roles[i - Len(FirstSteps)]
    BY <1>4, <1>8, Joined
  <2>2. QED
    BY <1>3, <1>5, <2>1
<1>11. /\ c \in Seq(U) /\ Len(c) = 4 + Len(Roles)
       /\ \A i \in 1..Len(c) : c[i] = IF i <= 3 + Len(Roles) THEN b[i] ELSE "passwd"
  <2>1. /\ c \in Seq(U) /\ Len(c) = Len(b) + 1
        /\ \A i \in 1..(Len(b) + 1) : c[i] = IF i <= Len(b) THEN b[i] ELSE <<"passwd">>[i - Len(b)]
    BY <1>4, <1>8, <1>10, Joined
  <2>2. QED
    BY <1>3, <1>10, <2>1
<1>12. /\ d \in Seq(U) /\ Len(d) = 4 + Len(Roles) + Len(Rbac)
       /\ \A i \in 1..Len(d) : d[i] = IF i <= 4 + Len(Roles) THEN c[i] ELSE Rbac[i - (4 + Len(Roles))]
  <2>1. /\ d \in Seq(U) /\ Len(d) = Len(c) + Len(Rbac)
        /\ \A i \in 1..(Len(c) + Len(Rbac)) : d[i] = IF i <= Len(c) THEN c[i] ELSE Rbac[i - Len(c)]
    BY <1>4, <1>8, <1>11, Joined
  <2>2. QED
    BY <1>3, <1>11, <2>1
<1>13. /\ Len(f) = 9 + Len(Roles) + Len(Rbac)
       /\ \A i \in 1..Len(f) :
            f[i] = IF i <= 4 + Len(Roles) + Len(Rbac) THEN d[i] ELSE LastSteps[i - (4 + Len(Roles) + Len(Rbac))]
  <2>1. /\ f \in Seq(U) /\ Len(f) = Len(d) + Len(LastSteps)
        /\ \A i \in 1..(Len(d) + Len(LastSteps)) : f[i] = IF i <= Len(d) THEN d[i] ELSE LastSteps[i - Len(d)]
    BY <1>4, <1>8, <1>12, Joined
  <2>2. QED
    BY <1>3, <1>5, <1>12, <2>1
<1>14. ASSUME NEW i \in 1..Len(f) PROVE Laid(i)
  <2>1. i \in Nat /\ i >= 1 /\ i <= Len(Roles) + Len(Rbac) + 9
    BY <1>3, <1>13
  <2>2. CASE i <= 3 + Len(Roles)
    <3>1. f[i] = b[i] /\ b[i] = IF i <= 3 THEN FirstSteps[i] ELSE Roles[i - 3]
      BY <1>3, <1>10, <1>11, <1>12, <1>13, <2>1, <2>2
    <3>2. QED
      BY <1>3, <1>9, <2>1, <2>2, <3>1 DEF Laid
  <2>3. CASE i = 4 + Len(Roles)
    <3>1. f[i] = "passwd"
      BY <1>3, <1>11, <1>12, <1>13, <2>1, <2>3
    <3>2. QED
      BY <1>3, <1>9, <2>1, <2>3, <3>1 DEF Laid, PasswdStep
  <2>4. CASE i > 4 + Len(Roles) /\ i <= 4 + Len(Roles) + Len(Rbac)
    <3>1. f[i] = Rbac[i - (4 + Len(Roles))]
      BY <1>3, <1>12, <1>13, <2>1, <2>4
    <3>2. QED
      BY <1>3, <1>9, <2>1, <2>4, <3>1 DEF Laid, PasswdStep, CAStep
  <2>5. CASE i > 4 + Len(Roles) + Len(Rbac)
    <3>1. f[i] = LastSteps[i - (4 + Len(Roles) + Len(Rbac))]
      BY <1>3, <1>13, <2>1, <2>5
    <3>2. PasswdStep + Len(Rbac) = 4 + Len(Roles) + Len(Rbac) /\ CAStep = 5 + Len(Roles) + Len(Rbac)
      BY <1>3 DEF PasswdStep, CAStep
    <3>3. QED
      BY <1>3, <1>9, <2>1, <2>5, <3>1, <3>2 DEF Laid
  <2>6. QED
    BY <1>3, <2>1, <2>2, <2>3, <2>4, <2>5
<1>15. QED
  BY <1>2, <1>3, <1>9, <1>13, <1>14 DEF R

(* The steps that the proofs speak of are at these places and no other.    *)
LEMMA StepNames ==
    /\ Len(Roles) \in Nat /\ Len(Rbac) \in Nat /\ Len(ClusterSteps) \in Nat
    /\ \A i \in 1..Len(ClusterSteps) : Named(i)
<1> DEFINE R == Thing \ {"deployment", "service"}
           five == {"ca", "server", "client", "deployment", "service"}
<1>1. R \cap ({"admin", "app", "jwt", "passwd"} \cup five) = {}
  BY ClusterAssumption DEF Key, Secret
<1>2. /\ Roles \in Seq(R) /\ Rbac \in Seq(R) /\ Len(Roles) \in Nat /\ Len(Rbac) \in Nat
      /\ Len(ClusterSteps) = Len(Roles) + Len(Rbac) + 9
  BY Layout
<1> HIDE DEF R
<1>3. FirstSteps[1] = "admin" /\ FirstSteps[2] = "app" /\ FirstSteps[3] = "jwt"
  BY DEF FirstSteps
<1>4. \A i \in 1..5 : LastSteps[i] \in five /\ (LastSteps[i] = "ca" <=> i = 1)
  BY DEF LastSteps
<1>5. ASSUME NEW i \in 1..Len(ClusterSteps) PROVE Named(i)
  <2>1. i \in Nat /\ i >= 1 /\ i <= Len(Roles) + Len(Rbac) + 9 /\ Laid(i)
    BY <1>2, Layout
  <2>2. CASE i <= 3
    BY <1>2, <1>3, <2>1, <2>2 DEF Named, Laid, PasswdStep, CAStep
  <2>3. CASE i > 3 /\ i <= 3 + Len(Roles)
    <3>1. ClusterSteps[i] = Roles[i - 3]
      BY <1>2, <2>1, <2>3 DEF Laid
    <3>2. ClusterSteps[i] \in R
      BY <1>2, <2>1, <2>3, <3>1
    <3>3. QED
      BY <1>1, <1>2, <2>1, <2>3, <3>2 DEF Named, PasswdStep, CAStep
  <2>4. CASE i = PasswdStep
    BY <1>2, <2>1, <2>4 DEF Named, Laid, PasswdStep, CAStep
  <2>5. CASE i > PasswdStep /\ i < CAStep
    <3>1. ClusterSteps[i] = Rbac[i - PasswdStep]
      BY <1>2, <2>1, <2>5 DEF Laid, PasswdStep, CAStep
    <3>2. ClusterSteps[i] \in R
      BY <1>2, <2>1, <2>5, <3>1 DEF PasswdStep, CAStep
    <3>3. QED
      BY <1>1, <1>2, <2>1, <2>5, <3>2 DEF Named, PasswdStep, CAStep
  <2>6. CASE i >= CAStep
    <3>1. PICK j \in 1..5 : j = i - (PasswdStep + Len(Rbac))
      BY SMTT(30), <1>2, <2>1, <2>6 DEF PasswdStep, CAStep
    <3>2. ClusterSteps[i] = LastSteps[j]
      BY <1>2, <2>1, <2>6, <3>1 DEF Laid, PasswdStep, CAStep
    <3>3. ClusterSteps[i] \in five /\ (ClusterSteps[i] = "ca" <=> j = 1)
      BY <1>4, <3>2
    <3>4. QED
      BY <1>2, <2>1, <2>6, <3>1, <3>3 DEF Named, PasswdStep, CAStep
  <2>7. QED
    BY <1>2, <2>1, <2>2, <2>3, <2>4, <2>5, <2>6 DEF PasswdStep, CAStep
<1>6. QED
  BY <1>2, <1>5

Has(objects, k) == objects["app"] # None /\ objects["app"][k] # None
HasKeys(objects) == \A k \in Key : Has(objects, k)

Placed == \A w \in Worker : pass[w] # Idle => pass[w].step \in 1..Len(StepsOf(w))

(* A pass that has looked goes on to its next step with what it has seen,  *)
(* or is going to make a call.                                             *)
GoneOn(q, w) ==
    /\ q.step = pass[w].step + 1 /\ pass[w].step # Len(StepsOf(w)) /\ q.does = "look"
    /\ q.password = IF StepOf(w) = "admin" THEN cached["admin"] ELSE pass[w].password
    /\ StepOf(w) = "admin" => cached["admin"] \notin {None, Bad}
    /\ StepOf(w) \in Key \cup {"ca"} => Has(cached, StepOf(w))

Planned(q, w) ==
    /\ q.step = pass[w].step /\ q.password = pass[w].password
    /\ StepOf(w) = "admin" /\ q.does = "delete" => cached["admin"] = Bad
    /\ StepOf(w) \in Key => ~Has(cached, StepOf(w))

(* What a pass makes of itself when it looks.                              *)
LEMMA Planning ==
    ASSUME Shaped, NEW w \in Worker, Look(w)
    PROVE  \E q : /\ pass' = [pass EXCEPT ![w] = q]
                  /\ q = Idle \/ GoneOn(q, w) \/ Planned(q, w)
<1> DEFINE Result == \E q : /\ pass' = [pass EXCEPT ![w] = q]
                            /\ q = Idle \/ GoneOn(q, w) \/ Planned(q, w)
<1>0. pass[w] # Idle /\ DOMAIN pass[w] = PassFields
  BY DEF Look, Looks, LookAdmin, LookApp, LookCA, LookDesktop, LookDeployment, LookService,
         LookKey, LookCert, LookThing, Shaped
<1>1. ASSUME NEW p, DOMAIN p = PassFields, p.step = pass[w].step, GoesOn(w, p),
             p.password = IF StepOf(w) = "admin" THEN cached["admin"] ELSE pass[w].password,
             StepOf(w) = "admin" => cached["admin"] \notin {None, Bad},
             StepOf(w) \in Key \cup {"ca"} => Has(cached, StepOf(w))
      PROVE  Result
  <2> DEFINE q == [p EXCEPT !.step = @ + 1, !.does = "look", !.seen = None]
  <2>1. q.step = p.step + 1 /\ q.does = "look" /\ q.password = p.password
    BY <1>1 DEF PassFields
  <2> HIDE DEF q
  <2>2. pass' = [pass EXCEPT ![w] = IF p.step = Len(StepsOf(w)) THEN Idle ELSE q]
    BY <1>1 DEF GoesOn, Then, q
  <2>3. p.step # Len(StepsOf(w)) => GoneOn(q, w)
    BY <1>1, <2>1 DEF GoneOn
  <2>4. QED
    BY <2>2, <2>3
<1>2. ASSUME NEW d, Does(w, d), d = "delete" => (StepOf(w) = "admin" => cached["admin"] = Bad),
             StepOf(w) \in Key => ~Has(cached, StepOf(w))
      PROVE  Result
  <2>1. Planned([pass[w] EXCEPT !.does = d], w)
    BY <1>0, <1>2 DEF Planned, PassFields
  <2>2. QED
    BY <1>2, <2>1 DEF Does, Then
<1>3. ASSUME Requeue(w) PROVE Result
  BY <1>3 DEF Requeue
<1>4. ASSUME StepOf(w) \notin Key \cup {"ca", "admin"}, GoesOn(w, pass[w]) PROVE Result
  BY <1>0, <1>1, <1>4
<1>5. ASSUME StepOf(w) \notin Key \cup {"admin"}, NEW d, Does(w, d) PROVE Result
  BY <1>2, <1>5
<1>6. ASSUME StepOf(w) \notin Key \cup {"admin"}, NEW o, Updates(w, o) PROVE Result
  <2> DEFINE q == [pass[w] EXCEPT !.does = "update", !.seen = cached[o]]
  <2>1. Planned(q, w)
    BY <1>0, <1>6 DEF Planned, PassFields
  <2>2. QED
    BY <1>6, <2>1 DEF Updates, Then
<1> HIDE DEF Result
<1>7. ASSUME LookAdmin(w) PROVE Result
  <2>1. StepOf(w) = "admin" /\ "admin" \notin Key
    BY <1>7 DEF LookAdmin, Looks, Key
  <2>2. CASE cached["admin"] \in {None, Bad}
    BY <1>2, <1>7, <2>1, <2>2 DEF LookAdmin
  <2>3. CASE cached["admin"] \notin {None, Bad}
    <3> DEFINE p == [pass[w] EXCEPT !.password = cached["admin"]]
    <3>1. DOMAIN p = PassFields /\ p.step = pass[w].step /\ p.password = cached["admin"]
      BY <1>0 DEF PassFields
    <3>2. GoesOn(w, p)
      BY <1>7, <2>3 DEF LookAdmin
    <3>3. QED
      BY <1>1, <2>1, <2>3, <3>1, <3>2
  <2>4. QED
    BY <2>2, <2>3
<1>8. ASSUME LookCA(w) PROVE Result
  <2>1. StepOf(w) = "ca" /\ "ca" \notin Key
    BY <1>8 DEF LookCA, Looks, Key
  <2>2. CASE cached["app"] = None \/ CA(cached) \in {None, Bad}
    <3>1. Requeue(w) \/ Does(w, "write") \/ Does(w, "clear")
      BY <1>8, <2>2 DEF LookCA
    <3>2. QED
      BY <1>3, <1>5, <2>1, <3>1
  <2>3. CASE cached["app"] # None /\ CA(cached) \notin {None, Bad}
    <3> DEFINE p == [pass[w] EXCEPT !.ca = CA(cached)]
    <3>1. DOMAIN p = PassFields /\ p.step = pass[w].step /\ p.password = pass[w].password
      BY <1>0 DEF PassFields
    <3>2. GoesOn(w, p) /\ Has(cached, "ca")
      BY <1>8, <2>3 DEF LookCA, Has, CA
    <3>3. QED
      BY <1>1, <2>1, <3>1, <3>2
  <2>4. QED
    BY <2>2, <2>3
<1>9. ASSUME NEW k \in Key, LookKey(w, k) PROVE Result
  <2>1. StepOf(w) = k /\ k # "admin" /\ k # "ca"
    BY <1>9 DEF LookKey, Looks, Key
  <2>2. CASE cached["app"] = None
    BY <1>3, <1>9, <2>2 DEF LookKey
  <2>3. CASE cached["app"] # None /\ cached["app"][k] = None
    <3>1. Does(w, "write") /\ ~Has(cached, k)
      BY <1>9, <2>3 DEF LookKey, Has
    <3>2. QED
      BY <1>2, <2>1, <3>1
  <2>4. CASE cached["app"] # None /\ cached["app"][k] # None
    <3>1. GoesOn(w, pass[w]) /\ Has(cached, k)
      BY <1>9, <2>4 DEF LookKey, Has
    <3>2. QED
      BY <1>0, <1>1, <2>1, <3>1
  <2>5. QED
    BY <2>2, <2>3, <2>4
<1>10. ASSUME \/ LookApp(w) \/ LookDesktop(w) \/ LookDeployment(w) \/ LookService(w)
              \/ \E c \in {"server", "client"} : LookCert(w, c)
              \/ \E o \in Thing \ {"deployment", "service"} : LookThing(w, o)
       PROVE  Result
  <2>1. StepOf(w) \in {"app", "desktop", "server", "client"} \cup Thing
    BY <1>10 DEF LookApp, LookDesktop, LookDeployment, LookService, LookCert, LookThing, Looks, Thing
  <2>2. StepOf(w) \notin Key \cup {"ca", "admin"}
    BY <2>1, ClusterAssumption DEF Key, Secret
  <2>3. \/ \E d : Does(w, d)
        \/ \E o : Updates(w, o)
        \/ GoesOn(w, pass[w]) \/ Requeue(w)
    BY <1>10 DEF LookApp, LookDesktop, LookDeployment, LookService, LookCert, LookThing
  <2>4. QED
    BY <1>3, <1>4, <1>5, <1>6, <2>2, <2>3
<1>11. Result
  BY <1>7, <1>8, <1>9, <1>10 DEF Look
<1>12. QED
  BY <1>11 DEF Result

-----------------------------------------------------------------------------
(* Secrets drawn at random do not run out: there is one besides any four.  *)
Plenty == \A a, b, c, d : Number \ {a, b, c, d} # {}

(* A set of numbers that is not empty has a least one.                     *)
LEMMA Least ==
    ASSUME NEW T \in SUBSET Nat, T # {}
    PROVE  \E n \in T : \A m \in T : n <= m
<1> DEFINE R == OpToRel(<, Nat)
<1>1. IsWellFoundedOn(R, Nat)
  BY NatLessThanWellFounded
<1>2. \A n, m \in Nat : m < n => <<m, n>> \in R
  BY DEF OpToRel
<1> HIDE DEF R
<1>3. PICK n \in T : \A m \in T : ~ (<<m, n>> \in R)
  BY <1>1, WFMin
<1>4. \A m \in T : m \in Nat /\ n \in Nat /\ ~ (m < n)
  BY <1>2, <1>3
<1>5. \A m \in T : n <= m
  BY <1>4
<1>6. QED
  BY <1>5

(* A new password and a new key of tokens are numbers.                     *)
LEMMA Drawn ==
    ASSUME Plenty
    PROVE  New(PasswordsInUse) \in Number /\ New(KeysInUse("jwt")) \in Number
<1>1. ASSUME NEW used, NEW a, NEW b, NEW c, NEW d, used \subseteq {a, b, c, d}
      PROVE  New(used) \in Number
  <2>1. Number \ used # {} /\ Number \ used \in SUBSET Nat
    <3>1. Number \ {a, b, c, d} # {}
      BY ZenonT(30) DEF Plenty
    <3>2. QED
      BY <1>1, <3>1, ClusterAssumption
  <2>2. \E n \in Number \ used : \A m \in Number \ used : n <= m
    BY <2>1, Least
  <2>3. QED
    BY <2>2 DEF New
<1>2. \A k : KeysInUse(k) \subseteq {live["app"][k], cached["app"][k]}
  BY DEF KeysInUse
<1>3. PasswordsInUse \subseteq {live["app"]["passwd"], cached["app"]["passwd"], live["admin"], cached["admin"]}
  BY <1>2 DEF PasswordsInUse
<1>4. New(PasswordsInUse) \in Number
  BY <1>1, <1>3
<1>5. KeysInUse("jwt") \subseteq {live["app"]["jwt"], cached["app"]["jwt"], None, Bad}
  BY <1>2
<1>6. New(KeysInUse("jwt")) \in Number
  BY <1>1, <1>5
<1>7. QED
  BY <1>4, <1>6

-----------------------------------------------------------------------------
(* Unless others changed the secret of the administrator, it is not made   *)
(* anew once it is there, the passwd file has its password or none, and a  *)
(* pass that went past it has it.                                          *)
AdminLive ==
    "admin" \notin byHand =>
      /\ live["admin"] \in Number \cup {None}
      /\ cached["admin"] \in {None, live["admin"]}
      /\ Has(live, "passwd") => live["app"].passwd = live["admin"]

AdminPass(w) ==
    pass[w] # Idle /\ "admin" \notin byHand =>
      /\ ~ (StepOf(w) = "admin" /\ pass[w].does = "delete")
      /\ w = "cluster" /\ pass[w].step > 1 => live["admin"] # None /\ pass[w].password = live["admin"]

(* Unless others changed the secret of the app, it stays once it is there, *)
(* a key comes before the next, and a CA after both; the cache has both    *)
(* keys when the app runs.                                                 *)
KeysLive ==
    "app" \notin byHand =>
      /\ cached["app"] # None => live["app"] # None
      /\ \A k \in Key : Has(cached, k) => Has(live, k)
      /\ Has(live, "ca") => Has(live, "passwd")
      /\ Has(live, "passwd") => Has(live, "jwt")
      /\ Has(cached, "ca") => Has(cached, "passwd")
      /\ Has(cached, "passwd") => Has(cached, "jwt")
      /\ live["deployment"] # None => HasKeys(cached)

KeysPass(w) ==
    pass[w] # Idle =>
      /\ w = "cluster" /\ pass[w].step > 1 => pass[w].password # None
      /\ "app" \notin byHand =>
           /\ w = "sessions" => HasKeys(cached)
           /\ w = "cluster" =>
                /\ pass[w].step > 3 => Has(live, "jwt")
                /\ pass[w].step > PasswdStep => Has(live, "passwd")
                /\ pass[w].step > CAStep => HasKeys(cached)
                /\ pass[w].does # "look" /\ StepOf(w) \in Key => live["deployment"] = None

KeysInv ==
    /\ Shaped /\ Placed /\ AdminLive /\ KeysLive
    /\ \A w \in Worker : AdminPass(w) /\ KeysPass(w)

(* Where a worker is: only passes over the cluster are at these steps.     *)
LEMMA Places ==
    ASSUME Placed, NEW w \in Worker, pass[w] # Idle
    PROVE  /\ pass[w].step \in Nat /\ pass[w].step >= 1
           /\ w = "sessions" => StepOf(w) \in {"app", "ca", "desktop"}
           /\ w = "cluster" => Named(pass[w].step) /\ StepOf(w) = ClusterSteps[pass[w].step]
<1>1. pass[w].step \in 1..Len(StepsOf(w)) /\ Len(StepsOf(w)) \in Nat
  BY StepNames DEF Placed, StepsOf, SessionSteps
<1>2. w = "sessions" => StepOf(w) \in {"app", "ca", "desktop"}
  <2>1. SUFFICES ASSUME w = "sessions" PROVE StepOf(w) \in {"app", "ca", "desktop"}
    OBVIOUS
  <2>2. pass[w].step \in 1..3 /\ StepOf(w) = SessionSteps[pass[w].step]
    BY <1>1, <2>1 DEF StepsOf, StepOf, SessionSteps
  <2>3. \A i \in 1..3 : SessionSteps[i] \in {"app", "ca", "desktop"}
    BY DEF SessionSteps
  <2>4. QED
    BY <2>2, <2>3
<1>3. w = "cluster" => Named(pass[w].step) /\ StepOf(w) = ClusterSteps[pass[w].step]
  BY <1>1, StepNames DEF StepsOf, StepOf
<1>4. QED
  BY <1>1, <1>2, <1>3

(* What a call makes of the secrets and of the deployment.                 *)
LEMMA Changes ==
    ASSUME NoneApart, Shaped, NEW w \in Worker, Calls(w), Accepted(w), Effect(w)
    PROVE  /\ \/ live'["admin"] = live["admin"]
              \/ StepOf(w) = "admin" /\ pass[w].does = "delete"
              \/ /\ StepOf(w) = "admin" /\ pass[w].does = "create"
                 /\ live["admin"] = None /\ live'["admin"] = New(PasswordsInUse)
           /\ \/ live'["app"] = live["app"]
              \/ /\ StepOf(w) = "app" /\ live["app"] = None
                 /\ live'["app"] = [jwt |-> None, passwd |-> None, ca |-> None]
              \/ /\ StepOf(w) \in Key \cup {"ca"} /\ live["app"] # None /\ cached["app"] = live["app"]
                 /\ live'["app"] = [live["app"] EXCEPT ![StepOf(w)] = NewKey(w)]
           /\ live'["deployment"] # None => live["deployment"] # None \/ StepOf(w) = "deployment"
           /\ StepOf(w) \in Key \cup {"ca"} =>
                /\ live["app"] # None /\ cached["app"] = live["app"]
                /\ live'["app"] = [live["app"] EXCEPT ![StepOf(w)] = NewKey(w)]
           /\ StepOf(w) = "admin" /\ pass[w].does # "delete" => live'["admin"] = New(PasswordsInUse)
<1> DEFINE step == StepOf(w)
           target == Target(w)
           value == CASE pass[w].does \in {"create", "update"} -> NewValue(w)
                      [] pass[w].does = "delete" -> None
                      [] OTHER -> Written(w)
<1>1. live' = [live EXCEPT ![target] = value] /\ DOMAIN live = Object
  BY DEF Effect, Shaped
<1>2. /\ pass[w].does \in {"create", "update", "delete", "write", "clear"}
      /\ pass[w].does = "create" => step \in {"admin", "app", "server", "client", "desktop"} \cup Thing
      /\ pass[w].does = "update" => step \in Thing
      /\ pass[w].does = "delete" => step \in {"admin", "server", "client", "service"}
      /\ pass[w].does \in {"write", "clear"} => step \in Key \cup {"ca"}
  BY DEF Calls, Shaped, DoneAt
<1>3. /\ step = "desktop" => target \in Session \cup {None}
      /\ step \in Key \cup {"ca"} => target = "app"
      /\ step \notin Key \cup {"ca", "desktop"} => target = step
  BY DEF Target, Calls, Shaped, Key
<1>4. step \in Thing => step \notin Key \cup {"ca", "desktop", "app", "admin", "server", "client"}
  BY ClusterAssumption DEF Secret
<1>5. /\ {"app", "admin", "deployment"} \subseteq Object /\ {"app", "admin", "deployment"} \cap Session = {}
      /\ "service" \in Thing
  BY ClusterAssumption DEF Object, Secret, Thing
<1> HIDE DEF step, target, value
<1>6. CASE step \in Key \cup {"ca"}
  <2>1. pass[w].does \in {"write", "clear"} /\ target = "app"
    BY <1>2, <1>3, <1>4, <1>6 DEF Key
  <2>2. value = Written(w) /\ "app" \notin unseen /\ live["app"] # None
    BY <2>1 DEF value, Accepted
  <2>3. cached["app"] = live["app"]
    BY <1>5, <2>2 DEF Shaped
  <2>4. live'["app"] = [live["app"] EXCEPT ![step] = NewKey(w)]
    BY <1>1, <1>5, <2>1, <2>2, <2>3 DEF Written, step
  <2>5. live'["admin"] = live["admin"] /\ live'["deployment"] = live["deployment"]
    BY <1>1, <1>5, <2>1
  <2>6. QED
    BY <1>6, <2>2, <2>3, <2>4, <2>5 DEF step, Key
<1>7. CASE step = "admin"
  <2>1. pass[w].does \in {"create", "delete"} /\ target = "admin"
    BY <1>2, <1>3, <1>4, <1>7 DEF Key
  <2>2. live'["app"] = live["app"] /\ live'["deployment"] = live["deployment"]
    BY <1>1, <1>5, <2>1
  <2>3. pass[w].does = "create" => live["admin"] = None /\ live'["admin"] = New(PasswordsInUse)
    BY <1>1, <1>5, <1>7, <2>1 DEF Accepted, target, value, NewValue, step
  <2>4. QED
    BY <1>7, <2>1, <2>2, <2>3 DEF step, Key
<1>8. CASE step = "app"
  <2>1. pass[w].does = "create" /\ target = "app"
    BY <1>2, <1>3, <1>4, <1>8 DEF Key
  <2>2. live'["admin"] = live["admin"] /\ live'["deployment"] = live["deployment"]
    BY <1>1, <1>5, <2>1
  <2>3. live["app"] = None /\ live'["app"] = [jwt |-> None, passwd |-> None, ca |-> None]
    BY <1>1, <1>5, <1>8, <2>1 DEF Accepted, target, value, NewValue, step
  <2>4. QED
    BY <1>8, <2>2, <2>3 DEF step, Key
<1>9. CASE step \notin Key \cup {"ca", "admin", "app"}
  <2>1. target \notin {"admin", "app"}
    BY <1>3, <1>5, <1>9, ClusterAssumption
  <2>2. target = "deployment" => step = "deployment"
    BY <1>3, <1>5, <1>9, ClusterAssumption
  <2>3. QED
    BY <1>1, <1>5, <1>9, <2>1, <2>2 DEF step
<1>10. QED
  BY <1>6, <1>7, <1>8, <1>9

(* A call of a worker leaves what is said of the secrets true, and takes   *)
(* nothing away from the other worker.                                     *)
LEMMA CallKeeps ==
    ASSUME NoneApart, Plenty, KeysInv, NEW w \in Worker, Calls(w), Accepted(w), Effect(w),
           cached' = cached, byHand' = byHand
    PROVE  /\ AdminLive' /\ KeysLive'
           /\ "admin" \notin byHand /\ live["admin"] # None => live'["admin"] = live["admin"]
           /\ "app" \notin byHand => \A k \in Key : Has(live, k) => Has(live', k)
           /\ live'["deployment"] # None => live["deployment"] # None \/ StepOf(w) = "deployment"
           /\ StepOf(w) = "admin" /\ pass[w].does # "delete" => live'["admin"] = New(PasswordsInUse)
           /\ StepOf(w) \in Key /\ "app" \notin byHand => Has(live', StepOf(w))
           /\ StepOf(w) = "ca" /\ "app" \notin byHand => HasKeys(cached)
<1> DEFINE step == StepOf(w)
<1>1. /\ \/ live'["admin"] = live["admin"]
         \/ step = "admin" /\ pass[w].does = "delete"
         \/ /\ step = "admin" /\ pass[w].does = "create"
            /\ live["admin"] = None /\ live'["admin"] = New(PasswordsInUse)
      /\ \/ live'["app"] = live["app"]
         \/ /\ step = "app" /\ live["app"] = None
            /\ live'["app"] = [jwt |-> None, passwd |-> None, ca |-> None]
         \/ /\ step \in Key \cup {"ca"} /\ live["app"] # None /\ cached["app"] = live["app"]
            /\ live'["app"] = [live["app"] EXCEPT ![step] = NewKey(w)]
      /\ live'["deployment"] # None => live["deployment"] # None \/ step = "deployment"
      /\ step \in Key \cup {"ca"} => /\ live["app"] # None /\ cached["app"] = live["app"]
                                    /\ live'["app"] = [live["app"] EXCEPT ![step] = NewKey(w)]
      /\ step = "admin" /\ pass[w].does # "delete" => live'["admin"] = New(PasswordsInUse)
  BY Changes DEF KeysInv
<1>2. /\ pass[w] # Idle /\ pass[w].does # "look" /\ AdminPass(w) /\ KeysPass(w) /\ Shaped /\ AdminLive /\ KeysLive
      /\ pass[w].step \in Nat /\ pass[w].step >= 1
      /\ w = "sessions" => step \in {"app", "ca", "desktop"}
      /\ w = "cluster" => Named(pass[w].step) /\ step = ClusterSteps[pass[w].step]
      /\ w = "cluster" \/ w = "sessions"
  BY Places DEF KeysInv, Calls, Worker, Named
<1>3. New(PasswordsInUse) \in Number /\ New(KeysInUse("jwt")) \in Number
      /\ New(PasswordsInUse) # None /\ New(KeysInUse("jwt")) # None
  BY Drawn, Names
<1>4. /\ Len(Roles) \in Nat /\ Len(Rbac) \in Nat
      /\ PasswdStep \in Nat /\ PasswdStep > 3 /\ CAStep \in Nat /\ CAStep > PasswdStep
  BY StepNames DEF PasswdStep, CAStep
<1> HIDE DEF step
<1>5. CASE step = "admin"
  <2>1. live'["app"] = live["app"] /\ (live'["deployment"] # None => live["deployment"] # None)
    BY <1>1, <1>5 DEF Key
  <2>2. "admin" \notin byHand => /\ live'["admin"] = live["admin"] \/ live["admin"] = None
                                 /\ live'["admin"] \in Number \cup {None}
    BY <1>1, <1>2, <1>3, <1>5 DEF AdminPass, AdminLive, step
  <2>3. AdminLive'
    BY <1>2, <2>1, <2>2 DEF AdminLive, Has
  <2>4. KeysLive'
    BY <1>2, <2>1 DEF KeysLive, Has, HasKeys
  <2>5. QED
    BY <1>1, <1>5, <2>1, <2>2, <2>3, <2>4 DEF Has, Key, step
<1>6. CASE step = "app" /\ live["app"] = None
  <2>1. /\ live'["admin"] = live["admin"]
        /\ live'["deployment"] # None => live["deployment"] # None
        /\ \A k \in Key \cup {"ca"} : ~Has(live, k)
    BY <1>1, <1>6 DEF Has
  <2>2. \A k \in Key \cup {"ca"} : ~Has(live', k)
    BY <1>1, <1>6 DEF Has, Key
  <2>3. AdminLive'
    BY <1>2, <2>1, <2>2 DEF AdminLive, Key
  <2>4. KeysLive'
    BY <1>2, <1>6, <2>1, <2>2 DEF KeysLive, Key, HasKeys, Has
  <2>5. QED
    BY <1>1, <1>6, <2>1, <2>3, <2>4 DEF Key, step
<1>7. CASE step \in Key \cup {"ca"} /\ live["app"] # None /\ cached["app"] = live["app"]
  <2>1. live'["admin"] = live["admin"] /\ (live'["deployment"] # None => live["deployment"] # None)
    BY <1>1, <1>7 DEF Key
  <2>2. /\ live'["app"] # None /\ live'["app"][step] = NewKey(w)
        /\ \A k \in Key \cup {"ca"} : k # step => live'["app"][k] = live["app"][k]
    <3>1. DOMAIN live["app"] = AppFields
      BY <1>2, <1>7 DEF Shaped
    <3>2. live'["app"] = [live["app"] EXCEPT ![step] = NewKey(w)]
      BY <1>1, <1>7
    <3>3. DOMAIN live'["app"] = AppFields
      BY <3>1, <3>2
    <3>4. QED
      BY <1>7, <3>1, <3>2, <3>3 DEF NoneApart, AppFields, Key
  <2>3. \A k \in Key \cup {"ca"} : k # step => (Has(live', k) <=> Has(live, k))
    BY <1>7, <2>2 DEF Has
  <2>4. step \in Key => /\ w = "cluster" /\ pass[w].step > 1 /\ NewKey(w) # None
                        /\ step = "passwd" => NewKey(w) = pass[w].password
    <3>1. step \in Key => w = "cluster" /\ pass[w].step > 1 /\ (step = "jwt" \/ step = "passwd")
      BY <1>2, <1>4 DEF Named, Key
    <3>2. step \in Key => pass[w].does # "clear"
      BY <1>2, <3>1 DEF Shaped, DoneAt, Key, step
    <3>3. step = "jwt" => NewKey(w) = New(KeysInUse("jwt"))
      BY <3>1, <3>2 DEF NewKey, step, Key
    <3>4. step = "passwd" => NewKey(w) = pass[w].password
      BY <3>1, <3>2 DEF NewKey, step, Key
    <3>5. QED
      BY <1>2, <1>3, <3>1, <3>3, <3>4 DEF KeysPass
  <2>5. AdminLive'
    <3>1. "admin" \notin byHand /\ step = "passwd" => live'["app"].passwd = live["admin"]
      BY <1>2, <2>2, <2>4 DEF AdminPass, Key
    <3>2. step # "passwd" => live'["app"].passwd = live["app"].passwd
      BY <2>2 DEF Key
    <3>3. QED
      BY <1>2, <2>1, <2>3, <3>1, <3>2 DEF AdminLive, Key
  <2>6. "app" \notin byHand => /\ step \in Key => Has(live', step)
                               /\ \A k \in Key : Has(live, k) => Has(live', k)
    BY <2>2, <2>3, <2>4 DEF Has
  <2>7. "app" \notin byHand =>
          /\ step = "passwd" => Has(live, "jwt")
          /\ step = "ca" => Has(live, "passwd")
    <3>1. step = "passwd" => w = "cluster" /\ pass[w].step > 3
      BY <1>2, <1>4 DEF Named
    <3>2. step = "ca" /\ w = "cluster" => pass[w].step > PasswdStep
      BY <1>2, <1>4 DEF Named
    <3>3. "passwd" \in Key
      BY DEF Key
    <3>4. QED
      BY <1>2, <1>7, <3>1, <3>2, <3>3 DEF KeysPass, HasKeys, Has
  <2>8. KeysLive'
    <3>1. "app" \notin byHand => /\ Has(live', "ca") => Has(live', "passwd")
                                 /\ Has(live', "passwd") => Has(live', "jwt")
      BY <1>2, <2>3, <2>6, <2>7 DEF KeysLive, Key
    <3>2. QED
      BY <1>2, <2>1, <2>2, <2>6, <3>1 DEF KeysLive, Has, HasKeys
  <2>9. step = "ca" /\ "app" \notin byHand => HasKeys(cached)
    BY <1>2, <1>7, <2>7 DEF KeysLive, HasKeys, Has, Key
  <2>10. QED
    BY <1>1, <2>1, <2>5, <2>6, <2>8, <2>9 DEF step
<1>8. CASE step = "deployment" /\ live'["app"] = live["app"] /\ live'["admin"] = live["admin"]
  <2>1. w = "cluster" /\ pass[w].step > CAStep
    BY <1>2, <1>8 DEF Named
  <2>2. KeysLive'
    BY <1>2, <1>8, <2>1 DEF KeysLive, KeysPass, Has, HasKeys
  <2>3. AdminLive'
    BY <1>2, <1>8 DEF AdminLive, Has
  <2>4. QED
    BY <1>8, <2>2, <2>3 DEF Has, Key, step
<1>9. CASE /\ step # "deployment" /\ step \notin Key \cup {"ca", "admin"}
           /\ live'["app"] = live["app"] /\ live'["admin"] = live["admin"]
  <2>1. live'["deployment"] # None => live["deployment"] # None
    BY <1>1, <1>9
  <2>2. AdminLive' /\ KeysLive'
    BY <1>2, <1>9, <2>1 DEF AdminLive, KeysLive, Has, HasKeys
  <2>3. QED
    BY <1>9, <2>1, <2>2 DEF Has, step
<1>10. QED
  BY <1>1, <1>5, <1>6, <1>7, <1>8, <1>9 DEF Key

(* What is said of a worker stays true while it rests.                     *)
LEMMA PassKept ==
    ASSUME NEW w \in Worker, AdminPass(w), KeysPass(w), pass'[w] = pass[w], byHand \subseteq byHand',
           "admin" \notin byHand' /\ live["admin"] # None => live'["admin"] = live["admin"],
           "app" \notin byHand' => \A k \in Key : /\ Has(live, k) => Has(live', k)
                                                  /\ Has(cached, k) => Has(cached', k),
           w = "cluster" => (live'["deployment"] # None => live["deployment"] # None)
    PROVE  AdminPass(w)' /\ KeysPass(w)'
<1>1. StepOf(w)' = StepOf(w)
  BY DEF StepOf
<1>2. AdminPass(w)'
  BY <1>1 DEF AdminPass
<1>3. "jwt" \in Key /\ "passwd" \in Key
  BY DEF Key
<1>4. "app" \notin byHand' =>
        /\ Has(live, "jwt") => Has(live', "jwt")
        /\ Has(live, "passwd") => Has(live', "passwd")
        /\ HasKeys(cached) => HasKeys(cached')
  BY <1>3 DEF HasKeys
<1>5. KeysPass(w)'
  BY <1>1, <1>4 DEF KeysPass
<1>6. QED
  BY <1>2, <1>5

(* A pass that goes on after a call has what it has learnt.                *)
LEMMA GoneOnAfterCall ==
    ASSUME Shaped, NEW w \in Worker, pass[w] # Idle, GoesOn(w, Learnt(w))
    PROVE  \E q : /\ pass' = [pass EXCEPT ![w] = q]
                  /\ \/ q = Idle
                     \/ /\ q.step = pass[w].step + 1 /\ pass[w].step # Len(StepsOf(w)) /\ q.does = "look"
                        /\ q.password = IF StepOf(w) = "admin" THEN NewValue(w) ELSE pass[w].password
<1> DEFINE p == Learnt(w)
           q == [p EXCEPT !.step = @ + 1, !.does = "look", !.seen = None]
<1>1. /\ DOMAIN p = PassFields /\ p.step = pass[w].step
      /\ p.password = IF StepOf(w) = "admin" THEN NewValue(w) ELSE pass[w].password
  BY DEF Learnt, Shaped, PassFields
<1>2. pass' = [pass EXCEPT ![w] = IF p.step = Len(StepsOf(w)) THEN Idle ELSE q]
  BY DEF GoesOn, Then
<1> HIDE DEF p
<1>3. q.step = p.step + 1 /\ q.does = "look" /\ q.password = p.password
  BY <1>1 DEF PassFields
<1>4. QED
  BY <1>1, <1>2, <1>3

(* What is said of the secrets and of a worker at rest stays true when the *)
(* secrets are not touched and the cache, if it changes at all, learns of  *)
(* them.                                                                   *)
LEMMA LiveKept ==
    ASSUME AdminLive, KeysLive, byHand \subseteq byHand',
           "admin" \notin byHand' =>
             /\ live'["admin"] = live["admin"] /\ cached'["admin"] \in {cached["admin"], live["admin"]}
             /\ Has(live', "passwd") => Has(live, "passwd") /\ live'["app"].passwd = live["app"].passwd,
           "app" \notin byHand' => live'["app"] = live["app"] /\ cached'["app"] \in {cached["app"], live["app"]},
           live'["deployment"] # None => live["deployment"] # None
    PROVE  /\ AdminLive' /\ KeysLive'
           /\ \A w \in Worker : AdminPass(w) /\ KeysPass(w) /\ pass'[w] = pass[w] =>
                                  AdminPass(w)' /\ KeysPass(w)'
<1>1. "app" \notin byHand' => \A k \in Key : /\ Has(live, k) => Has(live', k)
                                             /\ Has(cached, k) => Has(cached', k)
  BY DEF Has, KeysLive
<1>2. AdminLive'
  BY DEF AdminLive
<1>3. KeysLive'
  <2>1. CASE "app" \in byHand'
    BY <2>1 DEF KeysLive
  <2>2. CASE "app" \notin byHand'
    BY <1>1, <2>2 DEF KeysLive, Has, HasKeys
  <2>3. QED
    BY <2>1, <2>2
<1>4. \A w \in Worker : AdminPass(w) /\ KeysPass(w) /\ pass'[w] = pass[w] => AdminPass(w)' /\ KeysPass(w)'
  BY <1>1, PassKept
<1>5. QED
  BY <1>2, <1>3, <1>4

(* Every step keeps what is said of the secrets and of the passes.         *)
LEMMA KeysStep == NoneApart /\ Plenty /\ KeysInv /\ Shaped' /\ [Next]_vars => KeysInv'
<1> SUFFICES ASSUME NoneApart, Plenty, KeysInv, Shaped', [Next]_vars PROVE KeysInv'
  OBVIOUS
<1> DEFINE At(w) == AdminPass(w) /\ KeysPass(w)
           In(w) == pass[w] # Idle => pass[w].step \in 1..Len(StepsOf(w))
           Safe == AdminLive' /\ KeysLive' /\ (\A w \in Worker : At(w)' /\ In(w)')
<1>0. /\ Shaped /\ Placed /\ AdminLive /\ KeysLive
      /\ \A w \in Worker : At(w)
  BY DEF KeysInv
<1>1. SUFFICES Safe
  BY DEF KeysInv, Placed
<1>2. \A w \in Worker : pass'[w] = Idle => At(w)'
  BY DEF AdminPass, KeysPass
<1>3. /\ Len(Roles) \in Nat /\ Len(Rbac) \in Nat
      /\ PasswdStep \in Nat /\ PasswdStep > 3 /\ CAStep \in Nat /\ CAStep > PasswdStep
      /\ Len(ClusterSteps) \in Nat /\ Len(ClusterSteps) >= 1
      /\ \A w \in Worker : Len(StepsOf(w)) \in Nat /\ 1 \in 1..Len(StepsOf(w))
  <2>1. Len(ClusterSteps) >= 1
    BY StepNames DEF ClusterSteps
  <2>2. QED
    BY StepNames, <2>1 DEF PasswdStep, CAStep, StepsOf, SessionSteps
<1> HIDE DEF Safe
<1>4. ASSUME UNCHANGED <<live, cached, byHand>>, NEW w \in Worker, NEW q, pass' = [pass EXCEPT ![w] = q],
             q # Idle => q.step \in 1..Len(StepsOf(w)), At(w)'
      PROVE  Safe
  <2>1. /\ AdminLive' /\ KeysLive'
        /\ \A v \in Worker : pass'[v] = pass[v] => At(v)'
    BY <1>0, <1>4, LiveKept DEF Has
  <2>2. pass'[w] = q /\ \A v \in Worker : v # w => pass'[v] = pass[v]
    BY <1>0, <1>4 DEF Shaped
  <2>3. QED
    BY <1>0, <1>4, <2>1, <2>2 DEF Safe, Placed
<1>5. CASE Begin
  <2> DEFINE q == NewPass(None)
  <2>1. q.step = 1 /\ q.does = "look"
    BY DEF NewPass
  <2> HIDE DEF q
  <2>2. pass' = [pass EXCEPT !["cluster"] = q] /\ UNCHANGED <<live, cached, byHand>>
    BY <1>5 DEF Begin, History, q
  <2>3. At("cluster")'
    BY <1>0, <1>3, <2>1, <2>2 DEF AdminPass, KeysPass, Shaped, Worker
  <2>4. "cluster" \in Worker /\ q.step \in 1..Len(StepsOf("cluster"))
    BY <1>3, <2>1 DEF Worker
  <2>5. QED
    BY <1>4, <2>2, <2>3, <2>4
<1>6. ASSUME NEW s \in Session, BeginSession(s) PROVE Safe
  <2> DEFINE q == NewPass(s)
  <2>1. q.step = 1 /\ q.does = "look"
    BY DEF NewPass
  <2> HIDE DEF q
  <2>2. /\ pass' = [pass EXCEPT !["sessions"] = q] /\ UNCHANGED <<live, cached, byHand>>
        /\ live["deployment"] # None
    BY <1>6 DEF BeginSession, History, q
  <2>3. At("sessions")'
    <3>1. pass'["sessions"] = q
      BY <1>0, <2>2 DEF Shaped, Worker
    <3>2. AdminPass("sessions")'
      BY <2>1, <3>1 DEF AdminPass
    <3>3. "app" \notin byHand => HasKeys(cached)
      BY <1>0, <2>2 DEF KeysLive
    <3>4. KeysPass("sessions")'
      BY <2>2, <3>1, <3>3 DEF KeysPass, HasKeys, Has
    <3>5. QED
      BY <3>2, <3>4
  <2>4. QED
    BY <1>3, <1>4, <2>1, <2>2, <2>3 DEF Worker
<1>7. ASSUME NEW w \in Worker, Look(w) PROVE Safe
  <2>1. UNCHANGED <<live, cached, byHand>>
    BY <1>7 DEF Look, History
  <2>2. PICK q : /\ pass' = [pass EXCEPT ![w] = q]
                 /\ q = Idle \/ GoneOn(q, w) \/ Planned(q, w)
    BY <1>0, <1>7, Planning
  <2>3. pass'[w] = q
    BY <1>0, <2>2 DEF Shaped
  <2>4. pass[w] # Idle
    BY <1>7 DEF Look, Looks, LookAdmin, LookApp, LookCA, LookDesktop, LookDeployment, LookService,
           LookKey, LookCert, LookThing
  <2>5. /\ pass[w].step \in Nat /\ pass[w].step >= 1 /\ pass[w].step \in 1..Len(StepsOf(w))
        /\ w = "cluster" => Named(pass[w].step) /\ StepOf(w) = ClusterSteps[pass[w].step]
    BY <1>0, <2>4, Places DEF Placed
  <2>6. CASE q = Idle
    BY <1>2, <1>4, <2>1, <2>2, <2>3, <2>6
  <2>7. CASE q # Idle /\ GoneOn(q, w)
    <3>1. q.step \in 1..Len(StepsOf(w)) /\ q.step = pass[w].step + 1 /\ q.does = "look"
      BY <1>3, <2>5, <2>7 DEF GoneOn
    <3>2. AdminPass(w)'
      BY <1>0, <2>1, <2>3, <2>4, <2>5, <2>7, <3>1 DEF GoneOn, AdminPass, AdminLive, Named
    <3>3. KeysPass(w)'
      <4>1. w = "cluster" => q.password # None
        BY <1>0, <2>4, <2>5, <2>7 DEF GoneOn, KeysPass, Named
      <4>2. w = "sessions" /\ "app" \notin byHand => HasKeys(cached)
        BY <1>0, <2>4 DEF KeysPass
      <4>3. w = "cluster" /\ "app" \notin byHand =>
              /\ pass[w].step >= 3 => Has(live, "jwt")
              /\ pass[w].step >= PasswdStep => Has(live, "passwd")
              /\ pass[w].step >= CAStep => HasKeys(cached)
        BY SMTT(30), <1>0, <1>3, <2>4, <2>5, <2>7 DEF GoneOn, KeysPass, KeysLive, Named, Key, HasKeys
      <4>4. QED
        BY SMTT(30), <1>3, <2>1, <2>3, <2>5, <3>1, <4>1, <4>2, <4>3 DEF KeysPass, HasKeys, Has
    <3>4. QED
      BY <1>4, <2>1, <2>2, <3>1, <3>2, <3>3
  <2>8. CASE q # Idle /\ Planned(q, w)
    <3>1. q.step = pass[w].step /\ q.password = pass[w].password /\ StepOf(w)' = StepOf(w)
      BY <2>3, <2>8 DEF Planned, StepOf
    <3>2. AdminPass(w)'
      <4>1. "admin" \notin byHand => cached["admin"] # Bad
        BY <1>0, Names, ClusterAssumption DEF AdminLive
      <4>2. "admin" \notin byHand => ~ (StepOf(w) = "admin" /\ q.does = "delete")
        BY <2>8, <4>1 DEF Planned
      <4>3. QED
        BY <1>0, <2>1, <2>3, <2>4, <3>1, <4>2 DEF AdminPass
    <3>3. KeysPass(w)'
      <4>1. "app" \notin byHand /\ StepOf(w) \in Key => live["deployment"] = None
        BY <1>0, <2>8 DEF Planned, KeysLive, HasKeys
      <4>2. QED
        BY <1>0, <2>1, <2>3, <2>4, <3>1, <4>1 DEF KeysPass, HasKeys, Has
    <3>4. QED
      BY <1>4, <2>1, <2>2, <2>5, <3>1, <3>2, <3>3
  <2>9. QED
    BY <2>2, <2>6, <2>7, <2>8
<1>8. ASSUME NEW w \in Worker, Refused(w) PROVE Safe
  <2>1. pass' = [pass EXCEPT ![w] = Idle] /\ UNCHANGED <<live, cached, byHand>>
    BY <1>8 DEF Refused, Requeue, History
  <2>2. pass'[w] = Idle
    BY <1>0, <2>1 DEF Shaped
  <2>3. QED
    BY <1>2, <1>4, <2>1, <2>2

<1>9. ASSUME NEW w \in Worker, Calls(w), Accepted(w), Effect(w), UNCHANGED <<cached, byHand>>,
             NEW q, pass' = [pass EXCEPT ![w] = q],
             q # Idle => q.step \in 1..Len(StepsOf(w)), At(w)'
      PROVE  Safe
  <2>1. /\ AdminLive' /\ KeysLive'
        /\ "admin" \notin byHand /\ live["admin"] # None => live'["admin"] = live["admin"]
        /\ "app" \notin byHand => \A k \in Key : Has(live, k) => Has(live', k)
        /\ live'["deployment"] # None => live["deployment"] # None \/ StepOf(w) = "deployment"
    BY <1>9, CallKeeps
  <2>2. pass'[w] = q /\ \A v \in Worker : v # w => pass'[v] = pass[v]
    BY <1>0, <1>9 DEF Shaped
  <2>3. w = "sessions" => StepOf(w) # "deployment"
    BY <1>0, <1>9, Places DEF Calls
  <2>4. ASSUME NEW v \in Worker, v # w PROVE At(v)'
    <3>1. v = "cluster" => (live'["deployment"] # None => live["deployment"] # None)
      BY <2>1, <2>3, <2>4 DEF Worker
    <3>2. \A k \in Key : Has(cached, k) => Has(cached', k)
      BY <1>9 DEF Has
    <3>3. QED
      BY <1>0, <1>9, <2>1, <2>2, <2>4, <3>1, <3>2, PassKept
  <2>5. QED
    BY <1>0, <1>9, <2>1, <2>2, <2>4 DEF Safe, Placed
<1>10. ASSUME NEW w \in Worker, Call(w) PROVE Safe
  <2>1. /\ Calls(w) /\ Accepted(w) /\ Effect(w) /\ UNCHANGED <<cached, byHand>> /\ pass[w] # Idle
        /\ IF Again(w) THEN Requeue(w) ELSE GoesOn(w, Learnt(w))
    BY <1>10 DEF Call, Calls
  <2>2. CASE Again(w)
    <3>1. pass' = [pass EXCEPT ![w] = Idle] /\ pass'[w] = Idle
      BY <1>0, <2>1, <2>2 DEF Requeue, Shaped
    <3>2. QED
      BY <1>2, <1>9, <2>1, <3>1
  <2>3. CASE ~Again(w)
    <3>1. PICK q : /\ pass' = [pass EXCEPT ![w] = q]
                   /\ \/ q = Idle
                      \/ /\ q.step = pass[w].step + 1 /\ pass[w].step # Len(StepsOf(w)) /\ q.does = "look"
                         /\ q.password = IF StepOf(w) = "admin" THEN NewValue(w) ELSE pass[w].password
      BY <1>0, <2>1, <2>3, GoneOnAfterCall
    <3>2. pass'[w] = q
      BY <1>0, <3>1 DEF Shaped
    <3>3. CASE q = Idle
      BY <1>2, <1>9, <2>1, <3>1, <3>2, <3>3
    <3>4. CASE q # Idle
      <4>1. /\ pass[w].step \in Nat /\ pass[w].step >= 1 /\ pass[w].step \in 1..Len(StepsOf(w))
            /\ w = "cluster" => Named(pass[w].step) /\ StepOf(w) = ClusterSteps[pass[w].step]
        BY <1>0, <2>1, Places DEF Placed
      <4>2. q.step \in 1..Len(StepsOf(w)) /\ q.step = pass[w].step + 1 /\ q.does = "look"
        BY <1>3, <3>1, <3>4, <4>1
      <4>3. /\ pass[w].does # "delete"
            /\ StepOf(w) = "admin" => NewValue(w) = New(PasswordsInUse)
            /\ New(PasswordsInUse) # None
        BY <2>3, Drawn, Names DEF Again, NewValue
      <4>4. /\ "admin" \notin byHand /\ live["admin"] # None => live'["admin"] = live["admin"]
            /\ "app" \notin byHand => \A k \in Key : Has(live, k) => Has(live', k)
            /\ StepOf(w) = "admin" => live'["admin"] = New(PasswordsInUse)
            /\ StepOf(w) \in Key /\ "app" \notin byHand => Has(live', StepOf(w))
            /\ StepOf(w) = "ca" /\ "app" \notin byHand => HasKeys(cached)
        BY <2>1, <4>3, CallKeeps
      <4>5. AdminPass(w)'
        BY <1>0, <2>1, <3>1, <3>2, <3>4, <4>1, <4>2, <4>3, <4>4 DEF AdminPass, Named
      <4>6. KeysPass(w)'
        <5>1. w = "cluster" => q.password # None
          BY <1>0, <2>1, <3>1, <3>4, <4>1, <4>3 DEF KeysPass, Named
        <5>2. w = "sessions" /\ "app" \notin byHand => HasKeys(cached)
          BY <1>0, <2>1 DEF KeysPass
        <5>3. w = "cluster" /\ "app" \notin byHand =>
                /\ pass[w].step >= 3 => Has(live', "jwt")
                /\ pass[w].step >= PasswdStep => Has(live', "passwd")
                /\ pass[w].step >= CAStep => HasKeys(cached)
          BY <1>0, <1>3, <2>1, <4>1, <4>4 DEF KeysPass, Named, Key, HasKeys
        <5>4. QED
          BY SMTT(30), <1>3, <2>1, <3>2, <4>1, <4>2, <5>1, <5>2, <5>3 DEF KeysPass, HasKeys, Has
      <4>7. QED
        BY <1>9, <2>1, <3>1, <4>2, <4>5, <4>6
    <3>5. QED
      BY <3>3, <3>4
  <2>4. QED
    BY <2>2, <2>3
<1>11. ASSUME NEW w \in Worker, Fails(w) PROVE Safe
  <2>1. /\ Calls(w) /\ pass' = [pass EXCEPT ![w] = Idle] /\ UNCHANGED <<cached, byHand>>
        /\ UNCHANGED live \/ (Accepted(w) /\ Effect(w))
    BY <1>11 DEF Fails, Requeue
  <2>2. pass'[w] = Idle
    BY <1>0, <2>1 DEF Shaped
  <2>3. QED
    BY <1>2, <1>4, <1>9, <2>1, <2>2
<1>12. ASSUME UNCHANGED pass, byHand \subseteq byHand',
              "admin" \notin byHand' =>
                /\ live'["admin"] = live["admin"] /\ cached'["admin"] \in {cached["admin"], live["admin"]}
                /\ Has(live', "passwd") => Has(live, "passwd") /\ live'["app"].passwd = live["app"].passwd,
              "app" \notin byHand' => live'["app"] = live["app"] /\ cached'["app"] \in {cached["app"], live["app"]},
              live'["deployment"] # None => live["deployment"] # None
       PROVE  Safe
  <2>1. /\ AdminLive' /\ KeysLive'
        /\ \A w \in Worker : AdminPass(w) /\ KeysPass(w) /\ pass'[w] = pass[w] =>
                               AdminPass(w)' /\ KeysPass(w)'
    BY <1>0, <1>12, LiveKept
  <2>2. QED
    BY <1>0, <1>12, <2>1 DEF Safe, Placed
<1>13. CASE Crash
  <2>1. cached' = live /\ UNCHANGED <<live, byHand>> /\ \A w \in Worker : pass'[w] = Idle
    BY <1>13 DEF Crash, History
  <2>2. AdminLive' /\ KeysLive'
    BY <1>0, <2>1, LiveKept DEF Has
  <2>3. QED
    BY <1>2, <2>1, <2>2 DEF Safe
<1>14. ASSUME NEW kind \in Kinds, CatchUp(kind) PROVE Safe
  <2>1. /\ cached' = [o \in Object |-> IF o \in unseen \cap kind THEN live[o] ELSE cached[o]]
        /\ UNCHANGED <<live, pass, byHand>>
    BY <1>14 DEF CatchUp, History
  <2>2. cached'["admin"] \in {cached["admin"], live["admin"]} /\ cached'["app"] \in {cached["app"], live["app"]}
    BY <2>1 DEF Object, Secret
  <2>3. QED
    BY <1>12, <2>1, <2>2 DEF Has
<1>15. ASSUME NEW o \in Object, o \notin {"admin", "app", "deployment"}, NEW value,
              live' = [live EXCEPT ![o] = value], UNCHANGED <<cached, pass, byHand>>
       PROVE  Safe
  <2>1. live'["admin"] = live["admin"] /\ live'["app"] = live["app"] /\ live'["deployment"] = live["deployment"]
    BY <1>15
  <2>2. QED
    BY <1>12, <1>15, <2>1 DEF Has
<1>16. ASSUME NEW o \in Secret \cup Thing, NEW value, ByHand(o, value), o = "deployment" => value = None,
              o = "app" => value = None \/ value = [live["app"] EXCEPT !.ca = Bad],
              o = "app" => live["app"] # None
       PROVE  Safe
  <2>1. /\ live' = [live EXCEPT ![o] = value, !["replicas"] = IF o = "deployment" THEN 0 ELSE @]
        /\ byHand' = byHand \cup {o} /\ UNCHANGED <<cached, pass>>
    BY <1>16 DEF ByHand
  <2>2. o \in Object /\ {"admin", "app", "deployment"} \subseteq Object /\ o # "replicas"
    BY <1>16, ClusterAssumption DEF Object, Secret, Thing
  <2>3. /\ \A x \in {"admin", "app", "deployment"} : x # o => live'[x] = live[x]
        /\ live'[o] = value
    BY <1>0, <2>1, <2>2 DEF Shaped
  <2>4. Has(live', "passwd") => Has(live, "passwd") /\ live'["app"].passwd = live["app"].passwd
    <3>1. CASE o = "app"
      <4>1. DOMAIN live["app"] = AppFields
        BY <1>0, <1>16, <3>1 DEF Shaped
      <4>2. [live["app"] EXCEPT !.ca = Bad].passwd = live["app"].passwd
        BY <4>1 DEF AppFields
      <4>3. QED
        BY <1>16, <2>3, <3>1, <4>2 DEF Has
    <3>2. CASE o # "app"
      BY <2>3, <3>2 DEF Has
    <3>3. QED
      BY <3>1, <3>2
  <2>5. live'["deployment"] # None => live["deployment"] # None
    BY <1>16, <2>3
  <2>6. QED
    BY <1>12, <2>1, <2>3, <2>4, <2>5
<1>17. CASE Others
  <2>1. CASE ChangeCluster
    <3>1. "cluster" \in Object /\ "cluster" \notin {"admin", "app", "deployment"}
      BY DEF Object
    <3>2. QED
      BY <1>15, <2>1, <3>1 DEF ChangeCluster, History
  <2>2. CASE DamageCA
    BY <1>16, <2>2 DEF DamageCA, Secret
  <2>3. CASE AppWrites
    BY <1>12, <2>3 DEF AppWrites, History
  <2>4. ASSUME NEW o \in Secret \cup Thing, Remove(o) PROVE Safe
    BY <1>16, <2>4 DEF Remove
  <2>5. ASSUME NEW o \in {"admin", "server", "client"}, Damage(o) PROVE Safe
    BY <1>16, <2>5 DEF Damage, Secret
  <2>6. QED
    BY <1>17, <2>1, <2>2, <2>3, <2>4, <2>5 DEF Others
<1>18. CASE BecomesReady
  <2>1. "replicas" \in Object /\ "replicas" \notin {"admin", "app", "deployment"}
    BY DEF Object
  <2>2. QED
    BY <1>15, <1>18, <2>1 DEF BecomesReady, History
<1>19. CASE UNCHANGED vars
  BY <1>12, <1>19 DEF vars, History
<1>20. QED
  BY <1>5, <1>6, <1>7, <1>8, <1>10, <1>11, <1>13, <1>14, <1>17, <1>18, <1>19 DEF Next, Goes

(* The inductive invariant: what is there of the administrator's password  *)
(* and of the keys, and what the passes of the cluster and of sessions     *)
(* have of them.                                                           *)
THEOREM KeysInvariant == NoneApart /\ Plenty => (Spec => []KeysInv)
<1> SUFFICES ASSUME NoneApart, Plenty PROVE Spec => []KeysInv
  OBVIOUS
<1>1. Init => KeysInv
  <2>1. SUFFICES ASSUME Init PROVE KeysInv
    OBVIOUS
  <2>2. Shaped
    BY <2>1, Names DEF Init, Shaped, Object
  <2>3. /\ cached = live /\ \A w \in Worker : pass[w] = Idle
        /\ live["admin"] = None /\ live["app"] = None /\ live["deployment"] = None
    BY <2>1 DEF Init, Object, Secret, Thing
  <2>4. QED
    BY <2>2, <2>3 DEF KeysInv, Placed, AdminLive, KeysLive, AdminPass, KeysPass, Has
<1>2. Spec => []SignedInv
  BY SignedInvariant
<1>3. SignedInv => Shaped
  BY DEF SignedInv
<1>4. KeysInv /\ Shaped' /\ [Next]_vars => KeysInv'
  BY KeysStep
<1>5. QED
  BY <1>1, <1>2, <1>3, <1>4, PTL DEF Spec

(* The password that the administrator finds in the secret is the one in   *)
(* the passwd file, unless others changed the secret, also after crashes,  *)
(* failed calls and looks at an old cache.                                 *)
THEOREM AdminLogsIn == NoneApart /\ Plenty => (Spec => []AdminCanLogIn)
<1> SUFFICES ASSUME NoneApart, Plenty PROVE Spec => []AdminCanLogIn
  OBVIOUS
<1>1. KeysInv => AdminCanLogIn
  BY DEF KeysInv, AdminLive, Has, AdminCanLogIn
<1>2. QED
  BY <1>1, KeysInvariant, PTL

(* A step keeps the keys once the app runs.                                *)
LEMMA KeysStay ==
    ASSUME NoneApart, Plenty, KeysInv, [Next]_vars, live["deployment"] # None, live["app"] # None,
           "app" \notin byHand'
    PROVE  live'["app"] # None /\ \A k \in Key : live'["app"][k] = live["app"][k]
<1> DEFINE Stay == live'["app"] # None /\ \A k \in Key : live'["app"][k] = live["app"][k]
<1>0. Shaped /\ Placed /\ DOMAIN live = Object /\ "app" \in Object
  BY DEF KeysInv, Shaped, Object, Secret
<1>1. ASSUME live'["app"] = live["app"] PROVE Stay
  BY <1>1
<1>2. ASSUME NEW w \in Worker, Calls(w), Accepted(w), Effect(w), byHand' = byHand PROVE Stay
  <2>1. \/ live'["app"] = live["app"]
        \/ /\ StepOf(w) \in Key \cup {"ca"}
           /\ live'["app"] = [live["app"] EXCEPT ![StepOf(w)] = NewKey(w)]
    BY <1>0, <1>2, Changes
  <2>2. StepOf(w) \notin Key
    <3>1. StepOf(w) \in Key => w = "cluster"
      BY <1>0, <1>2, Places DEF Calls, Worker, Key
    <3>2. QED
      BY <1>2, <3>1 DEF KeysInv, KeysPass, Calls
  <2>3. CASE StepOf(w) = "ca" /\ live'["app"] = [live["app"] EXCEPT !["ca"] = NewKey(w)]
    <3>1. DOMAIN live["app"] = AppFields
      BY <1>0 DEF Shaped
    <3>2. DOMAIN live'["app"] = AppFields
      BY <2>3, <3>1
    <3>3. live'["app"] # None
      BY <3>2 DEF NoneApart
    <3>4. \A k \in Key : live'["app"][k] = live["app"][k]
      BY <2>3, <3>1 DEF Key, AppFields
    <3>5. QED
      BY <3>3, <3>4
  <2>4. QED
    BY <1>1, <2>1, <2>2, <2>3
<1>3. ASSUME NEW o, NEW value, o # "app", live' = [live EXCEPT ![o] = value] PROVE Stay
  BY <1>0, <1>1, <1>3
<1>4. ASSUME NEW o, NEW value, ByHand(o, value) PROVE Stay
  <2>1. o # "app" /\ live'["app"] = live["app"]
    BY <1>0, <1>4 DEF ByHand
  <2>2. QED
    BY <1>1, <2>1
<1>5. SUFFICES Stay
  OBVIOUS
<1> HIDE DEF Stay
<1>6. ASSUME NEW w \in Worker, Fails(w) PROVE Stay
  BY <1>1, <1>2, <1>6 DEF Fails
<1>7. CASE Others
  BY <1>1, <1>3, <1>4, <1>7 DEF Others, ChangeCluster, DamageCA, AppWrites, Remove, Damage
<1>8. ASSUME NEW w \in Worker, Goes(w) PROVE Stay
  BY <1>1, <1>2, <1>8 DEF Goes, Look, Call, Refused
<1>9. CASE BecomesReady
  BY <1>3, <1>9 DEF BecomesReady
<1>10. CASE Begin \/ Crash \/ UNCHANGED vars
  BY <1>1, <1>10 DEF Begin, Crash, vars
<1>11. ASSUME NEW s \in Session, BeginSession(s) PROVE Stay
  BY <1>1, <1>11 DEF BeginSession
<1>12. ASSUME NEW kind \in Kinds, CatchUp(kind) PROVE Stay
  BY <1>1, <1>12 DEF CatchUp
<1>13. QED
  BY <1>6, <1>7, <1>8, <1>9, <1>10, <1>11, <1>12 DEF Next

(* Once the app runs, no pass takes away or makes anew the key of the      *)
(* tokens or the users, though a pass writes the whole secret and may have *)
(* seen an old one in the cache.                                           *)
THEOREM KeysKeptHolds == NoneApart /\ Plenty => (Spec => KeysKept)
<1> SUFFICES ASSUME NoneApart, Plenty PROVE Spec => KeysKept
  OBVIOUS
<1> DEFINE Kept == \A k \in Key :
                     live["deployment"] # None /\ live["app"] # None /\ "app" \notin byHand'
                     => live'["app"] # None /\ live'["app"][k] = live["app"][k]
<1>1. KeysInv /\ [Next]_vars => Kept
  BY KeysStay
<1>2. KeysKept <=> [][Kept]_vars
  BY DEF KeysKept
<1> HIDE DEF Kept
<1>3. KeysInv /\ [Next]_vars => [Kept]_vars
  BY <1>1
<1>4. QED
  BY <1>2, <1>3, KeysInvariant, PTL DEF Spec

-----------------------------------------------------------------------------
(* Each object that the cluster has a step for is some step's.             *)
LEMMA StepsCover ==
    \A x \in Thing \cup Key \cup {"admin", "app", "ca", "server", "client"} :
      \E i \in 1..Len(ClusterSteps) : ClusterSteps[i] = x
<1>1. /\ Len(Roles) \in Nat /\ Len(Rbac) \in Nat /\ Len(ClusterSteps) = Len(Roles) + Len(Rbac) + 9
      /\ \A i \in 1..Len(ClusterSteps) : Laid(i)
  BY Layout
<1>2. ASSUME NEW i \in 1..3 PROVE ClusterSteps[i] = FirstSteps[i]
  BY <1>1 DEF Laid
<1>3. ASSUME NEW j \in 1..5 PROVE ClusterSteps[j + (PasswdStep + Len(Rbac))] = LastSteps[j]
  <2>1. Laid(j + (PasswdStep + Len(Rbac)))
    BY <1>1 DEF PasswdStep
  <2>2. QED
    BY <1>1, <2>1 DEF Laid, PasswdStep, CAStep
<1>4. ASSUME NEW j \in 1..Len(Roles) PROVE ClusterSteps[j + 3] = Roles[j]
  <2>1. Laid(j + 3)
    BY <1>1
  <2>2. QED
    BY <1>1, <2>1 DEF Laid
<1>5. ASSUME NEW j \in 1..Len(Rbac) PROVE ClusterSteps[j + PasswdStep] = Rbac[j]
  <2>1. Laid(j + PasswdStep)
    BY <1>1 DEF PasswdStep
  <2>2. QED
    BY <1>1, <2>1 DEF Laid, PasswdStep, CAStep
<1>6. ClusterSteps[PasswdStep] = "passwd"
  <2>1. Laid(PasswdStep)
    BY <1>1 DEF PasswdStep
  <2>2. QED
    BY <1>1, <2>1 DEF Laid, PasswdStep
<1>7. \A x \in {"admin", "app", "jwt"} : \E i \in 1..Len(ClusterSteps) : ClusterSteps[i] = x
  <2>1. \A x \in {"admin", "app", "jwt"} : \E i \in 1..3 : FirstSteps[i] = x
    BY DEF FirstSteps
  <2>2. QED
    BY <1>1, <1>2, <2>1
<1>8. \A x \in {"ca", "server", "client", "deployment", "service"} :
        \E i \in 1..Len(ClusterSteps) : ClusterSteps[i] = x
  <2>1. \A x \in {"ca", "server", "client", "deployment", "service"} : \E j \in 1..5 : LastSteps[j] = x
    BY DEF LastSteps
  <2>2. \A j \in 1..5 : j + (PasswdStep + Len(Rbac)) \in 1..Len(ClusterSteps)
    BY <1>1 DEF PasswdStep
  <2>3. QED
    BY <1>3, <2>1, <2>2
<1>9. \A j \in 1..Len(Roles) : j + 3 \in 1..Len(ClusterSteps)
  BY <1>1
<1>10. \A j \in 1..Len(Rbac) : j + PasswdStep \in 1..Len(ClusterSteps)
  BY <1>1 DEF PasswdStep
<1>11. DOMAIN Roles = 1..Len(Roles) /\ DOMAIN Rbac = 1..Len(Rbac)
  BY Layout
<1>12. ASSUME NEW x \in Thing \ {"deployment", "service"}
       PROVE  \E i \in 1..Len(ClusterSteps) : ClusterSteps[i] = x
  <2>1. (\E j \in 1..Len(Roles) : x = Roles[j]) \/ (\E j \in 1..Len(Rbac) : x = Rbac[j])
    BY <1>11 DEF Thing
  <2>2. ASSUME NEW j \in 1..Len(Roles), x = Roles[j] PROVE ClusterSteps[j + 3] = x
    BY <1>4, <2>2
  <2>3. ASSUME NEW j \in 1..Len(Rbac), x = Rbac[j] PROVE ClusterSteps[j + PasswdStep] = x
    BY <1>5, <2>3
  <2>4. QED
    BY <1>9, <1>10, <2>1, <2>2, <2>3
<1>13. PasswdStep \in 1..Len(ClusterSteps)
  BY <1>1 DEF PasswdStep
<1>14. QED
  BY <1>6, <1>7, <1>8, <1>12, <1>13 DEF Key

(* A worker's place is one of its steps.                                   *)
LEMMA PlacedStep == Shaped /\ Placed /\ [Next]_vars => Placed'
<1> SUFFICES ASSUME Shaped, Placed, [Next]_vars PROVE Placed'
  OBVIOUS
<1>0. \A w \in Worker : Len(StepsOf(w)) \in Nat /\ Len(StepsOf(w)) >= 1
  BY Layout DEF StepsOf, SessionSteps
<1>1. ASSUME NEW w \in Worker, NEW q, pass' = [pass EXCEPT ![w] = q],
             q = Idle \/ q.step \in 1..Len(StepsOf(w))
      PROVE  Placed'
  BY <1>1 DEF Placed, Shaped, StepsOf
<1>2. ASSUME NEW w \in Worker, NEW q, pass' = [pass EXCEPT ![w] = q], pass[w] # Idle,
             \/ q = Idle \/ q.step = pass[w].step
             \/ q.step = pass[w].step + 1 /\ pass[w].step # Len(StepsOf(w))
      PROVE  Placed'
  <2>1. pass[w].step \in 1..Len(StepsOf(w))
    BY <1>2 DEF Placed
  <2>2. q = Idle \/ q.step \in 1..Len(StepsOf(w))
    BY <1>0, <1>2, <2>1
  <2>3. QED
    BY <1>1, <1>2, <2>2
<1>3. ASSUME NEW w \in Worker, Requeue(w) PROVE Placed'
  <2>1. pass' = [pass EXCEPT ![w] = Idle]
    BY <1>3 DEF Requeue
  <2>2. QED
    BY <2>1 DEF Placed, Shaped
<1>4. CASE Begin
  <2> DEFINE q == NewPass(None)
  <2>1. q.step = 1
    BY DEF NewPass
  <2> HIDE DEF q
  <2>2. pass' = [pass EXCEPT !["cluster"] = q]
    BY <1>4 DEF Begin, q
  <2>3. "cluster" \in Worker
    BY DEF Worker
  <2>4. q.step \in 1..Len(StepsOf("cluster"))
    BY <1>0, <2>1, <2>3
  <2>5. QED
    BY <1>1, <2>2, <2>3, <2>4
<1>5. ASSUME NEW s \in Session, BeginSession(s) PROVE Placed'
  <2> DEFINE q == NewPass(s)
  <2>1. q.step = 1
    BY DEF NewPass
  <2> HIDE DEF q
  <2>2. pass' = [pass EXCEPT !["sessions"] = q]
    BY <1>5 DEF BeginSession, q
  <2>3. "sessions" \in Worker
    BY DEF Worker
  <2>4. q.step \in 1..Len(StepsOf("sessions"))
    BY <1>0, <2>1, <2>3
  <2>5. QED
    BY <1>1, <2>2, <2>3, <2>4
<1>6. ASSUME NEW w \in Worker, Look(w) PROVE Placed'
  <2>1. pass[w] # Idle
    BY <1>6 DEF Look, Looks, LookAdmin, LookApp, LookCA, LookDesktop, LookDeployment, LookService,
           LookKey, LookCert, LookThing
  <2>2. PICK q : pass' = [pass EXCEPT ![w] = q] /\ (q = Idle \/ GoneOn(q, w) \/ Planned(q, w))
    BY <1>6, Planning
  <2>3. QED
    BY <1>2, <2>1, <2>2 DEF GoneOn, Planned
<1>7. ASSUME NEW w \in Worker, Call(w) PROVE Placed'
  <2>1. pass[w] # Idle /\ (Requeue(w) \/ GoesOn(w, Learnt(w)))
    BY <1>7 DEF Call, Calls
  <2>2. CASE GoesOn(w, Learnt(w))
    <3>1. PICK q : /\ pass' = [pass EXCEPT ![w] = q]
                   /\ q = Idle \/ (q.step = pass[w].step + 1 /\ pass[w].step # Len(StepsOf(w)))
      BY <2>1, <2>2, GoneOnAfterCall
    <3>2. QED
      BY <1>2, <2>1, <3>1
  <2>3. QED
    BY <1>3, <2>1, <2>2
<1>8. ASSUME NEW w \in Worker, Refused(w) \/ Fails(w) PROVE Placed'
  BY <1>3, <1>8 DEF Refused, Fails
<1>9. CASE Crash
  BY <1>9 DEF Crash, Placed
<1>10. CASE Others
  BY <1>10 DEF Others, ChangeCluster, DamageCA, AppWrites, Remove, Damage, ByHand, Placed
<1>11. CASE BecomesReady \/ (\E kind \in Kinds : CatchUp(kind)) \/ UNCHANGED vars
  BY <1>11 DEF BecomesReady, CatchUp, vars, Placed
<1>12. QED
  BY <1>4, <1>5, <1>6, <1>7, <1>8, <1>9, <1>10, <1>11 DEF Next, Goes

-----------------------------------------------------------------------------
(* The objects the cluster hears nothing of are those of two kinds.        *)
Unheard == Thing \ Watched

(* An object that the cluster hears nothing of is as its last pass left it,*)
(* and that pass had no newer spec; the cache has seen it so or earlier.   *)
Made(o) == live[o] # None /\ (o \notin Once => live[o] = cached["cluster"])

SpecInHand == IF pass["cluster"] = Idle THEN cached["cluster"] ELSE pass["cluster"].spec

Behind ==
    /\ live["cluster"] \in Nat /\ cached["cluster"] \in Nat /\ cached["cluster"] <= live["cluster"]
    /\ live["replicas"] \in {0, 1} /\ cached["replicas"] \in {0, 1}
    /\ SpecInHand \in Nat /\ SpecInHand <= cached["cluster"]
    /\ \A o \in Unheard :
         /\ live[o] \in Nat \cup {None} /\ cached[o] \in Nat \cup {None}
         /\ live[o] # None => live[o] <= SpecInHand
         /\ o \notin byHand /\ cached[o] # None => live[o] # None /\ cached[o] <= live[o]

(* What a step leaves is in the cache, or will be news to it, and news of  *)
(* what the cluster owns queue it.                                         *)
Settled(x) ==
    /\ x = "admin" => "admin" \in unseen \/ cached["admin"] \notin {None, Bad}
    /\ x = "app" => "app" \in unseen \/ cached["app"] # None
    /\ x \in Key => "app" \in unseen \/ Has(cached, x)
    /\ x = "ca" => "app" \in unseen \/ CA(cached) \notin {None, Bad}
    /\ x \in {"server", "client"} => "app" \in unseen \/ x \in unseen \/ cached[x] = CA(cached)
    /\ x = "deployment" => "replicas" \in unseen \/ cached["replicas"] = 1
    /\ x \in Thing \cap Watched => x \in unseen \/ (cached[x] # None /\ cached[x] = cached["cluster"])
    /\ x \in Unheard => x \in byHand \/ Made(x)

(* The steps behind the pass over the cluster, all of them if there is none.*)
Past(i) == pass["cluster"] # Idle => i < pass["cluster"].step

(* If the cluster is not queued, the steps behind it are settled, and the  *)
(* pass has the spec and the CA that the cache has.                        *)
Settling ==
    ~queued =>
      /\ \A i \in 1..Len(ClusterSteps) : Past(i) => Settled(ClusterSteps[i])
      /\ SpecInHand = cached["cluster"]
      /\ pass["cluster"] # Idle /\ pass["cluster"].step > CAStep =>
           "app" \in unseen \/ pass["cluster"].ca = CA(cached)

RestInv == Placed /\ Behind /\ Settling

(* Idle is not taken for a pass.                                           *)
IdleApart == DOMAIN Idle # PassFields

(* What the cluster is told of, and what not.                              *)
LEMMA WatchedNames ==
    /\ Secret \cup {"cluster", "replicas", "deployment", "service"} \subseteq Watched
    /\ Watched \cup Unheard \subseteq Object /\ Unheard \subseteq Thing /\ Unheard \cap Watched = {}
    /\ Thing \cap (Key \cup Secret \cup Session \cup {"cluster", "replicas", "ca", "desktop"}) = {}
    /\ None \notin Object
<1>1. /\ Thing \cap (Key \cup Secret \cup Session \cup {"cluster", "replicas", "ca", "desktop"}) = {}
      /\ Once \cup Unowned \subseteq Thing \ {"deployment", "service"}
      /\ None \notin Object /\ {"deployment", "service"} \subseteq Thing
  BY ClusterAssumption DEF Thing
<1>2. QED
  BY <1>1 DEF Watched, Unheard, Object, Secret

(* What was settled remains so as long as nothing is news to the cluster.  *)
LEMMA SettledKept ==
    ASSUME NEW x, Settled(x),
           \A o \in Watched : cached'[o] = cached[o] /\ (o \in unseen => o \in unseen'),
           \A o \in Unheard : o \notin byHand' => o \notin byHand /\ (Made(o) => Made(o)')
    PROVE  Settled(x)'
<1>1. /\ \A o \in Secret \cup {"cluster", "replicas"} :
           cached'[o] = cached[o] /\ (o \in unseen => o \in unseen')
      /\ Secret = {"admin", "app", "server", "client"}
  BY WatchedNames DEF Secret
<1>2. CA(cached)' = CA(cached)
  BY <1>1 DEF CA
<1>3. \A k : Has(cached, k) => Has(cached, k)'
  BY <1>1 DEF Has
<1>4. x \in Unheard => x \in byHand' \/ Made(x)'
  BY DEF Settled
<1>5. x \in Thing \cap Watched =>
        x \in unseen' \/ (cached'[x] # None /\ cached'[x] = cached'["cluster"])
  BY <1>1 DEF Settled
<1> HIDE DEF Made
<1>6. QED
  BY <1>1, <1>2, <1>3, <1>4, <1>5 DEF Settled

(* A call leaves alone what the cluster hears nothing of, or brings it to  *)
(* the spec of the pass; what it changes otherwise is news.                *)
LEMMA EffectUnheard ==
    ASSUME Shaped, Placed, NEW w \in Worker, Calls(w), Accepted(w), Effect(w)
    PROVE  /\ \A o \in Unheard : live'[o] = live[o] \/ (w = "cluster" /\ live'[o] = pass["cluster"].spec)
           /\ live'["cluster"] = live["cluster"] /\ live'["replicas"] = live["replicas"]
           /\ StepOf(w) \in Unheard => live'[StepOf(w)] = pass[w].spec
<1> DEFINE step == StepOf(w)
           target == Target(w)
           value == CASE pass[w].does \in {"create", "update"} -> NewValue(w)
                      [] pass[w].does = "delete" -> None
                      [] OTHER -> Written(w)
<1>1. live' = [live EXCEPT ![target] = value] /\ DOMAIN live = Object
  BY DEF Effect, Shaped
<1>2. target = IF step = "desktop" THEN pass[w].session
               ELSE IF step \in Key \cup {"ca"} THEN "app" ELSE step
  BY DEF Target
<1>3. pass[w].session \in Session \cup {None} /\ pass[w].does \in DOMAIN DoneAt /\ step \in DoneAt[pass[w].does]
  BY DEF Shaped, Calls
<1>4. step \in Thing => w = "cluster" /\ pass[w].does \in {"create", "update", "delete"}
  <2>1. pass[w] # Idle
    BY DEF Calls
  <2>2. w = "sessions" => step \in {"app", "ca", "desktop"}
    BY <2>1, Places
  <2>3. step \in Thing => step \notin Key \cup {"ca", "app", "desktop"}
    BY WatchedNames DEF Secret
  <2>4. QED
    BY <1>3, <2>2, <2>3 DEF DoneAt, Worker
<1>5. step \in Unheard => pass[w].does \in {"create", "update"} /\ step \in Thing
  <2>1. step \in Unheard => step \notin {"admin", "server", "client", "service"}
    BY WatchedNames DEF Secret
  <2>2. QED
    BY <1>3, <1>4, <2>1, WatchedNames DEF DoneAt
<1>6. step \in Unheard => value = pass[w].spec
  <2>1. step \in Unheard => step \notin {"admin", "app", "server", "client", "desktop"}
    BY WatchedNames DEF Secret
  <2>2. QED
    BY <1>5, <2>1 DEF NewValue
<1>7. "cluster" \in Object /\ "replicas" \in Object /\ "app" \in Object
  BY DEF Object, Secret
<1>8. target \notin {"cluster", "replicas"}
  <2>1. Session \cap {"cluster", "replicas"} = {} /\ Thing \cap {"cluster", "replicas"} = {}
    BY ClusterAssumption
  <2>2. step \in Thing \cup Key \cup {"admin", "app", "server", "client", "desktop", "ca", "service"}
    BY <1>3 DEF DoneAt, Key
  <2>3. "service" \in Thing
    BY DEF Thing
  <2>4. None \notin {"cluster", "replicas"}
    BY <1>7, WatchedNames
  <2>5. QED
    BY <1>2, <1>3, <2>1, <2>2, <2>3, <2>4 DEF Key
<1>9. \A o \in Unheard : target = o => step = o
  <2>1. \A o \in Unheard : o \notin Session \cup {None, "app"}
    BY WatchedNames DEF Secret
  <2>2. QED
    BY <1>2, <1>3, <2>1
<1>10. step \in Unheard => target = step
  BY <1>2, WatchedNames
<1> HIDE DEF step, target, value
<1>11. ASSUME NEW o \in Unheard
       PROVE  live'[o] = live[o] \/ (w = "cluster" /\ live'[o] = pass["cluster"].spec)
  BY <1>1, <1>4, <1>5, <1>6, <1>9, <1>11, WatchedNames
<1>12. live'["cluster"] = live["cluster"] /\ live'["replicas"] = live["replicas"]
  BY <1>1, <1>7, <1>8
<1>13. step \in Unheard => live'[step] = pass[w].spec
  BY <1>1, <1>6, <1>10, WatchedNames
<1>14. QED
  BY <1>11, <1>12, <1>13 DEF step

(* What keeps the versions in order.                                       *)
LEMMA BehindKept ==
    ASSUME Behind,
           live'["cluster"] \in Nat, live["cluster"] <= live'["cluster"],
           cached'["cluster"] \in {cached["cluster"], live["cluster"]},
           live'["replicas"] \in {0, 1}, cached'["replicas"] \in {cached["replicas"], live["replicas"]},
           SpecInHand' \in {SpecInHand, cached'["cluster"]}, byHand \subseteq byHand',
           \A o \in Unheard :
             /\ cached'[o] \in {cached[o], live[o]}
             /\ live'[o] \in {live[o], SpecInHand} \/ (live'[o] = None /\ o \in byHand')
    PROVE  Behind'
<1>1. /\ live["cluster"] \in Nat /\ cached["cluster"] \in Nat /\ cached["cluster"] <= live["cluster"]
      /\ SpecInHand \in Nat /\ SpecInHand <= cached["cluster"]
  BY DEF Behind
<1>2. /\ cached'["cluster"] \in Nat /\ cached'["cluster"] <= live'["cluster"]
      /\ cached["cluster"] <= cached'["cluster"]
  BY <1>1
<1>3. SpecInHand' \in Nat /\ SpecInHand' <= cached'["cluster"] /\ SpecInHand <= SpecInHand'
  BY <1>1, <1>2
<1>4. live'["replicas"] \in {0, 1} /\ cached'["replicas"] \in {0, 1}
  BY DEF Behind
<1>5. None \notin Nat
  BY ClusterAssumption
<1>6. ASSUME NEW o \in Unheard
      PROVE  /\ live'[o] \in Nat \cup {None} /\ cached'[o] \in Nat \cup {None}
             /\ live'[o] # None => live'[o] <= SpecInHand'
             /\ o \notin byHand' /\ cached'[o] # None => live'[o] # None /\ cached'[o] <= live'[o]
  <2>1. /\ live[o] \in Nat \cup {None} /\ cached[o] \in Nat \cup {None}
        /\ live[o] # None => live[o] <= SpecInHand
        /\ o \notin byHand' /\ cached[o] # None => live[o] # None /\ cached[o] <= live[o]
    BY DEF Behind
  <2>2. /\ cached'[o] \in {cached[o], live[o]}
        /\ live'[o] \in {live[o], SpecInHand} \/ (live'[o] = None /\ o \in byHand')
    OBVIOUS
  <2> HIDE DEF SpecInHand
  <2>3. live'[o] \in Nat \cup {None} /\ cached'[o] \in Nat \cup {None}
    BY <1>1, <2>1, <2>2
  <2>4. live'[o] # None => live'[o] <= SpecInHand'
    BY <1>1, <1>3, <2>1, <2>2
  <2>5. o \notin byHand' /\ cached'[o] # None => live'[o] # None /\ cached'[o] <= live'[o]
    BY <1>1, <1>5, <2>1, <2>2
  <2>6. QED
    BY <2>3, <2>4, <2>5
<1>7. QED
  BY <1>2, <1>3, <1>4, <1>6 DEF Behind

(* A pass over the cluster that goes on from a settled step: it ends after *)
(* the last one, and keeps the spec and, once it has one, the CA.          *)
Onward(q, ca) ==
    IF pass["cluster"].step = Len(ClusterSteps) THEN q = Idle
    ELSE /\ q # Idle /\ q.step = pass["cluster"].step + 1 /\ q.spec = pass["cluster"].spec
         /\ q.ca = IF StepOf("cluster") = "ca" THEN ca ELSE pass["cluster"].ca

Stays(q) ==
    /\ q # Idle /\ q.step = pass["cluster"].step /\ q.spec = pass["cluster"].spec
    /\ q.ca = pass["cluster"].ca

(* A pass that goes on with p.                                             *)
LEMMA GoesOnward ==
    ASSUME IdleApart, NEW p, DOMAIN p = PassFields, p.step = pass["cluster"].step, p.spec = pass["cluster"].spec,
           NEW ca, p.ca = IF StepOf("cluster") = "ca" THEN ca ELSE pass["cluster"].ca,
           GoesOn("cluster", p)
    PROVE  /\ UNCHANGED queued
           /\ \E q : /\ pass' = [pass EXCEPT !["cluster"] = q]
                     /\ Onward(q, ca)
                     /\ q = Idle \/ q.spec = pass["cluster"].spec
<1> DEFINE q == [p EXCEPT !.step = @ + 1, !.does = "look", !.seen = None]
           r == IF p.step = Len(StepsOf("cluster")) THEN Idle ELSE q
<1>1. DOMAIN q = PassFields /\ q.step = p.step + 1 /\ q.spec = p.spec /\ q.ca = p.ca
  BY DEF PassFields
<1>2. pass' = [pass EXCEPT !["cluster"] = r] /\ UNCHANGED queued
  BY DEF GoesOn, Then
<1>3. q # Idle
  BY <1>1 DEF IdleApart
<1> HIDE DEF q
<1>4. Onward(r, ca)
  BY <1>1, <1>3 DEF Onward, StepsOf
<1>5. r = Idle \/ r.spec = pass["cluster"].spec
  BY <1>1
<1>6. QED
  BY <1>2, <1>4, <1>5

(* A look that queues nothing goes on from a settled step, or is followed  *)
(* by a call.                                                              *)
LEMMA LooksOn ==
    ASSUME IdleApart, Shaped, Placed, Behind, Settling, Look("cluster")
    PROVE  /\ queued => queued'
           /\ \E q : /\ pass' = [pass EXCEPT !["cluster"] = q]
                     /\ q = Idle \/ q.spec = pass["cluster"].spec
                     /\ ~queued' => Stays(q) \/ (Settled(StepOf("cluster")) /\ Onward(q, CA(cached)))
<1> DEFINE w == "cluster"
           p == pass[w]
           Result == /\ queued => queued'
                     /\ \E q : /\ pass' = [pass EXCEPT ![w] = q]
                               /\ q = Idle \/ q.spec = p.spec
                               /\ ~queued' => Stays(q) \/ (Settled(StepOf(w)) /\ Onward(q, CA(cached)))
<1>0. w \in Worker /\ p # Idle /\ p.does = "look" /\ DOMAIN p = PassFields
  BY DEF Look, Looks, LookAdmin, LookApp, LookCA, LookDesktop, LookDeployment, LookService,
         LookKey, LookCert, LookThing, Shaped, Worker
<1>1. ASSUME NEW q, DOMAIN q = PassFields, q.step = p.step, q.spec = p.spec,
             q.ca = IF StepOf(w) = "ca" THEN CA(cached) ELSE p.ca,
             GoesOn(w, q), ~queued' => Settled(StepOf(w))
      PROVE  Result
  BY <1>1, GoesOnward
<1>2. ASSUME NEW q, DOMAIN q = PassFields, q.step = p.step, q.spec = p.spec, q.ca = p.ca, Then(w, q)
      PROVE  Result
  <2>1. Stays(q)
    BY <1>2 DEF Stays, IdleApart
  <2>2. QED
    BY <1>2, <2>1 DEF Then
<1>3. ASSUME NEW d, Does(w, d) PROVE Result
  <2> DEFINE q == [p EXCEPT !.does = d]
  <2>1. DOMAIN q = PassFields /\ q.step = p.step /\ q.spec = p.spec /\ q.ca = p.ca
    BY <1>0 DEF PassFields
  <2>2. Then(w, q)
    BY <1>3 DEF Does
  <2> HIDE DEF q
  <2>3. QED
    BY <1>2, <2>1, <2>2
<1>4. ASSUME NEW o, Updates(w, o) PROVE Result
  <2> DEFINE q == [p EXCEPT !.does = "update", !.seen = cached[o]]
  <2>1. DOMAIN q = PassFields /\ q.step = p.step /\ q.spec = p.spec /\ q.ca = p.ca
    BY <1>0 DEF PassFields
  <2>2. Then(w, q)
    BY <1>4 DEF Updates
  <2> HIDE DEF q
  <2>3. QED
    BY <1>2, <2>1, <2>2
<1>5. ASSUME Requeue(w) PROVE Result
  <2>1. pass' = [pass EXCEPT ![w] = Idle] /\ queued'
    BY <1>5 DEF Requeue
  <2>2. QED
    BY <2>1
<1>6. ASSUME GoesOn(w, p), StepOf(w) # "ca", ~queued' => Settled(StepOf(w)) PROVE Result
  BY <1>0, <1>1, <1>6
<1>7. ASSUME UNCHANGED queued, ~queued'
      PROVE  /\ p.spec = cached["cluster"]
             /\ StepOf(w) \in {"server", "client"} => "app" \in unseen \/ p.ca = CA(cached)
  <2>1. ~queued /\ SpecInHand = p.spec
    BY <1>0, <1>7 DEF SpecInHand
  <2>2. p.spec = cached["cluster"] /\ (p.step > CAStep => "app" \in unseen \/ p.ca = CA(cached))
    BY <1>0, <2>1 DEF Settling
  <2>3. StepOf(w) \in {"server", "client"} => p.step > CAStep
    BY <1>0, Places DEF Named
  <2>4. QED
    BY <2>2, <2>3
<1>8. \A q : GoesOn(w, q) => UNCHANGED queued
  BY DEF GoesOn, Then
<1> HIDE DEF Result
<1>9. ASSUME LookAdmin(w) PROVE Result
  <2> DEFINE a == cached["admin"]
             q == [p EXCEPT !.password = a]
  <2>1. CASE a = None \/ a = Bad
    BY <1>3, <1>9, <2>1 DEF LookAdmin
  <2>2. CASE a \notin {None, Bad}
    <3>1. DOMAIN q = PassFields /\ q.step = p.step /\ q.spec = p.spec /\ q.ca = p.ca
      BY <1>0 DEF PassFields
    <3>2. StepOf(w) = "admin" /\ GoesOn(w, q)
      BY <1>9, <2>2 DEF LookAdmin, Looks
    <3>3. Settled("admin")
      BY <2>2, WatchedNames DEF Settled, Secret, Key
    <3> HIDE DEF q
    <3>4. QED
      BY <1>1, <3>1, <3>2, <3>3
  <2>3. QED
    BY <2>1, <2>2
<1>10. ASSUME LookApp(w) PROVE Result
  <2>1. StepOf(w) = "app" /\ (Does(w, "create") \/ (cached["app"] # None /\ GoesOn(w, p)))
    BY <1>10 DEF LookApp, Looks
  <2>2. cached["app"] # None => Settled("app")
    BY WatchedNames DEF Settled, Secret, Key
  <2>3. QED
    BY <1>3, <1>6, <2>1, <2>2
<1>11. ASSUME LookCA(w) PROVE Result
  <2> DEFINE q == [p EXCEPT !.ca = CA(cached)]
  <2>1. DOMAIN q = PassFields /\ q.step = p.step /\ q.spec = p.spec /\ q.ca = CA(cached)
    BY <1>0 DEF PassFields
  <2>2. /\ StepOf(w) = "ca"
        /\ \/ Requeue(w) \/ Does(w, "write") \/ Does(w, "clear")
           \/ CA(cached) \notin {None, Bad} /\ GoesOn(w, q)
    BY <1>11 DEF LookCA, Looks
  <2>3. CA(cached) \notin {None, Bad} => Settled("ca")
    BY WatchedNames DEF Settled, Secret, Key
  <2> HIDE DEF q
  <2>4. QED
    BY <1>1, <1>3, <1>5, <2>1, <2>2, <2>3
<1>12. ASSUME LookDesktop(w) PROVE Result
  <2>1. StepOf(w) = "desktop" /\ (Does(w, "create") \/ GoesOn(w, p))
    BY <1>12 DEF LookDesktop, Looks
  <2>2. Settled("desktop")
    BY WatchedNames DEF Settled, Key
  <2>3. QED
    BY <1>3, <1>6, <2>1, <2>2
<1>13. ASSUME LookDeployment(w) PROVE Result
  <2>1. /\ StepOf(w) = "deployment"
        /\ \/ Does(w, "create") \/ Updates(w, "deployment") \/ Requeue(w)
           \/ /\ cached["deployment"] # None /\ cached["deployment"] = p.spec
              /\ cached["replicas"] # 0 /\ GoesOn(w, p)
    BY <1>13 DEF LookDeployment, Looks, OutOfDate
  <2>2. cached["replicas"] # 0 => cached["replicas"] = 1
    BY DEF Behind
  <2>3. ASSUME cached["deployment"] # None, cached["deployment"] = cached["cluster"], cached["replicas"] = 1
        PROVE  Settled("deployment")
    BY <2>3, WatchedNames DEF Settled, Secret, Key
  <2>4. QED
    BY <1>3, <1>4, <1>5, <1>6, <1>7, <1>8, <2>1, <2>2, <2>3
<1>14. ASSUME LookService(w) PROVE Result
  <2>1. /\ StepOf(w) = "service"
        /\ \/ Does(w, "create") \/ Does(w, "delete")
           \/ cached["service"] # None /\ cached["service"] = p.spec /\ GoesOn(w, p)
    BY <1>14 DEF LookService, Looks, OutOfDate
  <2>2. ASSUME cached["service"] # None, cached["service"] = cached["cluster"] PROVE Settled("service")
    BY <2>2, WatchedNames DEF Settled, Secret, Key
  <2>3. QED
    BY <1>3, <1>6, <1>7, <1>8, <2>1, <2>2
<1>15. ASSUME NEW k \in Key, LookKey(w, k) PROVE Result
  <2>1. /\ StepOf(w) = k
        /\ Requeue(w) \/ Does(w, "write") \/ (Has(cached, k) /\ GoesOn(w, p))
    BY <1>15 DEF LookKey, Looks, Has
  <2>2. Has(cached, k) => Settled(k)
    BY WatchedNames DEF Settled, Key
  <2>3. k # "ca"
    BY DEF Key
  <2>4. QED
    BY <1>3, <1>5, <1>6, <2>1, <2>2, <2>3
<1>16. ASSUME NEW c \in {"server", "client"}, LookCert(w, c) PROVE Result
  <2>1. /\ StepOf(w) = c
        /\ Does(w, "create") \/ Does(w, "delete") \/ (cached[c] = p.ca /\ GoesOn(w, p))
    BY <1>16 DEF LookCert, Looks
  <2>2. "app" \in unseen \/ cached[c] = CA(cached) => Settled(c)
    BY WatchedNames DEF Settled, Secret, Key
  <2>3. QED
    BY <1>3, <1>6, <1>7, <1>8, <2>1, <2>2
<1>17. ASSUME NEW o \in Thing \ {"deployment", "service"}, LookThing(w, o) PROVE Result
  <2>1. /\ StepOf(w) = o
        /\ \/ Does(w, "create") \/ Updates(w, o)
           \/ /\ cached[o] # None /\ (o \notin Once => cached[o] = p.spec)
              /\ GoesOn(w, p)
    BY <1>17 DEF LookThing, Looks, OutOfDate
  <2>2. o \notin Key \cup Secret \cup {"ca", "deployment"} /\ (o \in Watched => o \notin Once)
    BY WatchedNames DEF Watched
  <2>3. ASSUME cached[o] # None, o \notin Once => cached[o] = p.spec, p.spec = cached["cluster"]
        PROVE  Settled(o)
    <3>1. o \in Unheard => o \in byHand \/ Made(o)
      <4>1. SUFFICES ASSUME o \in Unheard, o \notin byHand PROVE Made(o)
        OBVIOUS
      <4>2. /\ live[o] # None /\ live[o] \in Nat /\ cached[o] \in Nat
            /\ cached[o] <= live[o] /\ live[o] <= p.spec /\ p.spec \in Nat
        BY <1>0, <2>3, <4>1 DEF Behind, SpecInHand
      <4>3. QED
        BY <2>3, <4>2 DEF Made
    <3>2. QED
      BY <2>2, <2>3, <3>1 DEF Settled, Secret
  <2>4. QED
    BY <1>3, <1>4, <1>6, <1>7, <1>8, <2>1, <2>2, <2>3
<1>18. Result
  BY <1>9, <1>10, <1>11, <1>12, <1>13, <1>14, <1>15, <1>16, <1>17 DEF Look
<1>19. QED
  BY <1>18 DEF Result

(* A call that queues nothing settles its step: what it changed is news,   *)
(* or is nothing to be told of and as the spec has it.                     *)
LEMMA CallsOn ==
    ASSUME IdleApart, Shaped, Placed, Behind, Settling, Call("cluster")
    PROVE  /\ queued => queued'
           /\ \E q : /\ pass' = [pass EXCEPT !["cluster"] = q]
                     /\ q = Idle \/ q.spec = pass["cluster"].spec
                     /\ ~queued' => /\ \A x : x = StepOf("cluster") => Settled(x)'
                                    /\ \E ca : Onward(q, ca) /\ (StepOf("cluster") = "ca" => "app" \in unseen')
<1> DEFINE w == "cluster"
           p == pass[w]
           step == StepOf(w)
<1>0. w \in Worker /\ p # Idle /\ p.does # "look" /\ DOMAIN p = PassFields
      /\ p.does \in DOMAIN DoneAt /\ step \in DoneAt[p.does]
  BY DEF Call, Calls, Shaped, Worker
<1>1. CASE Again(w)
  <2>1. pass' = [pass EXCEPT ![w] = Idle] /\ queued'
    BY <1>1 DEF Call, Requeue
  <2>2. QED
    BY <2>1
<1>2. CASE ~Again(w)
  <2> DEFINE c == Learnt(w)
  <2>1. GoesOn(w, c)
    BY <1>2 DEF Call
  <2>2. DOMAIN c = PassFields /\ c.step = p.step /\ c.spec = p.spec
        /\ c.ca = IF step = "ca" THEN NewKey(w) ELSE p.ca
    BY <1>0 DEF Learnt, PassFields
  <2> HIDE DEF c
  <2>3. /\ UNCHANGED queued
        /\ \E q : /\ pass' = [pass EXCEPT ![w] = q]
                  /\ Onward(q, NewKey(w)) /\ (q = Idle \/ q.spec = p.spec)
    BY <2>1, <2>2, GoesOnward
  <2>4. /\ UNCHANGED <<cached, byHand>> /\ unseen' = unseen \cup {Target(w)}
        /\ step \in Unheard => live'[step] = p.spec
    BY <1>0, EffectUnheard DEF Call, Effect
  <2>5. /\ step \in Key \cup {"ca"} => Target(w) = "app"
        /\ step \notin Key \cup {"ca", "desktop"} => Target(w) = step
    BY DEF Target, Key
  <2>6. ASSUME ~queued' PROVE \A x : x = step => Settled(x)'
    <3>1. p.spec = cached["cluster"] /\ p.spec \in Nat
      BY <1>0, <2>3, <2>6 DEF Settling, SpecInHand, Behind
    <3>2. step \in Unheard => live'[step] # None /\ live'[step] = cached'["cluster"]
      BY <2>4, <3>1, ClusterAssumption
    <3>3. step = "deployment" => cached'["replicas"] = 1
      BY <1>2, <2>4, <2>5, WatchedNames DEF Again, Behind, Key
    <3>4. step \in Key \cup {"ca"} => "app" \in unseen'
      BY <2>4, <2>5
    <3>5. step \in Secret \cup Thing => step \in unseen'
      BY <2>4, <2>5, WatchedNames DEF Secret, Key
    <3>6. ASSUME NEW x, x = step PROVE Settled(x)'
      <4>1. x \in Unheard => x \in byHand' \/ Made(x)'
        BY <3>2, <3>6 DEF Made
      <4> HIDE DEF Made, step
      <4>2. QED
        BY <3>3, <3>4, <3>5, <3>6, <4>1 DEF Settled, Secret
    <3>7. QED
      BY <3>6
  <2>7. step = "ca" => "app" \in unseen'
    BY <2>4, <2>5
  <2>8. QED
    BY <2>3, <2>6, <2>7
<1>3. QED
  BY <1>1, <1>2

(* How a pass over the cluster leaves the steps behind it settled: where   *)
(* it stays, and where it goes on from one that now is settled too.        *)
LEMMA SettlingOn ==
    ASSUME Shaped, Placed, Settling, ~queued, pass["cluster"] # Idle, UNCHANGED cached,
           \A x : Settled(x) => Settled(x)', "app" \in unseen => "app" \in unseen',
           NEW q, pass' = [pass EXCEPT !["cluster"] = q],
           \/ Stays(q)
           \/ /\ \A x : x = StepOf("cluster") => Settled(x)'
              /\ \E ca : /\ Onward(q, ca)
                         /\ StepOf("cluster") = "ca" => "app" \in unseen' \/ ca = CA(cached)
    PROVE  Settling'
<1> DEFINE p == pass["cluster"]
           Known == p.step > CAStep => "app" \in unseen \/ p.ca = CA(cached)
<1>1. /\ p.step \in 1..Len(ClusterSteps) /\ Len(ClusterSteps) \in Nat /\ CAStep \in Nat
      /\ StepOf("cluster") = ClusterSteps[p.step]
      /\ p.step = CAStep <=> StepOf("cluster") = "ca"
  BY StepNames DEF Placed, StepsOf, StepOf, Worker, Named, CAStep
<1>2. /\ \A i \in 1..Len(ClusterSteps) : i < p.step => Settled(ClusterSteps[i])'
      /\ p.spec = cached["cluster"] /\ Known
  BY DEF Settling, Past, SpecInHand
<1>3. pass'["cluster"] = q /\ CA(cached') = CA(cached)
  BY DEF Shaped, Worker, CA
<1>4. CASE Stays(q)
  <2>1. \A i \in 1..Len(ClusterSteps) : Past(i)' => Settled(ClusterSteps[i])'
    BY <1>2, <1>3, <1>4 DEF Past, Stays
  <2>2. SpecInHand' = cached'["cluster"]
    BY <1>2, <1>3, <1>4 DEF SpecInHand, Stays
  <2>3. q.step > CAStep => "app" \in unseen' \/ q.ca = CA(cached')
    BY <1>2, <1>3, <1>4 DEF Stays
  <2> HIDE DEF Past, Settled, SpecInHand, CA
  <2>4. QED
    BY <1>3, <2>1, <2>2, <2>3 DEF Settling
<1>5. CASE /\ \A x : x = StepOf("cluster") => Settled(x)'
           /\ \E ca : /\ Onward(q, ca)
                      /\ StepOf("cluster") = "ca" => "app" \in unseen' \/ ca = CA(cached)
  <2>1. ASSUME NEW i \in 1..Len(ClusterSteps), i = p.step PROVE Settled(ClusterSteps[i])'
    BY <1>1, <1>5, <2>1
  <2>2. \A i \in 1..Len(ClusterSteps) : i <= p.step => Settled(ClusterSteps[i])'
    BY <1>1, <1>2, <2>1
  <2>3. PICK ca : /\ Onward(q, ca)
                  /\ StepOf("cluster") = "ca" => "app" \in unseen' \/ ca = CA(cached)
    BY <1>5
  <2>4. CASE p.step = Len(ClusterSteps)
    <3>1. q = Idle
      BY <2>3, <2>4 DEF Onward
    <3>2. \A i \in 1..Len(ClusterSteps) : Settled(ClusterSteps[i])'
      BY <1>1, <2>2, <2>4
    <3>3. SpecInHand' = cached'["cluster"]
      BY <1>3, <3>1 DEF SpecInHand
    <3>4. QED
      BY <1>3, <3>1, <3>2, <3>3 DEF Settling
  <2>5. CASE p.step # Len(ClusterSteps)
    <3>1. /\ q # Idle /\ q.step = p.step + 1 /\ q.spec = p.spec
          /\ q.ca = IF StepOf("cluster") = "ca" THEN ca ELSE p.ca
      BY <2>3, <2>5 DEF Onward
    <3>2. \A i \in 1..Len(ClusterSteps) : Past(i)' => Settled(ClusterSteps[i])'
      BY <1>1, <1>3, <2>2, <3>1 DEF Past
    <3>3. SpecInHand' = cached'["cluster"]
      BY <1>2, <1>3, <3>1 DEF SpecInHand
    <3>4. q.step > CAStep => "app" \in unseen' \/ q.ca = CA(cached')
      BY <1>1, <1>2, <1>3, <2>3, <3>1
    <3> HIDE DEF Past, Settled, SpecInHand, CA
    <3>5. QED
      BY <1>3, <3>2, <3>3, <3>4 DEF Settling
  <2>6. QED
    BY <2>4, <2>5
<1>6. QED
  BY <1>4, <1>5

(* And how what others do leaves them so.                                  *)
LEMMA SettlingKept ==
    ASSUME Shaped, Settling, pass'["cluster"] = pass["cluster"], ~queued' => ~queued,
           ~queued' => /\ \A o \in Watched : cached'[o] = cached[o] /\ (o \in unseen => o \in unseen')
                       /\ \A o \in Unheard : o \notin byHand' => o \notin byHand /\ (Made(o) => Made(o)')
    PROVE  Settling'
<1> SUFFICES ASSUME ~queued' PROVE Settling'
  BY DEF Settling
<1>1. \A i \in 1..Len(ClusterSteps) : Settled(ClusterSteps[i]) => Settled(ClusterSteps[i])'
  BY SettledKept
<1>2. /\ cached'["cluster"] = cached["cluster"] /\ CA(cached') = CA(cached)
      /\ "app" \in unseen => "app" \in unseen'
  BY WatchedNames DEF Secret, CA
<1>3. \A i \in 1..Len(ClusterSteps) : Past(i)' => Past(i)
  BY DEF Past
<1>4. SpecInHand' = cached'["cluster"]
  BY <1>2 DEF Settling, SpecInHand
<1>5. pass'["cluster"] # Idle /\ pass'["cluster"].step > CAStep =>
        "app" \in unseen' \/ pass'["cluster"].ca = CA(cached')
  BY <1>2 DEF Settling
<1> HIDE DEF Past, Settled, SpecInHand, CA, Made
<1>6. QED
  BY <1>1, <1>3, <1>4, <1>5 DEF Settling

(* What a look queues.                                                     *)
LEMMA LookQueues == \A w \in Worker : Look(w) => UNCHANGED queued \/ Requeue(w)
BY DEF Look, LookAdmin, LookApp, LookCA, LookDesktop, LookDeployment, LookService, LookKey, LookCert,
       LookThing, Does, Updates, GoesOn, Then

(* A step keeps what the manager's rest depends on.                        *)
LEMMA RestStep == IdleApart /\ Shaped /\ RestInv /\ [Next]_vars => RestInv'
<1> SUFFICES ASSUME IdleApart, Shaped, Placed, Behind, Settling, [Next]_vars PROVE RestInv'
  BY DEF RestInv
<1> DEFINE Kept == Behind' /\ Settling'
<1> SUFFICES Kept
  BY PlacedStep DEF RestInv
<1>0. /\ DOMAIN live = Object /\ DOMAIN pass = Worker /\ Worker = {"cluster", "sessions"}
      /\ live["cluster"] \in Nat /\ live["replicas"] \in {0, 1} /\ cached["replicas"] \in {0, 1}
      /\ {"cluster", "replicas"} \subseteq Object /\ Unheard \subseteq Object
  BY WatchedNames DEF Shaped, Worker, Behind, Object
<1>1. ASSUME NEW w \in Worker, UNCHANGED <<cached, byHand>>,
             UNCHANGED <<live, unseen>> \/ (Calls(w) /\ Accepted(w) /\ Effect(w)),
             SpecInHand' \in {SpecInHand, cached'["cluster"]}
      PROVE  Behind'
  <2>1. /\ \A o \in Unheard : live'[o] = live[o] \/ (w = "cluster" /\ live'[o] = pass["cluster"].spec)
        /\ live'["cluster"] = live["cluster"] /\ live'["replicas"] = live["replicas"]
        /\ w = "cluster" /\ ~UNCHANGED live => pass["cluster"] # Idle
    BY <1>1, EffectUnheard DEF Calls
  <2>2. \A o \in Unheard : live'[o] \in {live[o], SpecInHand}
    BY <2>1 DEF SpecInHand
  <2> HIDE DEF SpecInHand
  <2>3. QED
    BY <1>0, <1>1, <2>1, <2>2, BehindKept
<1>2. ASSUME NEW q, pass' = [pass EXCEPT !["cluster"] = q], UNCHANGED cached,
             q = Idle \/ (pass["cluster"] # Idle /\ q.spec = pass["cluster"].spec)
      PROVE  SpecInHand' \in {SpecInHand, cached'["cluster"]}
  BY <1>0, <1>2 DEF SpecInHand
<1>3. ASSUME pass'["cluster"] = pass["cluster"], UNCHANGED cached
      PROVE  SpecInHand' = SpecInHand
  BY <1>3 DEF SpecInHand
<1>4. ASSUME queued' PROVE Settling'
  BY <1>4 DEF Settling
<1>5. ASSUME UNCHANGED <<cached, byHand>>, queued => queued', pass'["cluster"] = pass["cluster"],
             \/ UNCHANGED <<live, unseen>>
             \/ Calls("sessions") /\ Accepted("sessions") /\ Effect("sessions")
      PROVE  Kept
  <2>1. /\ \A o \in Unheard : live'[o] = live[o]
        /\ \A o : o \in unseen => o \in unseen'
    BY <1>0, <1>5, EffectUnheard DEF Effect
  <2>2. \A o \in Unheard : Made(o) => Made(o)'
    BY <1>5, <2>1 DEF Made
  <2>3. Settling'
    BY <1>5, <2>1, <2>2, SettlingKept
  <2>4. Behind'
    BY <1>0, <1>1, <1>3, <1>5
  <2>5. QED
    BY <2>3, <2>4
<1>6. ASSUME NEW w \in Worker, Requeue(w), UNCHANGED <<cached, byHand>>,
             UNCHANGED <<live, unseen>> \/ (Calls(w) /\ Accepted(w) /\ Effect(w))
      PROVE  Kept
  <2>1. pass' = [pass EXCEPT ![w] = Idle] /\ queued' = (queued \/ w = "cluster")
    BY <1>6 DEF Requeue
  <2>2. CASE w = "cluster"
    <3>1. SpecInHand' \in {SpecInHand, cached'["cluster"]}
      BY <1>2, <1>6, <2>1, <2>2
    <3>2. Behind'
      BY <1>1, <1>6, <3>1
    <3>3. QED
      BY <1>4, <2>1, <2>2, <3>2
  <2>3. CASE w = "sessions"
    <3>1. pass'["cluster"] = pass["cluster"] /\ (queued => queued')
      BY <1>0, <2>1, <2>3
    <3>2. QED
      BY <1>5, <1>6, <2>3, <3>1
  <2>4. QED
    BY <1>0, <2>2, <2>3
<1>7. ASSUME UNCHANGED <<cached, queued, pass>>, byHand \subseteq byHand', \A o : o \in unseen => o \in unseen',
              live'["cluster"] \in Nat, live["cluster"] <= live'["cluster"], live'["replicas"] \in {0, 1},
              \A o \in Unheard : live'[o] = live[o] \/ (live'[o] = None /\ o \in byHand')
       PROVE  Kept
  <2>1. SpecInHand' = SpecInHand
    BY <1>3, <1>7
  <2> HIDE DEF SpecInHand
  <2>2. Behind'
    BY <1>0, <1>7, <2>1, BehindKept
  <2>3. \A o \in Unheard : o \notin byHand' => o \notin byHand /\ (Made(o) => Made(o)')
    BY <1>7 DEF Made
  <2>4. Settling'
    BY <1>7, <2>3, SettlingKept
  <2>5. QED
    BY <2>2, <2>4
<1> HIDE DEF Kept
<1>8. CASE Look("cluster")
  <2>1. /\ UNCHANGED <<live, cached, unseen, byHand>> /\ pass["cluster"] # Idle /\ "cluster" \in Worker
    BY <1>8 DEF Look, Looks, LookAdmin, LookApp, LookCA, LookDesktop, LookDeployment, LookService,
           LookKey, LookCert, LookThing, History, Worker
  <2>2. PICK q : /\ pass' = [pass EXCEPT !["cluster"] = q]
                 /\ q = Idle \/ q.spec = pass["cluster"].spec
                 /\ ~queued' => Stays(q) \/ (Settled(StepOf("cluster")) /\ Onward(q, CA(cached)))
    BY <1>8, LooksOn
  <2>3. Behind'
    BY <1>1, <1>2, <2>1, <2>2
  <2>4. \A x : Settled(x) => Settled(x)'
    BY <2>1 DEF Settled, Made, Has, CA
  <2>5. ASSUME ~queued' PROVE Settling'
    <3>1. ~queued
      BY <1>8, <2>5, LooksOn
    <3>2. Stays(q) \/ (Settled(StepOf("cluster")) /\ Onward(q, CA(cached)))
      BY <2>2, <2>5
    <3>3. Settled(StepOf("cluster")) => \A x : x = StepOf("cluster") => Settled(x)'
      BY <2>4
    <3>4. QED
      BY <2>1, <2>2, <2>4, <3>1, <3>2, <3>3, SettlingOn
  <2>6. QED
    BY <1>4, <2>3, <2>5 DEF Kept
<1>9. CASE Call("cluster")
  <2>1. /\ UNCHANGED <<cached, byHand>> /\ pass["cluster"] # Idle /\ "cluster" \in Worker
        /\ Calls("cluster") /\ Accepted("cluster") /\ Effect("cluster")
        /\ \A o : o \in unseen => o \in unseen'
    BY <1>9 DEF Call, Calls, Effect, Worker
  <2>2. PICK q : /\ pass' = [pass EXCEPT !["cluster"] = q]
                 /\ q = Idle \/ q.spec = pass["cluster"].spec
                 /\ ~queued' => /\ \A x : x = StepOf("cluster") => Settled(x)'
                                /\ \E ca : Onward(q, ca) /\ (StepOf("cluster") = "ca" => "app" \in unseen')
    BY <1>9, CallsOn
  <2>3. Behind'
    BY <1>1, <1>2, <2>1, <2>2
  <2>4. ASSUME ~queued' PROVE Settling'
    <3>1. ~queued
      BY <1>9, <2>4, CallsOn
    <3>2. pass["cluster"].spec = cached["cluster"] /\ pass["cluster"].spec \in Nat
      BY <2>1, <3>1 DEF Settling, SpecInHand, Behind
    <3>3. \A o \in Unheard : Made(o) => Made(o)'
      <4>1. \A o \in Unheard : live'[o] = live[o] \/ live'[o] = pass["cluster"].spec
        BY <2>1, EffectUnheard
      <4>2. QED
        BY <2>1, <3>2, <4>1, ClusterAssumption DEF Made
    <3>4. \A x : Settled(x) => Settled(x)'
      BY <2>1, <3>3, SettledKept
    <3>5. QED
      BY <2>1, <2>2, <2>4, <3>1, <3>4, SettlingOn
  <2>5. QED
    BY <1>4, <2>3, <2>4 DEF Kept
<1>10. CASE Look("sessions")
  <2>1. UNCHANGED <<live, cached, unseen, byHand>> /\ "sessions" \in Worker
    BY <1>10 DEF Look, History, Worker
  <2>2. PICK q : pass' = [pass EXCEPT !["sessions"] = q]
    BY <1>10, <2>1, Planning
  <2>3. queued => queued'
    BY <1>10, <2>1, LookQueues DEF Requeue
  <2>4. pass'["cluster"] = pass["cluster"]
    BY <1>0, <2>2
  <2>5. QED
    BY <1>5, <2>1, <2>3, <2>4
<1>11. CASE Call("sessions")
  <2>1. /\ UNCHANGED <<cached, byHand>> /\ "sessions" \in Worker
        /\ Calls("sessions") /\ Accepted("sessions") /\ Effect("sessions")
        /\ Requeue("sessions") \/ GoesOn("sessions", Learnt("sessions"))
    BY <1>11 DEF Call, Worker
  <2>2. CASE Requeue("sessions")
    BY <1>6, <2>1, <2>2
  <2>3. CASE GoesOn("sessions", Learnt("sessions"))
    <3>1. pass'["cluster"] = pass["cluster"] /\ UNCHANGED queued
      BY <1>0, <2>3 DEF GoesOn, Then
    <3>2. QED
      BY <1>5, <2>1, <3>1
  <2>4. QED
    BY <2>1, <2>2, <2>3
<1>12. ASSUME NEW w \in Worker, Refused(w) PROVE Kept
  BY <1>6, <1>12 DEF Refused, History
<1>13. ASSUME NEW w \in Worker, Fails(w) PROVE Kept
  BY <1>6, <1>13 DEF Fails
<1>14. CASE Begin
  <2> DEFINE q == NewPass(None)
  <2>1. q.step = 1 /\ q.spec = cached["cluster"]
    BY DEF NewPass
  <2>2. /\ pass' = [pass EXCEPT !["cluster"] = q]
        /\ pass["cluster"] = Idle /\ UNCHANGED <<live, cached, unseen, byHand>>
    BY <1>14 DEF Begin, History
  <2>3. DOMAIN q = PassFields
    BY DEF NewPass, PassFields
  <2> HIDE DEF q
  <2>4. pass'["cluster"] = q /\ q # Idle
    BY <1>0, <2>2, <2>3 DEF IdleApart
  <2>5. SpecInHand' = cached'["cluster"]
    BY <2>1, <2>2, <2>4 DEF SpecInHand
  <2>6. Behind'
    BY <1>0, <1>1, <2>2, <2>5
  <2>7. Settling'
    <3>1. CAStep \in Nat /\ CAStep >= 1
      BY StepNames DEF CAStep
    <3>2. \A i \in 1..Len(ClusterSteps) : ~Past(i)'
      BY <2>1, <2>4, StepNames DEF Past
    <3> HIDE DEF Past, Settled, SpecInHand
    <3>3. QED
      BY <2>1, <2>4, <2>5, <3>1, <3>2 DEF Settling
  <2>8. QED
    BY <2>6, <2>7 DEF Kept
<1>15. ASSUME NEW s \in Session, BeginSession(s) PROVE Kept
  <2>1. /\ UNCHANGED <<live, cached, unseen, byHand, queued>> /\ \E q : pass' = [pass EXCEPT !["sessions"] = q]
    BY <1>15 DEF BeginSession, History
  <2>2. pass'["cluster"] = pass["cluster"]
    BY <1>0, <2>1
  <2>3. QED
    BY <1>5, <2>1, <2>2
<1>16. CASE BecomesReady
  <2>1. /\ live' = [live EXCEPT !["replicas"] = 1] /\ UNCHANGED <<cached, queued, pass, byHand>>
        /\ \A o : o \in unseen => o \in unseen'
    BY <1>16 DEF BecomesReady, History
  <2>2. /\ live'["replicas"] = 1 /\ live'["cluster"] = live["cluster"]
        /\ \A o \in Unheard : live'[o] = live[o]
    BY <1>0, <2>1, WatchedNames
  <2>3. QED
    BY <1>0, <1>7, <2>1, <2>2
<1>17. CASE Others
  <2>1. CASE ChangeCluster
    <3>1. /\ live' = [live EXCEPT !["cluster"] = @ + 1] /\ UNCHANGED <<cached, queued, pass, byHand>>
          /\ \A o : o \in unseen => o \in unseen'
      BY <2>1 DEF ChangeCluster, History
    <3>2. /\ live'["cluster"] = live["cluster"] + 1 /\ live'["replicas"] = live["replicas"]
          /\ \A o \in Unheard : live'[o] = live[o]
      BY <1>0, <3>1, WatchedNames
    <3>3. QED
      BY <1>0, <1>7, <3>1, <3>2
  <2>2. ASSUME NEW o \in Secret \cup Thing, NEW value, ByHand(o, value), o \in Thing => value = None PROVE Kept
    <3>1. /\ live' = [live EXCEPT ![o] = value, !["replicas"] = IF o = "deployment" THEN 0 ELSE @]
          /\ byHand' = byHand \cup {o} /\ UNCHANGED <<cached, queued, pass>>
          /\ \A x : x \in unseen => x \in unseen'
      BY <2>2 DEF ByHand
    <3>2. o \notin {"cluster", "replicas"} /\ o \in Object
      BY WatchedNames DEF Object, Secret
    <3>3. /\ live'["cluster"] = live["cluster"] /\ live'["replicas"] \in {0, 1}
          /\ \A x \in Unheard : live'[x] = IF x = o THEN value ELSE live[x]
      BY <1>0, <3>1, <3>2, WatchedNames
    <3>4. \A x \in Unheard : live'[x] = live[x] \/ (live'[x] = None /\ x \in byHand')
      BY <2>2, <3>1, <3>3, WatchedNames
    <3>5. QED
      BY <1>0, <1>7, <3>1, <3>3, <3>4
  <2>3. CASE DamageCA
    BY <2>2, <2>3, WatchedNames DEF DamageCA, Secret
  <2>4. CASE AppWrites
    <3>1. UNCHANGED <<live, cached, queued, pass, byHand>> /\ \A o : o \in unseen => o \in unseen'
      BY <2>4 DEF AppWrites, History
    <3>2. QED
      BY <1>0, <1>7, <3>1
  <2>5. ASSUME NEW o \in Secret \cup Thing, Remove(o) PROVE Kept
    BY <2>2, <2>5 DEF Remove
  <2>6. ASSUME NEW o \in {"admin", "server", "client"}, Damage(o) PROVE Kept
    BY <2>2, <2>6, WatchedNames DEF Damage, Secret
  <2>7. QED
    BY <1>17, <2>1, <2>3, <2>4, <2>5, <2>6 DEF Others
<1>18. CASE Crash
  <2>1. /\ cached' = live /\ queued' /\ UNCHANGED <<live, byHand>>
        /\ pass' = [w \in Worker |-> Idle]
    BY <1>18 DEF Crash, History
  <2>2. SpecInHand' = cached'["cluster"]
    BY <1>0, <2>1 DEF SpecInHand
  <2>3. Behind'
    BY <1>0, <2>1, <2>2, BehindKept
  <2>4. QED
    BY <1>4, <2>1, <2>3 DEF Kept
<1>19. ASSUME NEW kind \in Kinds, CatchUp(kind) PROVE Kept
  <2> DEFINE news == unseen \cap kind
  <2>1. /\ cached' = [o \in Object |-> IF o \in news THEN live[o] ELSE cached[o]]
        /\ unseen' = unseen \ news /\ queued' = (queued \/ news \cap Watched # {})
        /\ UNCHANGED <<live, pass, byHand>>
    BY <1>19 DEF CatchUp, History
  <2>2. \A o \in Object : cached'[o] \in {cached[o], live[o]}
    BY <2>1
  <2>3. SpecInHand' \in {SpecInHand, cached'["cluster"]}
    BY <2>1 DEF SpecInHand
  <2>4. Behind'
    BY <1>0, <2>1, <2>2, <2>3, BehindKept
  <2>5. Settling'
    <3>1. SUFFICES ASSUME ~queued' PROVE Settling'
      BY <1>4
    <3>2. ~queued /\ news \cap Watched = {}
      BY <2>1, <3>1
    <3>3. \A o \in Watched : cached'[o] = cached[o] /\ (o \in unseen => o \in unseen')
      BY <2>1, <3>2, WatchedNames
    <3>4. \A o \in Unheard : Made(o) => Made(o)'
      BY <2>1, <3>3, WatchedNames DEF Made
    <3>5. QED
      BY <2>1, <3>2, <3>3, <3>4, SettlingKept
  <2>6. QED
    BY <2>4, <2>5 DEF Kept
<1>20. CASE UNCHANGED vars
  <2>1. UNCHANGED <<live, cached, unseen, queued, pass, byHand>>
    BY <1>20 DEF vars, History
  <2>2. QED
    BY <1>0, <1>7, <2>1
<1>21. QED
  BY <1>0, <1>8, <1>9, <1>10, <1>11, <1>12, <1>13, <1>14, <1>15, <1>16, <1>17, <1>18, <1>19, <1>20
  DEF Next, Goes

(* The inductive invariant: what a pass leaves behind it is as it should   *)
(* be, or the cluster is queued, or there is news that will queue it.      *)
THEOREM RestInvariant == NoneApart /\ IdleApart => (Spec => []RestInv)
<1> SUFFICES ASSUME NoneApart, IdleApart PROVE Spec => []RestInv
  OBVIOUS
<1>1. Init => RestInv
  <2>1. SUFFICES ASSUME Init PROVE RestInv
    OBVIOUS
  <2>2. /\ cached = live /\ queued /\ \A w \in Worker : pass[w] = Idle
        /\ live["cluster"] = 0 /\ live["replicas"] = 0
    BY <2>1 DEF Init, Object
  <2>3. \A o \in Unheard : live[o] = None
    BY <2>1, WatchedNames DEF Init
  <2>4. SpecInHand = 0
    BY <2>2 DEF SpecInHand, Worker
  <2>5. Behind
    BY <2>2, <2>3, <2>4 DEF Behind
  <2>6. QED
    BY <2>2, <2>5 DEF RestInv, Placed, Settling
<1>2. Spec => []SignedInv
  BY SignedInvariant
<1>3. SignedInv => Shaped
  BY DEF SignedInv
<1>4. RestInv /\ Shaped /\ [Next]_vars => RestInv'
  BY RestStep
<1>5. QED
  BY <1>1, <1>2, <1>3, <1>4, PTL DEF Spec

(* The manager rests, with no pass queued or under way and nothing to hear *)
(* of, only when all is as it should be, whatever failed or was changed.   *)
THEOREM RestsWhenDoneHolds == NoneApart /\ IdleApart => (Spec => []RestsWhenDone)
<1> SUFFICES ASSUME NoneApart, IdleApart PROVE Spec => []RestsWhenDone
  OBVIOUS
<1>1. SignedInv /\ RestInv => RestsWhenDone
  <2>1. SUFFICES ASSUME Shaped, RestInv, pass["cluster"] = Idle, ~queued, unseen = {}
                 PROVE  Done
    BY DEF SignedInv, RestsWhenDone
  <2>2. \A i \in 1..Len(ClusterSteps) : Settled(ClusterSteps[i])
    BY <2>1 DEF RestInv, Settling, Past
  <2>3. \A x \in Thing \cup Key \cup {"admin", "app", "ca", "server", "client"} : Settled(x)
    BY <2>2, StepsCover
  <2>4. \A o \in Object : cached[o] = live[o]
    BY <2>1 DEF Shaped
  <2>5. CA(cached) = CA(live) /\ \A k : Has(cached, k) => Has(live, k)
    BY <2>4, Names DEF CA, Has
  <2>6. live["admin"] \notin {None, Bad} /\ live["app"] # None
    BY <2>1, <2>3, <2>4 DEF Settled, Object, Secret
  <2>7. \A k \in Key : live["app"][k] # None
    BY <2>1, <2>3, <2>5 DEF Settled, Has
  <2>8. CA(live) \notin {None, Bad}
    BY <2>1, <2>3, <2>5 DEF Settled
  <2>9. \A c \in {"server", "client"} : live[c] = CA(live)
    BY <2>1, <2>3, <2>4, <2>5 DEF Settled, Object, Secret
  <2>10. live["replicas"] = 1
    <3>1. "deployment" \in Thing /\ "replicas" \in Object
      BY DEF Thing, Object
    <3>2. Settled("deployment")
      BY <2>3, <3>1
    <3>3. QED
      BY <2>1, <2>4, <3>1, <3>2 DEF Settled
  <2>11. ASSUME NEW o \in Thing, o \in Watched \ Once \/ o \notin byHand
         PROVE  live[o] # None /\ (o \notin Once => live[o] = live["cluster"])
    <3>1. Settled(o) /\ o \in Object /\ "cluster" \in Object
      BY <2>3 DEF Object
    <3>2. CASE o \in Watched
      BY <2>1, <2>4, <3>1, <3>2 DEF Settled
    <3>3. CASE o \notin Watched
      BY <2>4, <2>11, <3>1, <3>3 DEF Settled, Made, Unheard
    <3>4. QED
      BY <3>2, <3>3
  <2>12. QED
    BY <2>6, <2>7, <2>8, <2>9, <2>10, <2>11 DEF Done
<1>2. QED
  BY <1>1, SignedInvariant, RestInvariant, PTL

=============================================================================
