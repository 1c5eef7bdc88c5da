-------------------------- MODULE UserdataVolumes --------------------------
(***************************************************************************)
(* The home volumes of desktop sessions, as the session controller of      *)
(* pkg/resources/desktop keeps them when the cluster has a userdataSpec: a *)
(* claim per user and namespace, a volume bound to it, and a ConfigMap     *)
(* that records the volume of each user, so that the next session gets it  *)
(* back after the claim of the last one is gone.                           *)
(*                                                                         *)
(* The manager runs one worker for all sessions. Between any two of its    *)
(* calls the API deletes sessions, pods start and stop, the garbage        *)
(* collector deletes what a session owned, and the volume controller binds *)
(* and releases volumes. A pass that an error ends is begun again.         *)
(***************************************************************************)
EXTENDS Naturals, FiniteSets

CONSTANTS User, Namespace,
          MaxSessions, \* bound: sessions, each name used once
          UserOf, NamespaceOf,
          None, Absent, Released,
          RetainPVCs,  \* userdataSpec.retainPVCs
          MaxVolumes,  \* bound: volumes the provisioner makes
          MaxFaults,   \* bound: calls that fail and crashes of the manager
          MaxLost      \* bound: volumes an administrator deletes

Session == 1..MaxSessions
Volume  == 1..MaxVolumes
Key     == Namespace \X User   \* one claim name for each user, in a namespace

(* spec.volumeName, the binding, the deletion timestamp and the owner. *)
Claim == [vol : Volume \cup {None}, bound : BOOLEAN, deleting : BOOLEAN,
          owner : Session \cup {None}]

(* A volume that has lost its claim but still refers to it is Released.   *)
PV == [policy : {"Delete", "Retain"}, claim : Key \cup {None, Released}]

ASSUME VolumesAssumption ==
    /\ UserOf \in [Session -> User] /\ NamespaceOf \in [Session -> Namespace]
    /\ RetainPVCs \in BOOLEAN
    /\ MaxSessions \in Nat /\ MaxVolumes \in Nat
    /\ MaxFaults \in Nat /\ MaxLost \in Nat
    /\ None \notin Volume \cup Key \cup Session /\ Released \notin Key \cup {None}
    /\ Absent \notin Claim \cup PV

VARIABLES session,    \* life of each Session object
          finalizer,  \* sessions with the userdata-reclaim finalizer
          pod,        \* the pod of each session
          claim,      \* the PersistentVolumeClaims
          pv, made,   \* the PersistentVolumes, and how many were made
          volMap,     \* the ConfigMap that maps users to volumes
          worker,     \* the pass the manager is in
          home,       \* history: volumes a user's sessions have run on
          early,      \* history: users who lost a session without finalizer
          faults, lost

vars == <<session, finalizer, pod, claim, pv, made, volMap, worker, home, early, faults, lost>>
cluster == <<session, finalizer, pod, claim, pv, made, volMap>>
history == <<home, early, faults, lost>>

Live == {"volumes", "pod", "free", "record", "finalize", "report"}
Reclaiming == {"reclaimPod", "reclaimClaim", "reclaimVolume", "release"}
Worker == [at : {"idle"} \cup Live \cup Reclaiming,
           on : Session \cup {None}, vol : Volume \cup {None}]

TypeOK ==
    /\ session \in [Session -> {"new", "live", "deleting", "gone"}]
    /\ finalizer \subseteq Session
    /\ pod \in [Session -> {"none", "pending", "running", "stopping"}]
    /\ claim \in [Key -> Claim \cup {Absent}]
    /\ pv \in [Volume -> PV \cup {Absent}] /\ made \in 0..MaxVolumes
    /\ volMap \in [User -> Volume \cup {None}]
    /\ worker \in Worker
    /\ worker.at \in {"record", "finalize", "report"} => worker.vol # None
    /\ home \in [User -> SUBSET Volume] /\ early \subseteq User
    /\ faults \in Nat /\ lost \in Nat

Freed == [policy |-> "Retain", claim |-> None]
Idle == [at |-> "idle", on |-> None, vol |-> None]

(* Some users had sessions before these, which have ended: a free volume   *)
(* of their own is recorded for each.                                      *)
Init ==
    /\ session = [s \in Session |-> "new"] /\ finalizer = {}
    /\ pod = [s \in Session |-> "none"]
    /\ claim = [k \in Key |-> Absent]
    /\ worker = Idle
    /\ made \in 0..MaxVolumes
    /\ pv = [v \in Volume |-> IF v <= made THEN Freed ELSE Absent]
    /\ volMap \in [User -> 1..made \cup {None}]
    /\ \A v \in 1..made : \E u \in User : volMap[u] = v
    /\ \A u, w \in User : volMap[u] # None /\ volMap[u] = volMap[w] => u = w
    /\ home = [u \in User |-> {volMap[u]} \ {None}]
    /\ early = {} /\ faults = 0 /\ lost = 0

KeyOf(s) == <<NamespaceOf[s], UserOf[s]>>
Exists(v) == v \in Volume /\ pv[v] # Absent

-----------------------------------------------------------------------------
(* The API server, on behalf of users. The names of the sessions of a user *)
(* in a namespace are made up, and given out in order.                     *)
Start(s) ==
    /\ session[s] = "new"
    /\ \A t \in Session : t < s /\ KeyOf(t) = KeyOf(s) => session[t] # "new"
    /\ session' = [session EXCEPT ![s] = "live"]
    /\ UNCHANGED <<finalizer, pod, claim, pv, made, volMap, worker, history>>

(* A session without the finalizer is gone at once. *)
Delete(s) ==
    /\ session[s] = "live"
    /\ session' = [session EXCEPT ![s] = IF s \in finalizer THEN "deleting" ELSE "gone"]
    /\ early' = IF s \in finalizer THEN early ELSE early \cup {UserOf[s]}
    /\ UNCHANGED <<finalizer, pod, claim, pv, made, volMap, worker, home, faults, lost>>

-----------------------------------------------------------------------------
(* A pass over a live session. *)

At(s, l) == worker.at = l /\ worker.on = s
Goto(l)  == worker' = [worker EXCEPT !.at = l]
Requeue  == worker' = Idle

Begin(s) ==
    /\ worker.at = "idle" /\ session[s] \in {"live", "deleting"}
    /\ worker' = [Idle EXCEPT !.on = s,
                              !.at = IF session[s] = "live" THEN "volumes" ELSE "reclaimPod"]
    /\ UNCHANGED <<cluster, history>>

(* Broken ExistingVol: the map of volumes is not looked at. *)
AlwaysNewVol(u) == None

(* The volume that newPVCForUser asks for: the recorded one, if it exists. *)
ExistingVol(u) == IF Exists(volMap[u]) THEN volMap[u] ELSE None

(* reconcileVolumes leaves a claim alone that is there, whatever its state. *)
ReconcileVolumes(s) ==
    LET k == KeyOf(s) IN
    /\ At(s, "volumes")
    /\ claim' = IF claim[k] # Absent THEN claim
                ELSE [claim EXCEPT ![k] =
                        [vol |-> ExistingVol(UserOf[s]), bound |-> FALSE, deleting |-> FALSE,
                         owner |-> IF RetainPVCs THEN None ELSE s]]
    /\ Goto("pod")
    /\ UNCHANGED <<session, finalizer, pod, pv, made, volMap, history>>

(* reconcile.Pod and the wait for the pod: anything but a running pod ends *)
(* the pass, to be tried again.                                            *)
ReconcilePod(s) ==
    /\ At(s, "pod")
    /\ IF pod[s] = "running" THEN Goto("free") ELSE Requeue
    /\ pod' = IF pod[s] = "none" THEN [pod EXCEPT ![s] = "pending"] ELSE pod
    /\ UNCHANGED <<session, finalizer, claim, pv, made, volMap, history>>

(* Broken FreeVolume: the claim is taken off, the reclaim policy is left.  *)
FreeKeepsPolicy(s) ==
    LET c == claim[KeyOf(s)] IN
    /\ At(s, "free")
    /\ IF c # Absent /\ Exists(c.vol)
         THEN /\ pv' = [pv EXCEPT ![c.vol].claim = None]
              /\ worker' = [worker EXCEPT !.at = "record", !.vol = c.vol]
         ELSE pv' = pv /\ Requeue
    /\ UNCHANGED <<session, finalizer, pod, claim, made, volMap, history>>

(* reconcileUserdataMapping: freePV makes the volume outlive its claim and *)
(* takes the reference to the claim away, under the running session.       *)
FreeVolume(s) ==
    LET c == claim[KeyOf(s)] IN
    /\ At(s, "free")
    /\ IF c # Absent /\ Exists(c.vol)
         THEN /\ pv' = [pv EXCEPT ![c.vol] = Freed]
              /\ worker' = [worker EXCEPT !.at = "record", !.vol = c.vol]
         ELSE pv' = pv /\ Requeue
    /\ UNCHANGED <<session, finalizer, pod, claim, made, volMap, history>>

(* The update of the map that ends reconcileUserdataMapping. *)
RecordVolume(s) ==
    /\ At(s, "record")
    /\ volMap' = [volMap EXCEPT ![UserOf[s]] = worker.vol]
    /\ Goto(IF RetainPVCs THEN "report" ELSE "finalize")
    /\ UNCHANGED <<session, finalizer, pod, claim, pv, made, history>>

(* ensureFinalizers: the update is refused when the session has been       *)
(* deleted since the pass read it.                                         *)
EnsureFinalizers(s) ==
    /\ At(s, "finalize")
    /\ IF s \in finalizer \/ session[s] = "live"
         THEN finalizer' = finalizer \cup {s} /\ Goto("report")
         ELSE finalizer' = finalizer /\ Requeue
    /\ UNCHANGED <<session, pod, claim, pv, made, volMap, history>>

(* The session is reported running, which is what the user waits for. *)
ReportRunning(s) ==
    /\ At(s, "report")
    /\ home' = IF session[s] = "live" THEN [home EXCEPT ![UserOf[s]] = @ \cup {worker.vol}]
                                      ELSE home
    /\ Requeue
    /\ UNCHANGED <<cluster, early, faults, lost>>

-----------------------------------------------------------------------------
(* A pass over a session that is being deleted: reclaimVolumes. *)

Stopped(p) == CASE p = "running" -> "stopping" [] p = "pending" -> "none" [] OTHER -> p

(* Broken ReclaimPod: the pod is waited for but not deleted. *)
AwaitPod(s) ==
    /\ At(s, "reclaimPod")
    /\ IF pod[s] = "none" THEN Goto("reclaimClaim") ELSE Requeue
    /\ UNCHANGED <<session, finalizer, pod, claim, pv, made, volMap, history>>

ReclaimPod(s) ==
    /\ At(s, "reclaimPod")
    /\ IF pod[s] = "none" THEN Goto("reclaimClaim") ELSE Requeue
    /\ pod' = [pod EXCEPT ![s] = Stopped(@)]
    /\ UNCHANGED <<session, finalizer, claim, pv, made, volMap, history>>

(* The claim is looked up by its name, whichever session it was made for. *)
ReclaimClaim(s) ==
    LET k == KeyOf(s) IN
    /\ At(s, "reclaimClaim")
    /\ IF volMap[UserOf[s]] = None
         THEN Goto("release") /\ claim' = claim
         ELSE IF claim[k] # Absent
         THEN Requeue /\ claim' = [claim EXCEPT ![k].deleting = TRUE]
         ELSE Goto("reclaimVolume") /\ claim' = claim
    /\ UNCHANGED <<session, finalizer, pod, pv, made, volMap, history>>

(* Broken ReclaimVolume: nothing but the reclaim policy is looked at.      *)
ReclaimPolicyOnly(s) ==
    LET v == volMap[UserOf[s]] IN
    /\ At(s, "reclaimVolume")
    /\ IF ~Exists(v) \/ pv[v].policy = "Retain"
         THEN Goto("release") /\ pv' = pv
         ELSE Requeue /\ pv' = [pv EXCEPT ![v] = Freed]
    /\ UNCHANGED <<session, finalizer, pod, claim, made, volMap, history>>

(* The recorded volume is freed, and found free by the next pass. *)
ReclaimVolume(s) ==
    LET v == volMap[UserOf[s]] IN
    /\ At(s, "reclaimVolume")
    /\ IF ~Exists(v) \/ pv[v] = Freed
         THEN Goto("release") /\ pv' = pv
         ELSE Requeue /\ pv' = [pv EXCEPT ![v] = Freed]
    /\ UNCHANGED <<session, finalizer, pod, claim, made, volMap, history>>

(* The finalizer is taken off, and the session object goes. *)
ReleaseFinalizer(s) ==
    /\ At(s, "release")
    /\ finalizer' = finalizer \ {s}
    /\ session' = [session EXCEPT ![s] = "gone"]
    /\ Requeue
    /\ UNCHANGED <<pod, claim, pv, made, volMap, history>>

(* A call of the pass fails, or the manager crashes in it. *)
PassFails ==
    /\ worker.at # "idle" /\ faults < MaxFaults
    /\ faults' = faults + 1
    /\ Requeue
    /\ UNCHANGED <<cluster, home, early, lost>>

Pass(s) ==
    \/ ReconcileVolumes(s) \/ ReconcilePod(s)
    \/ FreeVolume(s) \/ RecordVolume(s) \/ EnsureFinalizers(s) \/ ReportRunning(s)
    \/ ReclaimPod(s) \/ ReclaimClaim(s) \/ ReclaimVolume(s) \/ ReleaseFinalizer(s)

-----------------------------------------------------------------------------
(* Kubernetes: the scheduler and kubelets, the volume controller, the      *)
(* garbage collector.                                                      *)

Ready(c) == c # Absent /\ c.bound /\ ~c.deleting
Uses(s, k) == KeyOf(s) = k /\ pod[s] \in {"running", "stopping"}

PodRuns(s) ==
    /\ pod[s] = "pending" /\ Ready(claim[KeyOf(s)])
    /\ pod' = [pod EXCEPT ![s] = "running"]
    /\ UNCHANGED <<session, finalizer, claim, pv, made, volMap, worker, history>>

PodStops(s) ==
    /\ pod[s] = "stopping"
    /\ pod' = [pod EXCEPT ![s] = "none"]
    /\ UNCHANGED <<session, finalizer, claim, pv, made, volMap, worker, history>>

CollectPod(s) ==
    /\ session[s] = "gone" /\ pod[s] \in {"pending", "running"}
    /\ pod' = [pod EXCEPT ![s] = Stopped(@)]
    /\ UNCHANGED <<session, finalizer, claim, pv, made, volMap, worker, history>>

CollectClaim(k) ==
    /\ claim[k] # Absent /\ ~claim[k].deleting
    /\ claim[k].owner # None /\ session[claim[k].owner] = "gone"
    /\ claim' = [claim EXCEPT ![k].deleting = TRUE]
    /\ UNCHANGED <<session, finalizer, pod, pv, made, volMap, worker, history>>

(* A claim goes when no pod uses it. Its volume, if it still refers to the *)
(* claim, is deleted or released, as its policy says.                      *)
RemoveClaim(k) ==
    /\ claim[k] # Absent /\ claim[k].deleting
    /\ ~\E s \in Session : Uses(s, k)
    /\ claim' = [claim EXCEPT ![k] = Absent]
    /\ pv' = [v \in Volume |-> IF pv[v] = Absent \/ pv[v].claim # k THEN pv[v]
                               ELSE IF pv[v].policy = "Delete" THEN Absent
                               ELSE [pv[v] EXCEPT !.claim = Released]]
    /\ UNCHANGED <<session, finalizer, pod, made, volMap, worker, history>>

(* A claim that names a volume gets that one, once nothing else refers to  *)
(* it; a bound one whose volume has lost the reference is bound again.     *)
Bind(k) ==
    LET v == claim[k].vol IN
    /\ claim[k] # Absent /\ v # None
    /\ pv[v] # Absent /\ pv[v].claim = None
    /\ pv' = [pv EXCEPT ![v].claim = k]
    /\ claim' = [claim EXCEPT ![k].bound = TRUE]
    /\ UNCHANGED <<session, finalizer, pod, made, volMap, worker, history>>

(* The provisioner makes a volume for a claim that names none; a free      *)
(* volume goes to nobody but the claim that names it.                      *)
Provision(k) ==
    /\ claim[k] # Absent /\ claim[k].vol = None /\ ~claim[k].deleting
    /\ made < MaxVolumes
    /\ made' = made + 1
    /\ pv' = [pv EXCEPT ![made + 1] = [policy |-> "Delete", claim |-> k]]
    /\ claim' = [claim EXCEPT ![k].vol = made + 1, ![k].bound = TRUE]
    /\ UNCHANGED <<session, finalizer, pod, volMap, worker, history>>

(* An administrator deletes a volume that no claim has. *)
LoseVolume(v) ==
    /\ lost < MaxLost
    /\ pv[v] # Absent /\ pv[v].claim \in {None, Released}
    /\ pv' = [pv EXCEPT ![v] = Absent]
    /\ lost' = lost + 1
    /\ UNCHANGED <<session, finalizer, pod, claim, made, volMap, worker, home, early, faults>>

Kubernetes ==
    \/ \E s \in Session : PodRuns(s) \/ PodStops(s) \/ CollectPod(s)
    \/ \E k \in Key : CollectClaim(k) \/ RemoveClaim(k) \/ Bind(k) \/ Provision(k)

Next ==
    \/ \E s \in Session : Start(s) \/ Delete(s) \/ Begin(s) \/ Pass(s)
    \/ PassFails
    \/ Kubernetes
    \/ \E v \in Volume : LoseVolume(v)

Spec == Init /\ [][Next]_vars

(* The work queue is first in, first out: a session that is being deleted  *)
(* is in it until its finalizer is off, and gets its turn. The controllers *)
(* of Kubernetes do their work.                                            *)
Fairness ==
    /\ \A s \in Session : SF_vars(Begin(s)) /\ WF_vars(Pass(s))
    /\ \A s \in Session : WF_vars(PodRuns(s)) /\ WF_vars(PodStops(s)) /\ WF_vars(CollectPod(s))
    /\ \A k \in Key : /\ WF_vars(CollectClaim(k)) /\ WF_vars(RemoveClaim(k))
                      /\ WF_vars(Bind(k)) /\ WF_vars(Provision(k))

FairSpec == Spec /\ Fairness

-----------------------------------------------------------------------------
Claimed(u)  == \E k \in Key : k[2] = u /\ claim[k] # Absent
Sessions(u) == {s \in Session : UserOf[s] = u}
Settled(u)  == ~Claimed(u) /\ \A s \in Sessions(u) : session[s] \in {"new", "gone"}
OneNamespace(u) == \A s, t \in Sessions(u) : NamespaceOf[s] = NamespaceOf[t]

(* README.md:46, "Persistent user data": a volume on which a session was   *)
(* reported running outlives every session, claim and crash; only an       *)
(* administrator deletes it. The storage class would delete it with the    *)
(* claim, had freePV not come before the report.                           *)
HomeSurvives ==
    [][\A u \in User : \A v \in home[u] :
         pv[v] # Absent => pv'[v] # Absent \/ lost' # lost]_vars

(* A user who stays in one namespace finds the same volume in every        *)
(* session, however sessions overlap, as long as nobody deletes it.        *)
OneHome == \A u \in User : OneNamespace(u) /\ lost = 0 => Cardinality(home[u]) <= 1

(* vdicluster_types.go:65-66: the volume is freed from the claim after     *)
(* each session, so that the next one can claim it. It is, for a user of   *)
(* one namespace of whom no session was deleted before its first pass had  *)
(* put the finalizer on.                                                   *)
FreedUnlessDeletedEarly ==
    \A u \in User \ early :
        OneNamespace(u) /\ Settled(u) /\ Exists(volMap[u]) => pv[volMap[u]].claim = None

(* A session that is being deleted goes, unless another session of its     *)
(* user is alive to use the claim or to make it again.                     *)
DeletionCompletes ==
    \A s \in Session :
        session[s] = "deleting" ~> \/ session[s] = "gone"
                                   \/ \E t \in Sessions(UserOf[s]) : session[t] = "live"
=============================================================================
