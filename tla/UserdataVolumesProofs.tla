----------------------- MODULE UserdataVolumesProofs -----------------------
(***************************************************************************)
(* Proofs about UserdataVolumes for any number of sessions, users,         *)
(* namespaces and volumes, with claims retained or not.                    *)
(***************************************************************************)
EXTENDS UserdataVolumes, FiniteSetTheorems, TLAPS

(* A claim that is deleted, or bound to a volume, is still a claim. *)
LEMMA ClaimUpdates ==
  ASSUME NEW c \in Claim
  PROVE  /\ [c EXCEPT !.deleting = TRUE] \in Claim
         /\ [c EXCEPT !.bound = TRUE] \in Claim
         /\ \A v \in Volume : [c EXCEPT !.vol = v, !.bound = TRUE] \in Claim
         /\ c.vol \in Volume \cup {None}
BY DEF Claim

(* Neither of the two changes the volume that a claim names. *)
LEMMA ClaimKeepsVolume ==
  ASSUME NEW c \in Claim
  PROVE  /\ [c EXCEPT !.deleting = TRUE].vol = c.vol
         /\ [c EXCEPT !.bound = TRUE].vol = c.vol
BY DEF Claim

(* A volume that is bound or released is still a volume. *)
LEMMA VolumeUpdates ==
  ASSUME NEW x \in PV, NEW k \in Key \cup {None, Released}
  PROVE  [x EXCEPT !.claim = k] \in PV
BY DEF PV

(* Every object of the cluster and every step of a pass stays of its type. *)
THEOREM VolumesTypeCorrect == Spec => []TypeOK
<1>1. Init => TypeOK
  <2> SUFFICES ASSUME Init PROVE TypeOK
    OBVIOUS
  <2>1. volMap \in [User -> Volume \cup {None}] /\ made \in 0..MaxVolumes
    BY VolumesAssumption DEF Init, Volume
  <2>2. \A u \in User : {volMap[u]} \ {None} \in SUBSET Volume
    BY <2>1
  <2>3. home \in [User -> SUBSET Volume]
    BY <2>2 DEF Init
  <2>4. pv \in [Volume -> PV \cup {Absent}]
    BY DEF Init, Freed, PV
  <2>5. worker \in Worker /\ worker.at = "idle"
    BY DEF Init, Idle, Worker
  <2>6. QED
    BY <2>1, <2>3, <2>4, <2>5 DEF Init, TypeOK
<1>2. TypeOK /\ [Next]_vars => TypeOK'
  <2> SUFFICES ASSUME TypeOK, [Next]_vars
               PROVE  TypeOK'
    OBVIOUS
  <2> USE VolumesAssumption DEF TypeOK, cluster, history, Live, Reclaiming
  <2>k. ASSUME NEW s \in Session PROVE KeyOf(s) \in Key /\ UserOf[s] \in User
    BY DEF KeyOf, Key
  <2>f. Freed \in PV
    BY DEF Freed, PV
  <2>g. ASSUME NEW l \in {"idle"} \cup Live \cup Reclaiming, Goto(l)
        PROVE  worker' \in Worker /\ worker'.at = l /\ worker'.vol = worker.vol
    BY <2>g DEF Goto, Worker
  <2>r. ASSUME Requeue
        PROVE  worker' \in Worker /\ worker'.at = "idle"
    BY <2>r DEF Requeue, Idle, Worker
  <2>1. ASSUME NEW s \in Session, Start(s) PROVE TypeOK'
    BY <2>1 DEF Start
  <2>2. ASSUME NEW s \in Session, Delete(s) PROVE TypeOK'
    BY <2>2, <2>k DEF Delete
  <2>3. ASSUME NEW s \in Session, Begin(s) PROVE TypeOK'
    BY <2>3 DEF Begin, Idle, Worker
  <2>4. ASSUME NEW s \in Session, ReconcileVolumes(s) PROVE TypeOK'
    <3>1. ExistingVol(UserOf[s]) \in Volume \cup {None}
      BY <2>k DEF ExistingVol, Exists
    <3>2. claim' \in [Key -> Claim \cup {Absent}]
      BY <2>4, <2>k, <3>1 DEF ReconcileVolumes, Claim
    <3>3. QED
      BY <2>4, <3>2, <2>g, <2>r DEF ReconcileVolumes
  <2>5. ASSUME NEW s \in Session, ReconcilePod(s) PROVE TypeOK'
    BY <2>5, <2>g, <2>r DEF ReconcilePod
  <2>6. ASSUME NEW s \in Session, FreeVolume(s) PROVE TypeOK'
    <3>1. CASE claim[KeyOf(s)] # Absent /\ Exists(claim[KeyOf(s)].vol)
      <4>1. claim[KeyOf(s)].vol \in Volume
        BY <3>1 DEF Exists
      <4>2. pv' \in [Volume -> PV \cup {Absent}]
        BY <2>6, <2>f, <3>1 DEF FreeVolume
      <4>3. worker' \in Worker /\ worker'.vol = claim[KeyOf(s)].vol
        <5>1. worker' = [worker EXCEPT !.at = "record", !.vol = claim[KeyOf(s)].vol]
          BY <2>6, <3>1 DEF FreeVolume
        <5>2. QED
          BY <4>1, <5>1 DEF Worker
      <4>4. worker'.vol # None
        BY <4>1, <4>3
      <4>5. QED
        BY <2>6, <4>2, <4>3, <4>4 DEF FreeVolume
    <3>2. CASE ~(claim[KeyOf(s)] # Absent /\ Exists(claim[KeyOf(s)].vol))
      BY <2>6, <3>2, <2>r DEF FreeVolume
    <3>3. QED
      BY <3>1, <3>2
  <2>7. ASSUME NEW s \in Session, RecordVolume(s) PROVE TypeOK'
    <3>1. worker' \in Worker /\ worker'.vol = worker.vol
      BY <2>7, <2>g DEF RecordVolume
    <3>2. worker.vol # None /\ worker.vol \in Volume
      BY <2>7 DEF RecordVolume, At, Worker
    <3>3. volMap' \in [User -> Volume \cup {None}]
      BY <2>7, <2>k, <3>2 DEF RecordVolume
    <3>4. QED
      BY <2>7, <3>1, <3>2, <3>3 DEF RecordVolume
  <2>8. ASSUME NEW s \in Session, EnsureFinalizers(s) PROVE TypeOK'
    BY <2>8, <2>g, <2>r DEF EnsureFinalizers, At
  <2>9. ASSUME NEW s \in Session, ReportRunning(s) PROVE TypeOK'
    <3>1. worker.vol \in Volume
      BY <2>9 DEF ReportRunning, At, Worker
    <3>2. home' \in [User -> SUBSET Volume]
      BY <2>9, <2>k, <3>1 DEF ReportRunning
    <3>3. QED
      BY <2>9, <3>2, <2>r DEF ReportRunning
  <2>10. ASSUME NEW s \in Session, ReclaimPod(s) PROVE TypeOK'
    BY <2>10, <2>g, <2>r DEF ReclaimPod, Stopped
  <2>11. ASSUME NEW s \in Session, ReclaimClaim(s) PROVE TypeOK'
    <3>1. claim' \in [Key -> Claim \cup {Absent}]
      <4>1. CASE claim[KeyOf(s)] # Absent
        <5>1. [claim[KeyOf(s)] EXCEPT !.deleting = TRUE] \in Claim
          BY <2>k, <4>1, ClaimUpdates
        <5>2. QED
          BY <2>11, <2>k, <5>1 DEF ReclaimClaim
      <4>2. CASE claim[KeyOf(s)] = Absent
        BY <2>11, <4>2 DEF ReclaimClaim
      <4>3. QED
        BY <4>1, <4>2
    <3>2. QED
      BY <2>11, <3>1, <2>g, <2>r DEF ReclaimClaim
  <2>12. ASSUME NEW s \in Session, ReclaimVolume(s) PROVE TypeOK'
    BY <2>12, <2>k, <2>f, <2>g, <2>r DEF ReclaimVolume, Exists
  <2>13. ASSUME NEW s \in Session, ReleaseFinalizer(s) PROVE TypeOK'
    BY <2>13, <2>r DEF ReleaseFinalizer
  <2>14. CASE PassFails
    BY <2>14, <2>r DEF PassFails
  <2>15. ASSUME NEW s \in Session, PodRuns(s) \/ PodStops(s) \/ CollectPod(s) PROVE TypeOK'
    BY <2>15 DEF PodRuns, PodStops, CollectPod, Stopped
  <2>16. ASSUME NEW k \in Key, CollectClaim(k) PROVE TypeOK'
    BY <2>16, ClaimUpdates DEF CollectClaim
  <2>17. ASSUME NEW k \in Key, RemoveClaim(k) PROVE TypeOK'
    <3>1. pv' \in [Volume -> PV \cup {Absent}]
      BY <2>17, VolumeUpdates DEF RemoveClaim
    <3>2. QED
      BY <2>17, <3>1 DEF RemoveClaim
  <2>18. ASSUME NEW k \in Key, Bind(k) PROVE TypeOK'
    <3>1. claim[k] \in Claim /\ claim[k].vol \in Volume
      BY <2>18, ClaimUpdates DEF Bind
    <3>2. pv' \in [Volume -> PV \cup {Absent}]
      BY <2>18, <3>1, VolumeUpdates DEF Bind
    <3>3. claim' \in [Key -> Claim \cup {Absent}]
      BY <2>18, <3>1, ClaimUpdates DEF Bind
    <3>4. QED
      BY <2>18, <3>2, <3>3 DEF Bind
  <2>19. ASSUME NEW k \in Key, Provision(k) PROVE TypeOK'
    <3>1. made + 1 \in Volume /\ made' \in 0..MaxVolumes
      BY <2>19 DEF Provision, Volume
    <3>2. pv' \in [Volume -> PV \cup {Absent}]
      BY <2>19, <3>1 DEF Provision, PV
    <3>3. claim' \in [Key -> Claim \cup {Absent}]
      BY <2>19, <3>1, ClaimUpdates DEF Provision
    <3>4. QED
      BY <2>19, <3>1, <3>2, <3>3 DEF Provision
  <2>20. ASSUME NEW v \in Volume, LoseVolume(v) PROVE TypeOK'
    BY <2>20 DEF LoseVolume
  <2>21. CASE UNCHANGED vars
    BY <2>21 DEF vars
  <2>22. QED
    BY <2>1, <2>2, <2>3, <2>4, <2>5, <2>6, <2>7, <2>8, <2>9, <2>10, <2>11, <2>12, <2>13, <2>14,
       <2>15, <2>16, <2>17, <2>18, <2>19, <2>20, <2>21 DEF Next, Pass, Kubernetes
<1>3. QED
  BY <1>1, <1>2, PTL DEF Spec

Retained(v) == v \in 1..made /\ (pv[v] # Absent => pv[v].policy = "Retain")

(* What carries HomeSurvives: a volume is Retain before the pass records   *)
(* it, the pass reports no other one, and no volume is made twice.         *)
RetainInv ==
    /\ \A v \in Volume : pv[v] # Absent => v <= made
    /\ worker.at \in {"record", "finalize", "report"} => Retained(worker.vol)
    /\ \A u \in User : \A v \in home[u] : Retained(v)

(* The invariant, and what it says of each step: a volume that a session   *)
(* was reported on goes only when an administrator deletes it.             *)
THEOREM RetainInvariant == Spec => []RetainInv
<1>1. Init => RetainInv
  <2> SUFFICES ASSUME Init PROVE RetainInv
    OBVIOUS
  <2>1. \A u \in User : \A v \in home[u] : v \in 1..made
    BY DEF Init
  <2>2. \A v \in 1..made : pv[v] # Absent => pv[v].policy = "Retain"
    BY VolumesAssumption DEF Init, Volume, Freed
  <2>3. worker.at = "idle" /\ \A v \in Volume : pv[v] # Absent => v <= made
    BY DEF Init, Idle
  <2>4. QED
    BY <2>1, <2>2, <2>3 DEF RetainInv, Retained
<1>2. TypeOK /\ RetainInv /\ [Next]_vars => RetainInv'
  <2> SUFFICES ASSUME TypeOK, RetainInv, [Next]_vars
               PROVE  RetainInv'
    OBVIOUS
  <2> USE VolumesAssumption DEF TypeOK, cluster, history
  <2>1. ASSUME UNCHANGED <<pv, made, home>>,
               worker'.at \in {"record", "finalize", "report"} =>
                 worker.at \in {"record", "finalize", "report"} /\ worker'.vol = worker.vol
        PROVE  RetainInv'
    BY <2>1 DEF RetainInv, Retained
  <2>2. ASSUME NEW s \in Session, Start(s) \/ Delete(s) PROVE RetainInv'
    BY <2>1, <2>2 DEF Start, Delete
  <2>3. ASSUME NEW s \in Session, Begin(s) PROVE RetainInv'
    <3>1. worker'.at \notin {"record", "finalize", "report"}
      BY <2>3 DEF Begin, Idle
    <3>2. QED
      BY <2>1, <2>3, <3>1 DEF Begin
  <2>4. ASSUME NEW s \in Session,
               ReconcileVolumes(s) \/ ReconcilePod(s) \/ ReclaimPod(s) \/ ReclaimClaim(s)
        PROVE  RetainInv'
    <3>1. worker'.at \notin {"record", "finalize", "report"}
      BY <2>4 DEF ReconcileVolumes, ReconcilePod, ReclaimPod, ReclaimClaim, Goto, Requeue, Idle,
                  Worker
    <3>2. UNCHANGED <<pv, made, home>>
      BY <2>4 DEF ReconcileVolumes, ReconcilePod, ReclaimPod, ReclaimClaim
    <3>3. QED
      BY <2>1, <3>1, <3>2
  <2>5. ASSUME NEW s \in Session, RecordVolume(s) \/ EnsureFinalizers(s)
        PROVE  RetainInv'
    <3>1. worker'.at \in {"record", "finalize", "report"} =>
            worker.at \in {"record", "finalize", "report"} /\ worker'.vol = worker.vol
      BY <2>5 DEF RecordVolume, EnsureFinalizers, At, Goto, Requeue, Idle, Worker
    <3>2. UNCHANGED <<pv, made, home>>
      BY <2>5 DEF RecordVolume, EnsureFinalizers
    <3>3. QED
      BY <2>1, <3>1, <3>2
  <2>6. ASSUME NEW s \in Session, FreeVolume(s) PROVE RetainInv'
    <3>1. CASE claim[KeyOf(s)] # Absent /\ Exists(claim[KeyOf(s)].vol)
      <4>0. PICK v \in Volume : v = claim[KeyOf(s)].vol /\ pv[v] # Absent
        BY <3>1 DEF Exists
      <4>1. v \in Volume /\ v \in 1..made
        BY <4>0 DEF RetainInv, Volume
      <4>2. pv' = [pv EXCEPT ![v] = Freed] /\ worker'.vol = v
        <5>1. pv' = [pv EXCEPT ![v] = Freed]
          BY <2>6, <3>1, <4>0 DEF FreeVolume
        <5>2. worker' = [worker EXCEPT !.at = "record", !.vol = v]
          BY <2>6, <3>1, <4>0 DEF FreeVolume
        <5>3. QED
          BY <5>1, <5>2 DEF Worker
      <4>3. \A x \in Volume : x # v => pv'[x] = pv[x]
        BY <4>2
      <4>4. pv'[v] = Freed /\ Freed.policy = "Retain"
        BY <4>1, <4>2 DEF Freed
      <4>5. made' = made /\ home' = home
        BY <2>6 DEF FreeVolume
      <4>6. \A x \in 1..made : Retained(x) => Retained(x)'
        BY <4>3, <4>4, <4>5 DEF Retained, Volume
      <4>7. Retained(v)'
        BY <4>1, <4>4, <4>5 DEF Retained
      <4>8. \A x \in Volume : pv'[x] # Absent => x <= made'
        BY <4>1, <4>3, <4>5 DEF RetainInv
      <4>9. \A u \in User : \A x \in home'[u] : Retained(x)'
        BY <4>5, <4>6 DEF RetainInv, Retained
      <4>10. QED
        BY <4>2, <4>7, <4>8, <4>9 DEF RetainInv, Retained
    <3>2. CASE ~(claim[KeyOf(s)] # Absent /\ Exists(claim[KeyOf(s)].vol))
      BY <2>1, <2>6, <3>2 DEF FreeVolume, Requeue, Idle
    <3>3. QED
      BY <3>1, <3>2
  <2>7. ASSUME NEW s \in Session, ReportRunning(s) PROVE RetainInv'
    <3>1. Retained(worker.vol) /\ worker'.at = "idle"
      BY <2>7 DEF ReportRunning, At, RetainInv, Requeue, Idle
    <3>2. \A u \in User : home'[u] \subseteq home[u] \cup {worker.vol}
      BY <2>7 DEF ReportRunning
    <3>3. UNCHANGED <<pv, made>>
      BY <2>7 DEF ReportRunning
    <3>4. QED
      BY <3>1, <3>2, <3>3 DEF RetainInv, Retained
  <2>8. ASSUME NEW s \in Session, ReclaimVolume(s) PROVE RetainInv'
    <3>1. worker'.at \notin {"record", "finalize", "report"}
      BY <2>8 DEF ReclaimVolume, Goto, Requeue, Idle, Worker
    <3>2. \A x \in Volume : pv'[x] = pv[x] \/ (pv[x] # Absent /\ pv'[x] = Freed)
      BY <2>8 DEF ReclaimVolume, Exists
    <3>3. UNCHANGED <<made, home>>
      BY <2>8 DEF ReclaimVolume
    <3>4. \A x \in Volume : Retained(x) => Retained(x)'
      BY <3>2, <3>3 DEF Retained, Freed
    <3>5. QED
      BY <3>1, <3>2, <3>3, <3>4 DEF RetainInv
  <2>9. ASSUME NEW s \in Session, ReleaseFinalizer(s) PROVE RetainInv'
    BY <2>1, <2>9 DEF ReleaseFinalizer, Requeue, Idle
  <2>10. CASE PassFails
    BY <2>1, <2>10 DEF PassFails, Requeue, Idle
  <2>11. ASSUME NEW s \in Session, PodRuns(s) \/ PodStops(s) \/ CollectPod(s) PROVE RetainInv'
    BY <2>1, <2>11 DEF PodRuns, PodStops, CollectPod
  <2>12. ASSUME NEW k \in Key, CollectClaim(k) PROVE RetainInv'
    BY <2>1, <2>12 DEF CollectClaim
  <2>13. ASSUME NEW k \in Key, RemoveClaim(k) PROVE RetainInv'
    <3>1. \A x \in Volume : pv'[x] # Absent => pv[x] # Absent /\ pv'[x].policy = pv[x].policy
      BY <2>13 DEF RemoveClaim, PV
    <3>2. UNCHANGED <<made, home, worker>>
      BY <2>13 DEF RemoveClaim
    <3>3. \A x \in Volume : Retained(x) => Retained(x)'
      BY <3>1, <3>2 DEF Retained
    <3>4. worker'.at \in {"record", "finalize", "report"} => worker.vol \in Volume
      BY <3>2 DEF Worker
    <3>5. QED
      BY <3>1, <3>2, <3>3, <3>4 DEF RetainInv
  <2>14. ASSUME NEW k \in Key, Bind(k) PROVE RetainInv'
    <3>1. \A x \in Volume : pv'[x] # Absent => pv[x] # Absent /\ pv'[x].policy = pv[x].policy
      BY <2>14 DEF Bind, PV
    <3>2. UNCHANGED <<made, home, worker>>
      BY <2>14 DEF Bind
    <3>3. \A x \in Volume : Retained(x) => Retained(x)'
      BY <3>1, <3>2 DEF Retained
    <3>4. worker'.at \in {"record", "finalize", "report"} => worker.vol \in Volume
      BY <3>2 DEF Worker
    <3>5. QED
      BY <3>1, <3>2, <3>3, <3>4 DEF RetainInv
  <2>15. ASSUME NEW k \in Key, Provision(k) PROVE RetainInv'
    <3>1. made' = made + 1 /\ UNCHANGED <<home, worker>>
      BY <2>15 DEF Provision
    <3>2. \A x \in Volume : x # made + 1 => pv'[x] = pv[x]
      BY <2>15 DEF Provision
    <3>3. \A x \in Volume : Retained(x) => Retained(x)'
      BY <3>1, <3>2 DEF Retained
    <3>4. worker'.at \in {"record", "finalize", "report"} => worker.vol \in Volume
      BY <3>1 DEF Worker
    <3>5. \A x \in Volume : pv'[x] # Absent => x <= made'
      BY <3>1, <3>2 DEF RetainInv, Volume
    <3>6. QED
      BY <3>1, <3>3, <3>4, <3>5 DEF RetainInv
  <2>16. ASSUME NEW v \in Volume, LoseVolume(v) PROVE RetainInv'
    <3>1. \A x \in Volume : pv'[x] = pv[x] \/ pv'[x] = Absent
      BY <2>16 DEF LoseVolume
    <3>2. UNCHANGED <<made, home, worker>>
      BY <2>16 DEF LoseVolume
    <3>3. \A x \in Volume : Retained(x) => Retained(x)'
      BY <3>1, <3>2 DEF Retained
    <3>4. worker'.at \in {"record", "finalize", "report"} => worker.vol \in Volume
      BY <3>2 DEF Worker
    <3>5. QED
      BY <3>1, <3>2, <3>3, <3>4 DEF RetainInv
  <2>17. CASE UNCHANGED vars
    BY <2>1, <2>17 DEF vars
  <2>18. QED
    BY <2>2, <2>3, <2>4, <2>5, <2>6, <2>7, <2>8, <2>9, <2>10, <2>11, <2>12, <2>13, <2>14, <2>15,
       <2>16, <2>17 DEF Next, Pass, Kubernetes
<1>3. QED
  BY <1>1, <1>2, VolumesTypeCorrect, PTL DEF Spec

(* A volume on which a session of its user was reported running is deleted *)
(* by nobody but an administrator.                                         *)
THEOREM HomesSurvive == Spec => HomeSurvives
<1> DEFINE Kept == \A u \in User : \A v \in home[u] :
                     pv[v] # Absent => pv'[v] # Absent \/ lost' # lost
<1>1. TypeOK /\ RetainInv /\ [Next]_vars => [Kept]_vars
  <2> SUFFICES ASSUME TypeOK, RetainInv, [Next]_vars
               PROVE  Kept \/ UNCHANGED vars
    OBVIOUS
  <2> USE VolumesAssumption DEF TypeOK, cluster, history
  <2>1. \A u \in User : \A v \in home[u] : v \in Volume
    OBVIOUS
  <2>2. ASSUME \A v \in Volume : pv[v] # Absent => pv'[v] # Absent
        PROVE  Kept
    BY <2>1, <2>2
  <2>3. ASSUME pv' = pv PROVE Kept
    BY <2>2, <2>3
  <2>4. ASSUME NEW s \in Session, FreeVolume(s) \/ ReclaimVolume(s) PROVE Kept
    BY <2>2, <2>4 DEF FreeVolume, ReclaimVolume, Freed, PV
  <2>5. ASSUME NEW k \in Key, RemoveClaim(k) PROVE Kept
    <3>1. \A v \in Volume : pv[v] # Absent /\ pv[v].policy = "Retain" => pv'[v] # Absent
      BY <2>5 DEF RemoveClaim, PV
    <3>2. QED
      BY <2>1, <3>1 DEF RetainInv, Retained
  <2>6. ASSUME NEW s \in Session,
               \/ Start(s) \/ Delete(s) \/ Begin(s) \/ ReconcileVolumes(s) \/ ReconcilePod(s)
               \/ RecordVolume(s) \/ EnsureFinalizers(s) \/ ReportRunning(s)
               \/ ReclaimPod(s) \/ ReclaimClaim(s) \/ ReleaseFinalizer(s)
               \/ PodRuns(s) \/ PodStops(s) \/ CollectPod(s)
        PROVE  Kept
    BY <2>3, <2>6 DEF Start, Delete, Begin, ReconcileVolumes, ReconcilePod, RecordVolume,
         EnsureFinalizers, ReportRunning, ReclaimPod, ReclaimClaim, ReleaseFinalizer,
         PodRuns, PodStops, CollectPod
  <2>7. CASE PassFails
    BY <2>3, <2>7 DEF PassFails
  <2>8. ASSUME NEW k \in Key, CollectClaim(k) \/ Bind(k) \/ Provision(k) PROVE Kept
    BY <2>2, <2>3, <2>8 DEF CollectClaim, Bind, Provision, PV
  <2>9. ASSUME NEW v \in Volume, LoseVolume(v) PROVE Kept
    BY <2>9 DEF LoseVolume
  <2>10. QED
    BY <2>4, <2>5, <2>6, <2>7, <2>8, <2>9 DEF Next, Pass, Kubernetes
<1>2. QED
  BY <1>1, VolumesTypeCorrect, RetainInvariant, PTL DEF Spec, HomeSurvives
-----------------------------------------------------------------------------
WithVolume == {"record", "finalize", "report"}

Claiming(u, v) == \E k \in Key : k[2] = u /\ claim[k] # Absent /\ claim[k].vol = v
Carrying(u, v) == worker.at \in WithVolume /\ UserOf[worker.on] = u /\ worker.vol = v
Names(u, v)    == volMap[u] = v \/ Claiming(u, v) \/ Carrying(u, v)

(* A volume is named by one user: in the map of volumes, by a claim, or by *)
(* the pass that is about to record it.                                    *)
NamesInv ==
    /\ worker.at # "idle" => worker.on \in Session
    /\ \A k \in Key : claim[k] # Absent => \E s \in Session : KeyOf(s) = k
    /\ \A u \in User, v \in Volume : Names(u, v) => v <= made
    /\ \A v \in Volume : \A u, w \in User : Names(u, v) /\ Names(w, v) => u = w

(* All claims of a user of one namespace have one name. *)
LEMMA OneKey ==
  ASSUME NamesInv, NEW s \in Session, OneNamespace(UserOf[s]),
         NEW k \in Key, k[2] = UserOf[s], claim[k] # Absent
  PROVE  k = KeyOf(s)
<1>1. PICK t \in Session : KeyOf(t) = k
  BY DEF NamesInv
<1>2. UserOf[t] = UserOf[s]
  BY <1>1 DEF KeyOf
<1>3. NamespaceOf[t] = NamespaceOf[s]
  BY <1>2 DEF OneNamespace, Sessions
<1>4. QED
  BY <1>1, <1>2, <1>3 DEF KeyOf

(* The volume is there, and outlives the claim that has it. *)
Kept(v) == pv[v] # Absent /\ pv[v].policy = "Retain"

(* A volume that is freed is such a volume, and no claim has it. *)
LEMMA FreedIsKept == Freed # Absent /\ Freed.policy = "Retain" /\ Freed.claim = None
BY VolumesAssumption DEF Freed, PV

(* What all steps do but the few that name a volume, report one or lose    *)
(* one: no new claim, no other volume for a claim or for the pass.         *)
QuietStep ==
    /\ UNCHANGED <<made, volMap, home, lost>>
    /\ worker'.at \in WithVolume =>
         /\ worker.at \in WithVolume /\ worker'.vol = worker.vol /\ worker'.on = worker.on
         /\ worker'.at = "record" <=> worker.at = "record"
    /\ worker'.at # "idle" => worker'.on \in Session
    /\ \A k \in Key : claim'[k] # Absent => claim[k] # Absent /\ claim'[k].vol = claim[k].vol
    /\ \A v \in Volume : Kept(v) => Kept(v)'

LEMMA QuietSteps ==
  ASSUME TypeOK, NamesInv, [Next]_vars
  PROVE  \/ QuietStep
         \/ \E s \in Session : \/ ReconcileVolumes(s) \/ FreeVolume(s)
                               \/ RecordVolume(s) \/ ReportRunning(s)
         \/ \E k \in Key : Provision(k)
         \/ \E v \in Volume : LoseVolume(v)
<1> USE VolumesAssumption DEF cluster, history
<1>t. /\ worker \in Worker /\ claim \in [Key -> Claim \cup {Absent}]
      /\ pv \in [Volume -> PV \cup {Absent}]
  BY DEF TypeOK
<1>g. ASSUME NEW l, Goto(l)
      PROVE  worker'.at = l /\ worker'.vol = worker.vol /\ worker'.on = worker.on
  BY <1>g, <1>t DEF Goto, Worker
<1>r. ASSUME Requeue PROVE worker'.at = "idle"
  BY <1>r DEF Requeue, Idle
<1>1. ASSUME UNCHANGED <<made, volMap, home, lost, claim, pv, worker>> PROVE QuietStep
  BY <1>1 DEF QuietStep, NamesInv, Kept
<1>2. ASSUME NEW s \in Session, Start(s) \/ Delete(s) \/ PodRuns(s) \/ PodStops(s) \/ CollectPod(s)
      PROVE  QuietStep
  BY <1>1, <1>2 DEF Start, Delete, PodRuns, PodStops, CollectPod
<1>3. ASSUME UNCHANGED <<made, volMap, home, lost, claim, pv>>, worker'.at \notin WithVolume,
             worker'.at # "idle" => worker'.on \in Session
      PROVE  QuietStep
  BY <1>3 DEF QuietStep, Kept, WithVolume
<1>4. ASSUME NEW s \in Session, Begin(s) PROVE QuietStep
  <2>1. worker'.at \notin WithVolume /\ worker'.on = s
    BY <1>4 DEF Begin, Idle, WithVolume
  <2>2. QED
    BY <1>3, <1>4, <2>1 DEF Begin
<1>5. ASSUME NEW s \in Session, ReconcilePod(s) \/ ReclaimPod(s) \/ ReleaseFinalizer(s)
      PROVE  QuietStep
  <2>1. worker'.at \notin WithVolume /\ (worker'.at # "idle" => worker'.on \in Session)
    BY <1>5, <1>g, <1>r DEF ReconcilePod, ReclaimPod, ReleaseFinalizer, WithVolume, At
  <2>2. QED
    BY <1>3, <1>5, <2>1 DEF ReconcilePod, ReclaimPod, ReleaseFinalizer
<1>6. ASSUME NEW s \in Session, EnsureFinalizers(s) PROVE QuietStep
  <2>1. worker.at = "finalize" /\ worker.on = s /\ (Goto("report") \/ Requeue)
    BY <1>6 DEF EnsureFinalizers, At
  <2>2. UNCHANGED <<made, volMap, home, lost, claim, pv>>
    BY <1>6 DEF EnsureFinalizers
  <2>3. QED
    BY <1>g, <1>r, <2>1, <2>2 DEF QuietStep, Kept, WithVolume
<1>7. ASSUME NEW s \in Session, ReclaimVolume(s) PROVE QuietStep
  <2>1. worker'.at \notin WithVolume /\ (worker'.at # "idle" => worker'.on \in Session)
    BY <1>7, <1>g, <1>r DEF ReclaimVolume, WithVolume, At
  <2>2. \A v \in Volume : Kept(v) => Kept(v)'
    BY <1>7, <1>t DEF ReclaimVolume, Freed, Kept, PV
  <2>3. QED
    BY <1>7, <2>1, <2>2 DEF ReclaimVolume, QuietStep, WithVolume
<1>8. ASSUME NEW s \in Session, ReclaimClaim(s) PROVE QuietStep
  <2>1. worker'.at \notin WithVolume /\ (worker'.at # "idle" => worker'.on \in Session)
    BY <1>8, <1>g, <1>r DEF ReclaimClaim, WithVolume, At
  <2>2. \A k \in Key : \/ claim'[k] = claim[k]
                       \/ claim[k] # Absent /\ claim'[k] = [claim[k] EXCEPT !.deleting = TRUE]
    BY <1>8, <1>t DEF ReclaimClaim
  <2>3. \A k \in Key : claim'[k] # Absent => claim[k] # Absent /\ claim'[k].vol = claim[k].vol
    BY ZenonT(30), <1>t, <2>2, ClaimKeepsVolume
  <2>4. QED
    BY <1>8, <2>1, <2>3 DEF ReclaimClaim, QuietStep, Kept, WithVolume
<1>9. CASE PassFails
  BY <1>3, <1>9, <1>r DEF PassFails, WithVolume
<1>10. ASSUME NEW k \in Key, CollectClaim(k) \/ RemoveClaim(k) \/ Bind(k) PROVE QuietStep
  <2>1. \A j \in Key : \/ claim'[j] = claim[j] \/ claim'[j] = Absent
                       \/ claim[j] # Absent /\ claim'[j] = [claim[j] EXCEPT !.deleting = TRUE]
                       \/ claim[j] # Absent /\ claim'[j] = [claim[j] EXCEPT !.bound = TRUE]
    BY <1>10, <1>t DEF CollectClaim, RemoveClaim, Bind
  <2>2. \A j \in Key : claim'[j] # Absent => claim[j] # Absent /\ claim'[j].vol = claim[j].vol
    BY ZenonT(30), <1>t, <2>1, ClaimKeepsVolume
  <2>3. \A v \in Volume : Kept(v) => Kept(v)'
    BY <1>10, <1>t DEF CollectClaim, RemoveClaim, Bind, Kept, PV
  <2>4. UNCHANGED <<made, volMap, home, lost, worker>>
    BY <1>10 DEF CollectClaim, RemoveClaim, Bind
  <2>5. QED
    BY <2>2, <2>3, <2>4 DEF QuietStep, NamesInv
<1>11. CASE UNCHANGED vars
  BY <1>1, <1>11 DEF vars
<1>12. QED
  BY <1>2, <1>4, <1>5, <1>6, <1>7, <1>8, <1>9, <1>10, <1>11 DEF Next, Pass, Kubernetes

(* The claim that a pass finds missing is made anew, for the recorded      *)
(* volume if that exists; the pass holds none yet.                         *)
LEMMA ClaimMade ==
  ASSUME TypeOK, NEW s \in Session, ReconcileVolumes(s)
  PROVE  /\ KeyOf(s) \in Key /\ KeyOf(s)[2] = UserOf[s] /\ UserOf[s] \in User
         /\ UNCHANGED <<pv, made, volMap, home, lost, early, session>>
         /\ worker'.at = "pod" /\ worker'.on = s
         /\ \A k \in Key : \/ claim'[k] = claim[k]
                           \/ /\ k = KeyOf(s) /\ claim[k] = Absent
                              /\ claim'[k].vol = ExistingVol(UserOf[s])
<1>1. worker \in Worker /\ claim \in [Key -> Claim \cup {Absent}]
  BY DEF TypeOK
<1>2. KeyOf(s) \in Key /\ KeyOf(s)[2] = UserOf[s] /\ UserOf[s] \in User
  BY VolumesAssumption DEF KeyOf, Key
<1>3. worker'.at = "pod" /\ worker'.on = s
  BY <1>1 DEF ReconcileVolumes, Goto, At, Worker
<1>4. QED
  BY <1>1, <1>2, <1>3 DEF ReconcileVolumes, history

(* Freeing the volume of a claim: the pass goes on with that volume, which *)
(* is Retain and has no claim now, or ends.                                *)
LEMMA VolumeFreed ==
  ASSUME TypeOK, NEW s \in Session, FreeVolume(s)
  PROVE  /\ KeyOf(s) \in Key /\ KeyOf(s)[2] = UserOf[s] /\ UserOf[s] \in User
         /\ worker.on = s /\ worker.at = "free"
         /\ UNCHANGED <<claim, made, volMap, home, lost, early, session>>
         /\ \/ /\ claim[KeyOf(s)] # Absent /\ claim[KeyOf(s)].vol \in Volume
               /\ worker'.at = "record" /\ worker'.on = s
               /\ worker'.vol = claim[KeyOf(s)].vol
               /\ pv[worker'.vol] # Absent
               /\ pv' = [pv EXCEPT ![worker'.vol] = Freed]
            \/ worker'.at = "idle" /\ pv' = pv
<1>1. worker \in Worker
  BY DEF TypeOK
<1>2. KeyOf(s) \in Key /\ KeyOf(s)[2] = UserOf[s] /\ UserOf[s] \in User
  BY VolumesAssumption DEF KeyOf, Key
<1>3. CASE claim[KeyOf(s)] # Absent /\ Exists(claim[KeyOf(s)].vol)
  <2>1. worker' = [worker EXCEPT !.at = "record", !.vol = claim[KeyOf(s)].vol]
    BY <1>3 DEF FreeVolume
  <2>2. worker'.at = "record" /\ worker'.on = s /\ worker'.vol = claim[KeyOf(s)].vol
    BY <1>1, <2>1 DEF FreeVolume, At, Worker
  <2>3. pv' = [pv EXCEPT ![worker'.vol] = Freed]
    BY <1>3, <2>2 DEF FreeVolume
  <2>4. worker'.vol \in Volume /\ pv[worker'.vol] # Absent
    BY <1>3, <2>2 DEF Exists
  <2>5. QED
    BY <1>2, <1>3, <2>2, <2>3, <2>4 DEF FreeVolume, At, history
<1>4. CASE ~(claim[KeyOf(s)] # Absent /\ Exists(claim[KeyOf(s)].vol))
  BY <1>2, <1>4 DEF FreeVolume, At, Requeue, Idle, history
<1>5. QED
  BY <1>3, <1>4

(* The map names the volume that the pass holds from then on. *)
LEMMA VolumeRecorded ==
  ASSUME TypeOK, NEW s \in Session, RecordVolume(s)
  PROVE  /\ UserOf[s] \in User /\ worker.vol \in Volume
         /\ worker.on = s /\ worker.at = "record"
         /\ worker'.on = s /\ worker'.vol = worker.vol /\ worker'.at \in {"finalize", "report"}
         /\ volMap' = [volMap EXCEPT ![UserOf[s]] = worker.vol]
         /\ UNCHANGED <<claim, pv, made, home, lost, early, session>>
<1>1. worker \in Worker /\ (worker.at = "record" => worker.vol # None)
  BY DEF TypeOK
<1>2. worker.at = "record" /\ worker.on = s /\ worker.vol \in Volume
  BY <1>1 DEF RecordVolume, At, Worker
<1>3. worker'.on = s /\ worker'.vol = worker.vol /\ worker'.at \in {"finalize", "report"}
  BY <1>1, <1>2 DEF RecordVolume, Goto, Worker
<1>4. QED
  BY <1>2, <1>3, VolumesAssumption DEF RecordVolume, history

(* A claim that names no volume gets a new one, which nobody names yet.    *)
LEMMA VolumeMade ==
  ASSUME TypeOK, RetainInv, NEW k \in Key, Provision(k)
  PROVE  /\ made' = made + 1 /\ made + 1 \in Volume /\ pv[made + 1] = Absent
         /\ claim[k] # Absent /\ claim[k].vol = None /\ claim'[k].vol = made + 1
         /\ \A j \in Key : j # k => claim'[j] = claim[j]
         /\ \A v \in Volume : v # made + 1 => pv'[v] = pv[v]
         /\ UNCHANGED <<volMap, home, lost, early, session, worker>>
<1>1. /\ claim \in [Key -> Claim \cup {Absent}] /\ pv \in [Volume -> PV \cup {Absent}]
      /\ made \in 0..MaxVolumes
  BY DEF TypeOK
<1>2. made' = made + 1 /\ made + 1 \in Volume
  BY <1>1, VolumesAssumption DEF Provision, Volume
<1>3. pv[made + 1] = Absent
  BY <1>1, <1>2, VolumesAssumption DEF RetainInv
<1>4. claim'[k].vol = made + 1
  BY <1>1 DEF Provision, Claim
<1>5. QED
  BY <1>1, <1>2, <1>3, <1>4 DEF Provision, history

(* No two users ever name one volume, whatever overlaps or fails: what the *)
(* passes over the sessions of one user free, bind or lose is no volume of *)
(* another.                                                                *)
THEOREM NamesInvariant == Spec => []NamesInv
<1>1. Init => NamesInv
  <2> SUFFICES ASSUME Init PROVE NamesInv
    OBVIOUS
  <2>1. worker.at = "idle" /\ \A k \in Key : claim[k] = Absent
    BY DEF Init, Idle
  <2>2. \A u \in User, v \in Volume : Names(u, v) => volMap[u] = v
    BY <2>1 DEF Names, Claiming, Carrying, WithVolume
  <2>3. \A u \in User, v \in Volume : volMap[u] = v => v <= made
    BY VolumesAssumption DEF Init, Volume
  <2>4. \A v \in Volume : \A u, w \in User : volMap[u] = v /\ volMap[w] = v => u = w
    BY VolumesAssumption DEF Init
  <2>5. QED
    BY <2>1, <2>2, <2>3, <2>4 DEF NamesInv
<1>2. TypeOK /\ RetainInv /\ NamesInv /\ [Next]_vars => NamesInv'
  <2> SUFFICES ASSUME TypeOK, RetainInv, NamesInv, [Next]_vars
               PROVE  NamesInv'
    OBVIOUS
  <2>t. /\ worker.on \in Session \cup {None} /\ made \in 0..MaxVolumes
        /\ volMap \in [User -> Volume \cup {None}]
    BY DEF TypeOK, Worker
  <2>1. ASSUME made' = made,
               worker'.at # "idle" => worker'.on \in Session,
               \A k \in Key : claim'[k] # Absent =>
                 claim[k] # Absent \/ \E s \in Session : KeyOf(s) = k,
               \A u \in User, v \in Volume : Names(u, v)' => Names(u, v)
        PROVE  NamesInv'
    BY <2>1 DEF NamesInv
  <2>2. CASE QuietStep
    <3>1. \A u \in User, v \in Volume : Names(u, v)' => Names(u, v)
      BY <2>2 DEF QuietStep, Names, Claiming, Carrying
    <3>2. QED
      BY <2>1, <2>2, <3>1 DEF QuietStep
  <2>3. ASSUME NEW s \in Session, ReconcileVolumes(s) PROVE NamesInv'
    <3>1. ExistingVol(UserOf[s]) \in {volMap[UserOf[s]], None}
      BY DEF ExistingVol
    <3>2. \A u \in User, v \in Volume : Names(u, v)' => Names(u, v)
      BY <2>3, <3>1, ClaimMade, VolumesAssumption DEF Names, Claiming, Carrying, WithVolume
    <3>3. QED
      BY <2>1, <2>3, <3>2, ClaimMade
  <2>4. ASSUME NEW s \in Session, FreeVolume(s) PROVE NamesInv'
    <3>1. \A u \in User, v \in Volume : Names(u, v)' => Names(u, v)
      BY <2>4, VolumeFreed DEF Names, Claiming, Carrying, WithVolume
    <3>2. QED
      BY <2>1, <2>4, <3>1, VolumeFreed
  <2>5. ASSUME NEW s \in Session, RecordVolume(s) PROVE NamesInv'
    <3>1. \A u \in User, v \in Volume : Names(u, v)' => Names(u, v)
      BY <2>5, <2>t, VolumeRecorded DEF Names, Claiming, Carrying, WithVolume
    <3>2. QED
      BY <2>1, <2>5, <3>1, VolumeRecorded
  <2>6. ASSUME NEW s \in Session, ReportRunning(s) PROVE NamesInv'
    <3>1. worker'.at = "idle" /\ UNCHANGED <<claim, made, volMap>>
      BY <2>6 DEF ReportRunning, Requeue, Idle, cluster
    <3>2. \A u \in User, v \in Volume : Names(u, v)' => Names(u, v)
      BY <3>1 DEF Names, Claiming, Carrying, WithVolume
    <3>3. QED
      BY <2>1, <3>1, <3>2
  <2>7. ASSUME NEW k \in Key, Provision(k) PROVE NamesInv'
    <3>1. k[2] \in User
      BY DEF Key
    <3>2. \A u \in User, v \in Volume :
             Names(u, v)' => Names(u, v) \/ (v = made + 1 /\ u = k[2])
      BY <2>7, VolumeMade DEF Names, Claiming, Carrying
    <3>3. \A u \in User : ~Names(u, made + 1)
      BY <2>7, <2>t, VolumeMade DEF NamesInv
    <3>4. \A v \in Volume : \A u, w \in User : Names(u, v)' /\ Names(w, v)' => u = w
      BY <3>1, <3>2, <3>3 DEF NamesInv
    <3>5. \A u \in User, v \in Volume : Names(u, v)' => v <= made'
      BY <2>7, <2>t, <3>2, VolumeMade DEF NamesInv, Volume
    <3>6. QED
      BY <2>7, <3>4, <3>5, VolumeMade DEF NamesInv
  <2>8. ASSUME NEW v \in Volume, LoseVolume(v) PROVE NamesInv'
    <3>1. UNCHANGED <<claim, made, volMap, worker>>
      BY <2>8 DEF LoseVolume
    <3>2. QED
      BY <2>1, <3>1 DEF NamesInv, Names, Claiming, Carrying
  <2>9. QED
    BY <2>2, <2>3, <2>4, <2>5, <2>6, <2>7, <2>8, QuietSteps
<1>3. QED
  BY <1>1, <1>2, VolumesTypeCorrect, RetainInvariant, PTL DEF Spec

-----------------------------------------------------------------------------
(* All claims of the user name the volume. *)
ClaimsOnly(u, v) == \A k \in Key : k[2] = u /\ claim[k] # Absent => claim[k].vol = v

(* While nobody deletes a volume, the one recorded for a user of one       *)
(* namespace is kept and is what every claim of the user names, as is the  *)
(* one that a pass is about to record; and home holds no other.            *)
Settles(u) ==
    /\ \A v \in Volume : volMap[u] = v \/ Carrying(u, v) => Kept(v) /\ ClaimsOnly(u, v)
    /\ \A v \in Volume : Carrying(u, v) => \/ volMap[u] = v
                                           \/ volMap[u] = None /\ worker.at = "record"
    /\ home[u] \subseteq {volMap[u]} \ {None}

HomeInv == lost = 0 => \A u \in User : OneNamespace(u) => Settles(u)

(* A user of one namespace has one volume in all that names one. *)
THEOREM HomeInvariant == Spec => []HomeInv
<1>1. Init => HomeInv
  <2> SUFFICES ASSUME Init, NEW u \in User PROVE Settles(u)
    BY DEF HomeInv
  <2>1. worker.at = "idle" /\ \A k \in Key : claim[k] = Absent
    BY DEF Init, Idle
  <2>2. \A v \in Volume : ~Carrying(u, v) /\ ClaimsOnly(u, v)
    BY <2>1 DEF Carrying, WithVolume, ClaimsOnly
  <2>3. \A v \in Volume : volMap[u] = v => Kept(v)
    BY FreedIsKept, VolumesAssumption DEF Init, Kept, Volume
  <2>4. QED
    BY <2>2, <2>3 DEF Init, Settles
<1>2. TypeOK /\ RetainInv /\ NamesInv /\ HomeInv /\ [Next]_vars => HomeInv'
  <2> SUFFICES ASSUME TypeOK, RetainInv, NamesInv, HomeInv, [Next]_vars, lost' = 0
               PROVE  \A u \in User : OneNamespace(u) => Settles(u)'
    BY DEF HomeInv, OneNamespace, Sessions
  <2>t. /\ None \notin Volume /\ worker.on \in Session \cup {None}
        /\ volMap \in [User -> Volume \cup {None}] /\ pv \in [Volume -> PV \cup {Absent}]
        /\ home \in [User -> SUBSET Volume] /\ UserOf \in [Session -> User]
    BY VolumesAssumption DEF TypeOK, Worker
  <2> SUFFICES ASSUME NEW u \in User, OneNamespace(u)
               PROVE  Settles(u)'
    OBVIOUS
  <2>h. ASSUME lost = 0 PROVE Settles(u)
    BY <2>h DEF HomeInv
  <2> USE DEF Settles
  <2>1. CASE QuietStep
    <3>1. lost = 0
      BY <2>1 DEF QuietStep
    <3>2. \A v \in Volume : Carrying(u, v)' => Carrying(u, v)
      BY <2>1 DEF QuietStep, Carrying
    <3>3. \A v \in Volume : ClaimsOnly(u, v) => ClaimsOnly(u, v)'
      BY <2>1 DEF QuietStep, ClaimsOnly
    <3>4. QED
      BY <2>1, <2>h, <3>1, <3>2, <3>3 DEF QuietStep, Carrying
  <2>2. ASSUME NEW s \in Session, ReconcileVolumes(s) PROVE Settles(u)'
    <3>1. lost = 0 /\ \A v \in Volume : ~Carrying(u, v)'
      BY <2>2, ClaimMade DEF Carrying, WithVolume
    <3>2. \A v \in Volume : volMap[u] = v => ClaimsOnly(u, v)'
      <4> SUFFICES ASSUME NEW v \in Volume, volMap[u] = v PROVE ClaimsOnly(u, v)'
        OBVIOUS
      <4>1. Kept(v) /\ ClaimsOnly(u, v)
        BY <2>h, <3>1
      <4>2. UserOf[s] = u => ExistingVol(UserOf[s]) = v
        BY <4>1 DEF Kept, ExistingVol, Exists
      <4>3. QED
        BY <2>2, <4>1, <4>2, ClaimMade DEF ClaimsOnly
    <3>3. \A v \in Volume : Kept(v) => Kept(v)'
      BY <2>2, ClaimMade DEF Kept
    <3>4. QED
      BY <2>2, <2>h, <3>1, <3>2, <3>3, ClaimMade
  <2>3. ASSUME NEW s \in Session, FreeVolume(s) PROVE Settles(u)'
    <3>1. lost = 0 /\ UNCHANGED <<claim, volMap, home>>
      BY <2>3, VolumeFreed
    <3>2. \A v \in Volume : Kept(v) => Kept(v)'
      BY <2>3, <2>t, VolumeFreed, FreedIsKept DEF Kept
    <3>3. \A v \in Volume : ClaimsOnly(u, v)' <=> ClaimsOnly(u, v)
      BY <3>1 DEF ClaimsOnly
    <3>4. ASSUME NEW v \in Volume, Carrying(u, v)'
          PROVE  Kept(v)' /\ ClaimsOnly(u, v) /\ (volMap[u] = v \/ volMap[u] = None)
                 /\ worker'.at = "record"
      <4>1. /\ worker'.at = "record" /\ worker'.vol = v /\ UserOf[s] = u
            /\ claim[KeyOf(s)] # Absent /\ claim[KeyOf(s)].vol = v
            /\ pv' = [pv EXCEPT ![v] = Freed]
        BY <2>3, <3>4, VolumeFreed DEF Carrying, WithVolume
      <4>2. Kept(v)'
        BY <2>t, <4>1, FreedIsKept DEF Kept
      <4>3. ClaimsOnly(u, v)
        BY <4>1, OneKey DEF ClaimsOnly
      <4>4. volMap[u] \in Volume => ClaimsOnly(u, volMap[u])
        BY <2>h, <3>1
      <4>5. volMap[u] = v \/ volMap[u] = None
        BY <2>3, <2>t, <4>1, <4>4, VolumeFreed DEF ClaimsOnly
      <4>6. QED
        BY <4>1, <4>2, <4>3, <4>5
    <3>5. QED
      BY <2>h, <3>1, <3>2, <3>3, <3>4
  <2>4. ASSUME NEW s \in Session, RecordVolume(s) PROVE Settles(u)'
    <3> DEFINE v == worker.vol
    <3>1. /\ lost = 0 /\ v \in Volume /\ worker'.vol = v /\ worker'.on = s
          /\ UNCHANGED <<claim, pv, home>> /\ volMap' = [volMap EXCEPT ![UserOf[s]] = v]
      BY <2>4, VolumeRecorded
    <3>2. \A x \in Volume : (Kept(x)' <=> Kept(x)) /\ (ClaimsOnly(u, x)' <=> ClaimsOnly(u, x))
      BY <3>1 DEF Kept, ClaimsOnly
    <3>3. CASE UserOf[s] = u
      <4>1. volMap'[u] = v /\ \A x \in Volume : Carrying(u, x)' => x = v
        BY <2>t, <3>1, <3>3 DEF Carrying
      <4>2. Carrying(u, v)
        BY <2>4, <3>3, VolumeRecorded DEF Carrying, WithVolume
      <4>3. home[u] \subseteq {v}
        BY <2>h, <3>1, <4>2
      <4>4. QED
        BY <2>h, <2>t, <3>1, <3>2, <4>1, <4>2, <4>3
    <3>4. CASE UserOf[s] # u
      <4>1. volMap'[u] = volMap[u] /\ \A x \in Volume : ~Carrying(u, x)'
        BY <2>t, <3>1, <3>4 DEF Carrying
      <4>2. QED
        BY <2>h, <3>1, <3>2, <4>1
    <3>5. QED
      BY <3>3, <3>4
  <2>5. ASSUME NEW s \in Session, ReportRunning(s) PROVE Settles(u)'
    <3>1. /\ lost = 0 /\ UNCHANGED <<claim, pv, volMap>> /\ worker'.at = "idle"
          /\ worker.at = "report" /\ worker.on = s
          /\ home' = home \/ home' = [home EXCEPT ![UserOf[s]] = @ \cup {worker.vol}]
      BY <2>5 DEF ReportRunning, Requeue, Idle, At, cluster
    <3>2. worker.vol \in Volume
      BY <3>1 DEF TypeOK, Worker
    <3>3. \A x \in Volume : /\ (Kept(x)' <=> Kept(x)) /\ (ClaimsOnly(u, x)' <=> ClaimsOnly(u, x))
                            /\ ~Carrying(u, x)'
      BY <3>1 DEF Kept, ClaimsOnly, Carrying, WithVolume
    <3>4. home'[u] \subseteq {volMap[u]} \ {None}
      <4>1. CASE UserOf[s] = u
        <5>1. Carrying(u, worker.vol)
          BY <3>1, <4>1 DEF Carrying, WithVolume
        <5>2. volMap[u] = worker.vol
          BY <2>h, <3>1, <3>2, <5>1
        <5>3. QED
          BY <2>h, <2>t, <3>1, <3>2, <4>1, <5>2
      <4>2. CASE UserOf[s] # u
        BY <2>h, <2>t, <3>1, <4>2
      <4>3. QED
        BY <4>1, <4>2
    <3>5. QED
      BY <2>h, <3>1, <3>3, <3>4
  <2>6. ASSUME NEW k \in Key, Provision(k) PROVE Settles(u)'
    <3>1. lost = 0 /\ UNCHANGED <<volMap, worker, home>>
      BY <2>6, VolumeMade
    <3>2. \A v \in Volume : Kept(v) => Kept(v)'
      BY <2>6, VolumeMade DEF Kept
    <3>3. \A v \in Volume : Carrying(u, v)' <=> Carrying(u, v)
      BY <3>1 DEF Carrying
    <3>4. \A v \in Volume : ClaimsOnly(u, v) => ClaimsOnly(u, v)'
      BY <2>6, <2>t, VolumeMade DEF ClaimsOnly
    <3>5. QED
      BY <2>h, <3>1, <3>2, <3>3, <3>4
  <2>7. ASSUME NEW v \in Volume, LoseVolume(v) PROVE FALSE
    BY <2>7 DEF LoseVolume, TypeOK
  <2>8. QED
    BY <2>1, <2>2, <2>3, <2>4, <2>5, <2>6, <2>7, QuietSteps
<1>3. QED
  BY <1>1, <1>2, VolumesTypeCorrect, RetainInvariant, NamesInvariant, PTL DEF Spec

(* A user who stays in one namespace has all sessions on one volume, as    *)
(* long as nobody deletes it: no overlap of sessions, no failed pass and   *)
(* no crash makes a second home.                                           *)
THEOREM OneHomeHolds == Spec => []OneHome
<1>1. HomeInv => OneHome
  <2> SUFFICES ASSUME HomeInv, NEW u \in User, OneNamespace(u), lost = 0
               PROVE  Cardinality(home[u]) <= 1
    BY DEF OneHome
  <2>1. home[u] \subseteq {volMap[u]}
    BY DEF HomeInv, Settles
  <2>2. IsFiniteSet({volMap[u]}) /\ Cardinality({volMap[u]}) = 1
    BY FS_Singleton
  <2>3. QED
    BY <2>1, <2>2, FS_Subset
<1>2. QED
  BY <1>1, HomeInvariant, PTL

-----------------------------------------------------------------------------
Present(s) == session[s] \in {"live", "deleting"}
AtRest(u)  == \A s \in Sessions(u) : ~Present(s)

(* Nothing has the recorded volume of the user, and nothing asks for it.   *)
Loose(u) ==
    Exists(volMap[u]) =>
      pv[volMap[u]].claim = None /\ \A v \in Volume : v = volMap[u] => ~Claiming(u, v)

(* The recorded volume of a user at rest is loose: the pass that takes the *)
(* last session away has seen the claim gone and the volume free, and no   *)
(* claim is made for a user of whom no session is there.                   *)
FreeInv ==
    /\ worker.at \in Live => Present(worker.on) \/ UserOf[worker.on] \in early
    /\ worker.at \in Reclaiming => session[worker.on] = "deleting"
    /\ worker.at = "reclaimVolume" => claim[KeyOf(worker.on)] = Absent
    /\ worker.at = "release" /\ OneNamespace(UserOf[worker.on]) => Loose(UserOf[worker.on])
    /\ \A u \in User \ early : OneNamespace(u) /\ AtRest(u) => Loose(u)

(* Only a pass over a session of the user gives the recorded volume away:  *)
(* the claims of the others name other volumes.                            *)
LEMMA LooseStays ==
  ASSUME TypeOK, RetainInv, NamesInv, [Next]_vars, NEW u \in User, Loose(u),
         \A s \in Session : ReconcileVolumes(s) \/ RecordVolume(s) => UserOf[s] # u
  PROVE  Loose(u)'
<1> USE VolumesAssumption DEF cluster, history
<1>t. /\ claim \in [Key -> Claim \cup {Absent}] /\ pv \in [Volume -> PV \cup {Absent}]
      /\ volMap \in [User -> Volume \cup {None}] /\ None \notin Volume /\ None \notin Key
  BY DEF TypeOK
<1>1. ASSUME volMap'[u] = volMap[u],
             \A k \in Key : claim'[k] # Absent => claim[k] # Absent /\ claim'[k].vol = claim[k].vol,
             \A v \in Volume : v = volMap[u] /\ pv'[v] # Absent =>
               pv[v] # Absent /\ (pv[v].claim = None => pv'[v].claim = None)
      PROVE  Loose(u)'
  BY <1>1, <1>t DEF Loose, Exists, Claiming
<1>2. ASSUME UNCHANGED <<claim, pv, volMap>> PROVE Loose(u)'
  BY <1>1, <1>2
<1>3. ASSUME NEW s \in Session,
             \/ Start(s) \/ Delete(s) \/ Begin(s) \/ ReconcilePod(s) \/ EnsureFinalizers(s)
             \/ ReportRunning(s) \/ ReclaimPod(s) \/ ReleaseFinalizer(s)
             \/ PodRuns(s) \/ PodStops(s) \/ CollectPod(s)
      PROVE  Loose(u)'
  BY <1>2, <1>3 DEF Start, Delete, Begin, ReconcilePod, EnsureFinalizers, ReportRunning,
       ReclaimPod, ReleaseFinalizer, PodRuns, PodStops, CollectPod
<1>4. ASSUME NEW s \in Session, ReconcileVolumes(s) PROVE Loose(u)'
  <2>1. \A k \in Key : k[2] = u => claim'[k] = claim[k]
    BY <1>4, ClaimMade
  <2>2. QED
    BY <1>4, <1>t, <2>1, ClaimMade DEF Loose, Exists, Claiming
<1>5. ASSUME NEW s \in Session, RecordVolume(s) PROVE Loose(u)'
  <2>1. volMap'[u] = volMap[u] /\ UNCHANGED <<claim, pv>>
    BY <1>5, <1>t, VolumeRecorded
  <2>2. QED
    BY <1>1, <2>1
<1>6. ASSUME NEW s \in Session, FreeVolume(s) \/ ReclaimVolume(s) PROVE Loose(u)'
  <2>1. UNCHANGED <<claim, volMap>>
    BY <1>6 DEF FreeVolume, ReclaimVolume
  <2>2. \A v \in Volume : pv'[v] = pv[v] \/ (pv[v] # Absent /\ pv'[v] = Freed)
    BY <1>6, <1>t DEF FreeVolume, ReclaimVolume, Exists
  <2>3. QED
    BY <1>1, <2>1, <2>2, FreedIsKept
<1>7. ASSUME NEW s \in Session, ReclaimClaim(s) PROVE Loose(u)'
  <2>1. \A k \in Key : \/ claim'[k] = claim[k]
                       \/ claim[k] # Absent /\ claim'[k] = [claim[k] EXCEPT !.deleting = TRUE]
    BY <1>7, <1>t DEF ReclaimClaim
  <2>2. \A k \in Key : claim'[k] # Absent => claim[k] # Absent /\ claim'[k].vol = claim[k].vol
    BY ZenonT(30), <1>t, <2>1, ClaimKeepsVolume
  <2>3. QED
    BY <1>1, <1>7, <2>2 DEF ReclaimClaim
<1>8. CASE PassFails
  BY <1>2, <1>8 DEF PassFails
<1>9. ASSUME NEW k \in Key, CollectClaim(k) PROVE Loose(u)'
  <2>1. \A j \in Key : \/ claim'[j] = claim[j]
                       \/ claim[j] # Absent /\ claim'[j] = [claim[j] EXCEPT !.deleting = TRUE]
    BY <1>9, <1>t DEF CollectClaim
  <2>2. \A j \in Key : claim'[j] # Absent => claim[j] # Absent /\ claim'[j].vol = claim[j].vol
    BY ZenonT(30), <1>t, <2>1, ClaimKeepsVolume
  <2>3. QED
    BY <1>1, <1>9, <2>2 DEF CollectClaim
<1>10. ASSUME NEW k \in Key, RemoveClaim(k) PROVE Loose(u)'
  <2>1. \A v \in Volume : pv'[v] # Absent =>
          pv[v] # Absent /\ (pv[v].claim = None => pv'[v].claim = None)
    BY <1>10, <1>t DEF RemoveClaim
  <2>2. QED
    BY <1>1, <1>10, <1>t, <2>1 DEF RemoveClaim
<1>11. ASSUME NEW k \in Key, Bind(k) PROVE Loose(u)'
  <2>1. \A j \in Key : \/ claim'[j] = claim[j]
                       \/ claim[j] # Absent /\ claim'[j] = [claim[j] EXCEPT !.bound = TRUE]
    BY <1>11, <1>t DEF Bind
  <2>2. \A j \in Key : claim'[j] # Absent => claim[j] # Absent /\ claim'[j].vol = claim[j].vol
    BY ZenonT(30), <1>t, <2>1, ClaimKeepsVolume
  <2>3. ASSUME NEW v \in Volume, v = volMap[u], pv'[v] # Absent
        PROVE  pv'[v] = pv[v]
    <3>1. pv[v] # Absent
      BY <1>11, <1>t, <2>3 DEF Bind
    <3>2. k[2] \in User
      BY DEF Key
    <3>3. claim[k].vol # v
      <4> SUFFICES ASSUME claim[k].vol = v PROVE FALSE
        OBVIOUS
      <4>1. Claiming(k[2], v)
        BY <1>11 DEF Bind, Claiming
      <4>2. k[2] = u
        BY <2>3, <3>2, <4>1 DEF NamesInv, Names
      <4>3. QED
        BY <2>3, <3>1, <4>1, <4>2 DEF Loose, Exists
    <3>4. QED
      BY <1>11, <1>t, <3>3 DEF Bind
  <2>4. QED
    BY <1>1, <1>11, <2>2, <2>3 DEF Bind
<1>12. ASSUME NEW k \in Key, Provision(k) PROVE Loose(u)'
  <2>1. \A v \in Volume : v = volMap[u] => v # made + 1
    <3>1. \A v \in Volume : v = volMap[u] => v <= made
      BY DEF NamesInv, Names
    <3>2. made + 1 > made
      BY DEF TypeOK
    <3>3. QED
      BY <3>1, <3>2 DEF TypeOK, Volume
  <2>2. QED
    BY <1>12, <1>t, <2>1, VolumeMade DEF Loose, Exists, Claiming
<1>13. ASSUME NEW v \in Volume, LoseVolume(v) PROVE Loose(u)'
  BY <1>1, <1>13, <1>t DEF LoseVolume
<1>14. CASE UNCHANGED vars
  BY <1>2, <1>14 DEF vars
<1>15. QED
  BY <1>3, <1>4, <1>5, <1>6, <1>7, <1>8, <1>9, <1>10, <1>11, <1>12, <1>13, <1>14
     DEF Next, Pass, Kubernetes

(* The worker is where it was, has ended its pass or goes on with it, or   *)
(* begins one; and what it has seen when it comes to the last two steps of *)
(* a pass that takes a session away.                                       *)
PassStep ==
    /\ \/ worker'.at = "idle"
       \/ /\ worker'.on = worker.on
          /\ (worker'.at \in Live) = (worker.at \in Live)
          /\ (worker'.at \in Reclaiming) = (worker.at \in Reclaiming)
       \/ \E s \in Session : Begin(s)
    /\ worker'.at = "reclaimVolume" => worker' = worker \/ claim'[KeyOf(worker'.on)] = Absent
    /\ worker'.at = "release" => \/ worker' = worker
                                 \/ volMap'[UserOf[worker'.on]] = None
                                 \/ ReclaimVolume(worker'.on)

LEMMA PassSteps ==
  ASSUME TypeOK, NamesInv, [Next]_vars
  PROVE  PassStep
<1>t. worker \in Worker
  BY DEF TypeOK
<1>g. ASSUME NEW l, Goto(l)
      PROVE  worker'.at = l /\ worker'.on = worker.on
  BY <1>g, <1>t DEF Goto, Worker
<1> USE DEF PassStep, Live, Reclaiming
<1>1. ASSUME worker' = worker PROVE PassStep
  BY <1>1
<1>2. ASSUME worker'.at = "idle" PROVE PassStep
  BY <1>2
<1>r. ASSUME Requeue PROVE PassStep
  BY <1>2, <1>r DEF Requeue, Idle
<1>3. ASSUME worker.at \in Live, worker'.at \in Live, worker'.on = worker.on PROVE PassStep
  BY <1>3
<1>4. ASSUME NEW s \in Session, Start(s) \/ Delete(s) \/ PodRuns(s) \/ PodStops(s) \/ CollectPod(s)
      PROVE  PassStep
  BY <1>1, <1>4 DEF Start, Delete, PodRuns, PodStops, CollectPod
<1>5. ASSUME NEW s \in Session, Begin(s) PROVE PassStep
  <2>1. worker'.at \in {"volumes", "reclaimPod"}
    BY <1>5 DEF Begin, Idle
  <2>2. QED
    BY <1>5, <2>1
<1>6. ASSUME NEW s \in Session, ReconcileVolumes(s) \/ RecordVolume(s) PROVE PassStep
  <2>1. worker.at \in Live
    BY <1>6 DEF ReconcileVolumes, RecordVolume, At
  <2>2. worker'.at \in Live /\ worker'.on = worker.on
    BY <1>6, ClaimMade, VolumeRecorded DEF ReconcileVolumes, At
  <2>3. QED
    BY <1>3, <2>1, <2>2
<1>7. ASSUME NEW s \in Session, ReconcilePod(s) \/ EnsureFinalizers(s) PROVE PassStep
  <2>1. worker.at \in Live /\ (Goto("free") \/ Goto("report") \/ Requeue)
    BY <1>7 DEF ReconcilePod, EnsureFinalizers, At
  <2>2. QED
    BY <1>3, <1>g, <1>r, <2>1
<1>8. ASSUME NEW s \in Session, FreeVolume(s) PROVE PassStep
  BY <1>2, <1>3, <1>8, VolumeFreed
<1>9. ASSUME NEW s \in Session, ReportRunning(s) \/ ReleaseFinalizer(s) PROVE PassStep
  BY <1>9, <1>r DEF ReportRunning, ReleaseFinalizer
<1>10. ASSUME NEW s \in Session, ReclaimPod(s) PROVE PassStep
  <2>1. worker.at = "reclaimPod" /\ (Goto("reclaimClaim") \/ Requeue)
    BY <1>10 DEF ReclaimPod, At
  <2>2. QED
    BY <1>g, <1>r, <2>1
<1>11. ASSUME NEW s \in Session, ReclaimClaim(s) PROVE PassStep
  <2>1. worker.at = "reclaimClaim" /\ worker.on = s /\ volMap' = volMap
    BY <1>11 DEF ReclaimClaim, At
  <2>2. \/ Requeue
        \/ Goto("release") /\ volMap[UserOf[s]] = None
        \/ Goto("reclaimVolume") /\ claim[KeyOf(s)] = Absent /\ claim' = claim
    BY <1>11 DEF ReclaimClaim
  <2>3. QED
    BY <1>g, <1>r, <2>1, <2>2
<1>12. ASSUME NEW s \in Session, ReclaimVolume(s) PROVE PassStep
  <2>1. worker.at = "reclaimVolume" /\ worker.on = s /\ (Goto("release") \/ Requeue)
    BY <1>12 DEF ReclaimVolume, At
  <2>2. QED
    BY <1>12, <1>g, <1>r, <2>1
<1>13. CASE PassFails
  BY <1>13, <1>r DEF PassFails
<1>14. ASSUME NEW k \in Key, CollectClaim(k) \/ RemoveClaim(k) \/ Bind(k) \/ Provision(k)
       PROVE  PassStep
  BY <1>1, <1>14 DEF CollectClaim, RemoveClaim, Bind, Provision
<1>15. ASSUME NEW v \in Volume, LoseVolume(v) PROVE PassStep
  BY <1>1, <1>15 DEF LoseVolume
<1>16. CASE UNCHANGED vars
  BY <1>1, <1>16 DEF vars
<1>17. QED
  BY <1>4, <1>5, <1>6, <1>7, <1>8, <1>9, <1>10, <1>11, <1>12, <1>13, <1>14, <1>15, <1>16
     DEF Next, Pass, Kubernetes

(* A session goes when a pass takes its finalizer off, or at once, and its *)
(* user is one who lost a session early then.                              *)
LEMMA SessionSteps ==
  ASSUME TypeOK, [Next]_vars
  PROVE  /\ early \subseteq early'
         /\ \A s \in Session : \/ ReleaseFinalizer(s)
                               \/ /\ session[s] = "deleting" => session'[s] = "deleting"
                                  /\ Present(s) => Present(s)' \/ UserOf[s] \in early'
<1> USE VolumesAssumption DEF cluster, history
<1>t. session \in [Session -> {"new", "live", "deleting", "gone"}]
  BY DEF TypeOK
<1> DEFINE Stays(s) == /\ session[s] = "deleting" => session'[s] = "deleting"
                       /\ Present(s) => Present(s)' \/ UserOf[s] \in early'
           Goal == early \subseteq early' /\ \A s \in Session : ReleaseFinalizer(s) \/ Stays(s)
<1>1. ASSUME UNCHANGED <<session, early>> PROVE Goal
  BY <1>1 DEF Present
<1>2. ASSUME NEW s \in Session, Start(s) \/ Delete(s) PROVE Goal
  BY <1>2, <1>t DEF Start, Delete, Present
<1>3. ASSUME NEW s \in Session, ReleaseFinalizer(s) PROVE Goal
  BY <1>3, <1>t DEF ReleaseFinalizer, Present
<1>4. ASSUME NEW s \in Session, Begin(s) \/ PodRuns(s) \/ PodStops(s) \/ CollectPod(s)
      PROVE  Goal
  BY <1>1, <1>4 DEF Begin, PodRuns, PodStops, CollectPod
<1>5. ASSUME NEW s \in Session, Pass(s), ~ReleaseFinalizer(s) PROVE Goal
  BY <1>1, <1>5 DEF Pass, ReconcileVolumes, ReconcilePod, FreeVolume, RecordVolume,
       EnsureFinalizers, ReportRunning, ReclaimPod, ReclaimClaim, ReclaimVolume
<1>6. ASSUME NEW k \in Key, CollectClaim(k) \/ RemoveClaim(k) \/ Bind(k) \/ Provision(k)
      PROVE  Goal
  BY <1>1, <1>6 DEF CollectClaim, RemoveClaim, Bind, Provision
<1>7. ASSUME NEW v \in Volume, LoseVolume(v) PROVE Goal
  BY <1>1, <1>7 DEF LoseVolume
<1>8. CASE PassFails \/ UNCHANGED vars
  BY <1>1, <1>8 DEF PassFails, vars
<1>9. Goal
  BY <1>2, <1>3, <1>4, <1>5, <1>6, <1>7, <1>8 DEF Next, Kubernetes
<1>10. QED
  BY <1>9

(* The recorded volume of a user at rest is loose, in every behaviour. *)
THEOREM FreeInvariant == Spec => []FreeInv
<1>1. Init => FreeInv
  <2> SUFFICES ASSUME Init PROVE FreeInv
    OBVIOUS
  <2>1. worker.at = "idle" /\ \A k \in Key : claim[k] = Absent
    BY DEF Init, Idle
  <2>2. \A u \in User : Loose(u)
    BY <2>1, FreedIsKept, VolumesAssumption DEF Init, Loose, Exists, Claiming
  <2>3. QED
    BY <2>1, <2>2 DEF FreeInv, Live, Reclaiming
<1>2. TypeOK /\ RetainInv /\ NamesInv /\ FreeInv /\ [Next]_vars => FreeInv'
  <2> SUFFICES ASSUME TypeOK, RetainInv, NamesInv, FreeInv, [Next]_vars
               PROVE  FreeInv'
    OBVIOUS
  <2>t. /\ worker \in Worker /\ UserOf \in [Session -> User] /\ None \notin Volume
        /\ worker.at # "idle" => worker.on \in Session
    BY VolumesAssumption DEF TypeOK, NamesInv
  <2>a. PassStep
    BY PassSteps
  <2>b. ASSUME NEW s \in Session, ReleaseFinalizer(s)
        PROVE  worker'.at = "idle" /\ worker.at = "release" /\ worker.on = s
    BY <2>b DEF ReleaseFinalizer, Requeue, Idle, At
  <2>c. ASSUME NEW s \in Session, Begin(s)
        PROVE  /\ worker'.on = s /\ UNCHANGED <<session, early>>
               /\ \/ session[s] = "live" /\ worker'.at = "volumes"
                  \/ session[s] = "deleting" /\ worker'.at = "reclaimPod"
    BY <2>c DEF Begin, Idle, cluster, history
  <2>d. ASSUME NEW s \in Session, ReconcileVolumes(s) \/ RecordVolume(s)
        PROVE  worker.on = s /\ worker.at \in Live /\ UNCHANGED <<session, early>>
    BY <2>d DEF ReconcileVolumes, RecordVolume, At, Live, history
  <2>1. (worker.at \in Live => Present(worker.on) \/ UserOf[worker.on] \in early)'
    <3> SUFFICES ASSUME worker'.at \in Live
                 PROVE  Present(worker.on)' \/ UserOf[worker'.on] \in early'
      OBVIOUS
    <3>1. worker'.at # "idle" /\ \A s \in Session : ~ReleaseFinalizer(s)
      BY <2>b DEF Live
    <3>2. CASE worker'.on = worker.on /\ worker.at \in Live
      <4>1. worker.on \in Session /\ (Present(worker.on) \/ UserOf[worker.on] \in early)
        BY <2>t, <3>2 DEF FreeInv, Live
      <4>2. PICK s \in Session : s = worker.on /\ s = worker'.on
        BY <3>2, <4>1
      <4>3. Present(s)' \/ UserOf[s] \in early'
        BY <3>1, <4>1, <4>2, SessionSteps
      <4>4. QED
        BY <4>2, <4>3 DEF Present
    <3>3. ASSUME NEW s \in Session, Begin(s) PROVE Present(worker.on)'
      BY <2>c, <3>3 DEF Present, Live
    <3>4. QED
      BY <2>a, <3>1, <3>2, <3>3 DEF PassStep
  <2>2. (worker.at \in Reclaiming => session[worker.on] = "deleting")'
    <3> SUFFICES ASSUME worker'.at \in Reclaiming
                 PROVE  session'[worker'.on] = "deleting"
      OBVIOUS
    <3>1. worker'.at # "idle" /\ \A s \in Session : ~ReleaseFinalizer(s)
      BY <2>b DEF Reclaiming
    <3>2. CASE worker'.on = worker.on /\ worker.at \in Reclaiming
      <4>1. worker.on \in Session /\ session[worker.on] = "deleting"
        BY <2>t, <3>2 DEF FreeInv, Reclaiming
      <4>2. QED
        BY <3>1, <3>2, <4>1, SessionSteps
    <3>3. CASE \E s \in Session : Begin(s)
      BY <2>c, <3>3 DEF Reclaiming
    <3>4. QED
      BY <2>a, <3>1, <3>2, <3>3 DEF PassStep
  <2>3. (worker.at = "reclaimVolume" => claim[KeyOf(worker.on)] = Absent)'
    <3> SUFFICES ASSUME worker'.at = "reclaimVolume", worker' = worker
                 PROVE  claim'[KeyOf(worker.on)] = Absent
      BY <2>a DEF PassStep
    <3>1. KeyOf(worker.on) \in Key /\ claim[KeyOf(worker.on)] = Absent
      BY <2>t, VolumesAssumption DEF FreeInv, KeyOf, Key
    <3>2. CASE QuietStep
      BY <3>1, <3>2 DEF QuietStep
    <3>3. ASSUME NEW s \in Session,
                 ReconcileVolumes(s) \/ FreeVolume(s) \/ RecordVolume(s) \/ ReportRunning(s)
          PROVE  FALSE
      BY <3>3 DEF ReconcileVolumes, FreeVolume, RecordVolume, ReportRunning, At
    <3>4. ASSUME NEW k \in Key, Provision(k) PROVE claim'[KeyOf(worker.on)] = Absent
      BY <3>1, <3>4, VolumeMade
    <3>5. ASSUME NEW v \in Volume, LoseVolume(v) PROVE claim'[KeyOf(worker.on)] = Absent
      BY <3>1, <3>5 DEF LoseVolume
    <3>6. QED
      BY <3>2, <3>3, <3>4, <3>5, QuietSteps
  <2>4. (worker.at = "release" /\ OneNamespace(UserOf[worker.on]) => Loose(UserOf[worker.on]))'
    <3> SUFFICES ASSUME worker'.at = "release", NEW u \in User, UserOf[worker'.on] = u,
                        OneNamespace(u)
                 PROVE  Loose(u)'
      <4>1. worker'.at = "release" => UserOf[worker'.on] \in User
        BY <2>a, <2>c, <2>t DEF PassStep, Reclaiming
      <4>2. QED
        BY <4>1 DEF Loose, Exists, Claiming, OneNamespace, Sessions
    <3>1. CASE worker' = worker
      <4>1. Loose(u)
        BY <3>1 DEF FreeInv
      <4>2. \A s \in Session : ~(ReconcileVolumes(s) \/ RecordVolume(s))
        BY <2>d, <3>1 DEF Live
      <4>3. QED
        BY <4>1, <4>2, LooseStays
    <3>2. CASE volMap'[u] = None
      BY <2>t, <3>2 DEF Loose, Exists
    <3>3. ASSUME NEW s \in Session, s = worker'.on, ReclaimVolume(s) PROVE Loose(u)'
      <4>1. worker.on = s /\ worker.at = "reclaimVolume" /\ UserOf[s] = u
        BY <3>3 DEF ReclaimVolume, At
      <4>2. /\ claim[KeyOf(s)] = Absent /\ UNCHANGED <<claim, volMap>>
        BY <3>3, <4>1 DEF FreeInv, ReclaimVolume
      <4>3. \A v \in Volume : ~Claiming(u, v)
        BY <3>3, <4>1, <4>2, OneKey DEF Claiming
      <4>4. pv' = pv /\ (Exists(volMap[u]) => pv[volMap[u]] = Freed)
        BY <3>3, <4>1 DEF ReclaimVolume, Requeue, Idle
      <4>5. QED
        BY <4>2, <4>3, <4>4, FreedIsKept DEF Loose, Exists, Claiming
    <3>4. QED
      BY <2>a, <2>t, <3>1, <3>2, <3>3 DEF PassStep, ReclaimVolume, At
  <2>5. ASSUME NEW u \in User \ early', OneNamespace(u), AtRest(u)'
        PROVE  Loose(u)'
    <3>1. u \notin early
      BY SessionSteps
    <3>2. Loose(u)
      <4>1. CASE \E s \in Session : ReleaseFinalizer(s) /\ UserOf[s] = u
        BY <2>5, <2>b, <4>1 DEF FreeInv
      <4>2. CASE ~\E s \in Session : ReleaseFinalizer(s) /\ UserOf[s] = u
        <5>1. AtRest(u)
          BY <2>5, <4>2, SessionSteps DEF AtRest, Sessions
        <5>2. QED
          BY <2>5, <3>1, <5>1 DEF FreeInv
      <4>3. QED
        BY <4>1, <4>2
    <3>3. ASSUME NEW s \in Session, ReconcileVolumes(s) \/ RecordVolume(s)
          PROVE  UserOf[s] # u
      <4>1. Present(s)' \/ UserOf[s] \in early
        BY <2>d, <3>3 DEF FreeInv, Present
      <4>2. QED
        BY <2>5, <3>1, <4>1 DEF AtRest, Sessions
    <3>4. QED
      BY <3>2, <3>3, LooseStays
  <2>6. QED
    BY <2>1, <2>2, <2>3, <2>4, <2>5 DEF FreeInv, OneNamespace, Sessions
<1>3. QED
  BY <1>1, <1>2, VolumesTypeCorrect, RetainInvariant, NamesInvariant, PTL DEF Spec

(* The volume of a user of one namespace is free for the next session when *)
(* all have ended, unless one was deleted before it had its finalizer.     *)
THEOREM FreedHolds == Spec => []FreedUnlessDeletedEarly
<1>1. FreeInv => FreedUnlessDeletedEarly
  <2> SUFFICES ASSUME FreeInv, NEW u \in User \ early, OneNamespace(u), Settled(u),
                      Exists(volMap[u])
               PROVE  pv[volMap[u]].claim = None
    BY DEF FreedUnlessDeletedEarly
  <2>1. AtRest(u)
    BY DEF Settled, AtRest, Present
  <2>2. QED
    BY <2>1 DEF FreeInv, Loose
<1>2. QED
  BY <1>1, FreeInvariant, PTL
=============================================================================
