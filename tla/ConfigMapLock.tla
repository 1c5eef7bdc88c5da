--------------------------- MODULE ConfigMapLock ---------------------------
(***************************************************************************)
(* The lock of pkg/util/lock/lock.go: a ConfigMap whose name is the name   *)
(* of the lock. Whoever creates it holds the lock, whoever deletes it      *)
(* frees it. Every call to the API server is a step of its own, so other   *)
(* goroutines, other pods, the garbage collector and the clock run between *)
(* any two of them.                                                        *)
(*                                                                         *)
(* A process is one goroutine that takes the lock and releases it, any     *)
(* number of times. The goroutines of one pod share the owner reference    *)
(* the code writes into the ConfigMap, the UID of the pod.                 *)
(***************************************************************************)
EXTENDS Integers, FiniteSets

CONSTANTS Proc,       \* goroutines that use this lock
          Pod,        \* UIDs of the pods they run in
          PodOf,      \* the pod of each goroutine
          Timeout,    \* the timeout each gives to New, in seconds
          Absent,     \* the ConfigMap does not exist
          MaxTime,    \* bound: the clock stops here
          MaxFaults   \* bound: calls to the API server that go wrong

NoExpiry == -1        \* Data without an expiresAt key

(* The ConfigMap. Its owner reference names PodOf[by].                     *)
CM == [by : Proc, expires : Int]

ASSUME LockAssumption ==
    /\ PodOf \in [Proc -> Pod]
    /\ Timeout \in [Proc -> Int]
    /\ MaxTime \in Nat
    /\ MaxFaults \in Nat
    /\ Absent \notin CM
    /\ Absent \notin Proc

VARIABLES now,        \* the clock the pods share
          faults,     \* calls that have gone wrong
          dead,       \* pods that are gone
          cm,         \* the ConfigMap in the API server, or Absent
          pc,         \* where each goroutine is in Acquire and Release
          deadline,   \* failTimeout and expiresAt, both fixed when Acquire starts
          seen,       \* the expiresAt of the ConfigMap that Acquire last read
          outlived    \* history: some ConfigMap was there after its expiry

vars == <<now, faults, dead, cm, pc, deadline, seen, outlived>>
env  == <<now, faults, dead>>

Acquiring == {"create", "get", "check", "delStale", "late", "recreate"}
Holding   == {"held", "relGet", "relDelete"}

TypeOK ==
    /\ now \in Int /\ faults \in Int
    /\ dead \subseteq Pod
    /\ cm \in CM \cup {Absent}
    /\ pc \in [Proc -> {"idle", "failed", "dead"} \cup Acquiring \cup Holding]
    /\ deadline \in [Proc -> Int]
    /\ seen \in [Proc -> Int]
    /\ outlived \in BOOLEAN

Init ==
    /\ now = 0 /\ faults = 0 /\ dead = {}
    /\ cm = Absent
    /\ pc = [p \in Proc |-> "idle"]
    /\ deadline = [p \in Proc |-> 0]
    /\ seen = [p \in Proc |-> NoExpiry]
    /\ outlived = FALSE

Goto(p, l) == pc' = [pc EXCEPT ![p] = l]

Timed(p) == Timeout[p] > 0

(* The ConfigMap that p builds once, before its first attempt: it has an   *)
(* expiry only when the timeout is positive.                               *)
ConfigMapFor(p) == [by |-> p, expires |-> IF Timed(p) THEN deadline[p] ELSE NoExpiry]

IsExpired(expires, t) == expires # NoExpiry /\ t > expires

Outlives(c, t) == outlived \/ (c # Absent /\ IsExpired(c.expires, t))

(* A call fails, and its effect on the API server may be lost or may have  *)
(* happened although the caller sees an error.                             *)
Fault(cmAfter) ==
    /\ faults < MaxFaults
    /\ faults' = faults + 1
    /\ cm' \in {cm, cmAfter}
    /\ outlived' = Outlives(cm', now)
    /\ UNCHANGED <<now, dead>>

-----------------------------------------------------------------------------
(* Acquire *)

(* GetThisPod, then failTimeout and the ConfigMap are computed. The guard  *)
(* on MaxTime keeps the deadline within the clock.                         *)
Start(p) ==
    /\ pc[p] \in {"idle", "failed"}
    /\ Timed(p) => now + Timeout[p] < MaxTime
    /\ deadline' = [deadline EXCEPT ![p] = now + Timeout[p]]
    /\ Goto(p, "create")
    /\ UNCHANGED <<env, cm, seen, outlived>>

(* GetThisPod fails: Acquire returns the error. *)
StartFails(p) ==
    /\ pc[p] \in {"idle", "failed"}
    /\ Fault(cm)
    /\ Goto(p, "failed")
    /\ UNCHANGED <<deadline, seen>>

(* Broken Create: an update-or-create instead of a create. *)
CreateOverwrites(p) ==
    /\ pc[p] = "create"
    /\ cm' = ConfigMapFor(p)
    /\ outlived' = Outlives(cm', now)
    /\ Goto(p, "held")
    /\ UNCHANGED <<env, deadline, seen>>

(* The Create that opens every attempt of Retry. *)
Create(p) ==
    /\ pc[p] = "create"
    /\ \/ /\ cm = Absent
          /\ cm' = ConfigMapFor(p)
          /\ outlived' = Outlives(cm', now)
          /\ Goto(p, "held")
          /\ UNCHANGED <<env, deadline, seen>>
       \/ /\ cm # Absent
          /\ Goto(p, "get")
          /\ UNCHANGED <<env, cm, deadline, seen, outlived>>

(* Any other error leaves the attempt, Retry sleeps and starts the next.   *)
CreateFails(p) ==
    /\ pc[p] \in {"create", "recreate"}
    /\ Fault(IF cm = Absent THEN ConfigMapFor(p) ELSE cm)
    /\ Goto(p, "create")
    /\ UNCHANGED <<deadline, seen>>

(* Get after AlreadyExists: gone means another Create, otherwise the       *)
(* expiry that was read is checked.                                        *)
Get(p) ==
    /\ pc[p] = "get"
    /\ IF cm = Absent
         THEN Goto(p, "recreate") /\ UNCHANGED seen
         ELSE Goto(p, "check") /\ seen' = [seen EXCEPT ![p] = cm.expires]
    /\ UNCHANGED <<env, cm, deadline, outlived>>

(* A failed Get, or a failed Delete of a stale lock, ends the attempt.     *)
AttemptFails(p) ==
    /\ \/ pc[p] = "get" /\ Fault(cm)
       \/ pc[p] = "delStale" /\ Fault(Absent)
    /\ Goto(p, "create")
    /\ UNCHANGED <<deadline, seen>>

(* checkExistingLockExpiry decides on what Get returned and on the clock:  *)
(* a lock without expiry is stale for an acquirer that has a timeout.      *)
Stale(p) == IF seen[p] = NoExpiry THEN Timed(p) ELSE IsExpired(seen[p], now)

(* Broken Check: a stale lock is reported as an error and left there. *)
CheckOnlyReports(p) ==
    /\ pc[p] = "check"
    /\ Goto(p, IF Stale(p) THEN "create" ELSE "late")
    /\ UNCHANGED <<env, cm, deadline, seen, outlived>>

Check(p) ==
    /\ pc[p] = "check"
    /\ Goto(p, IF Stale(p) THEN "delStale" ELSE "late")
    /\ UNCHANGED <<env, cm, deadline, seen, outlived>>

(* releaseLock deletes by name: whatever ConfigMap is there now goes, and  *)
(* none being there is no error.                                           *)
DeleteStale(p) ==
    /\ pc[p] = "delStale"
    /\ cm' = Absent
    /\ Goto(p, "late")
    /\ UNCHANGED <<env, deadline, seen, outlived>>

(* The deadline is looked at only here, after a failed Create. *)
Late(p) ==
    /\ pc[p] = "late"
    /\ Goto(p, IF Timed(p) /\ now > deadline[p] THEN "failed" ELSE "recreate")
    /\ UNCHANGED <<env, cm, deadline, seen, outlived>>

(* The last Create of an attempt: AlreadyExists is an error like another.  *)
Recreate(p) ==
    /\ pc[p] = "recreate"
    /\ IF cm = Absent
         THEN cm' = ConfigMapFor(p) /\ Goto(p, "held")
         ELSE cm' = cm /\ Goto(p, "create")
    /\ outlived' = Outlives(cm', now)
    /\ UNCHANGED <<env, deadline, seen>>

-----------------------------------------------------------------------------
(* Release *)

Release(p) ==
    /\ pc[p] = "held"
    /\ Goto(p, "relGet")
    /\ UNCHANGED <<env, cm, deadline, seen, outlived>>

(* Broken ReleaseGet: the owner check the wrong way round. *)
ReleaseGetInverted(p) ==
    /\ pc[p] = "relGet"
    /\ Goto(p, IF cm # Absent /\ PodOf[cm.by] # PodOf[p] THEN "relDelete" ELSE "idle")
    /\ UNCHANGED <<env, cm, deadline, seen, outlived>>

(* Get: nothing to do when the ConfigMap is gone, an error when its owner  *)
(* is another pod, otherwise it is deleted.                                *)
ReleaseGet(p) ==
    /\ pc[p] = "relGet"
    /\ Goto(p, IF cm # Absent /\ PodOf[cm.by] = PodOf[p] THEN "relDelete" ELSE "idle")
    /\ UNCHANGED <<env, cm, deadline, seen, outlived>>

ReleaseDelete(p) ==
    /\ pc[p] = "relDelete"
    /\ cm' = Absent
    /\ Goto(p, "idle")
    /\ UNCHANGED <<env, deadline, seen, outlived>>

(* Release returns the error of a failed call and is not tried again. *)
ReleaseFails(p) ==
    /\ \/ pc[p] = "relGet" /\ Fault(cm)
       \/ pc[p] = "relDelete" /\ Fault(Absent)
    /\ Goto(p, "idle")
    /\ UNCHANGED <<deadline, seen>>

-----------------------------------------------------------------------------
(* The cluster *)

Tick ==
    /\ now < MaxTime
    /\ now' = now + 1
    /\ outlived' = Outlives(cm, now + 1)
    /\ UNCHANGED <<faults, dead, cm, pc, deadline, seen>>

(* A pod is gone, and its goroutines with it. *)
PodGone(d) ==
    /\ d \notin dead
    /\ dead' = dead \cup {d}
    /\ pc' = [p \in Proc |-> IF PodOf[p] = d THEN "dead" ELSE pc[p]]
    /\ UNCHANGED <<now, faults, cm, deadline, seen, outlived>>

(* The garbage collector deletes a ConfigMap whose owner is gone. *)
CollectGarbage ==
    /\ cm # Absent /\ PodOf[cm.by] \in dead
    /\ cm' = Absent
    /\ UNCHANGED <<env, pc, deadline, seen, outlived>>

AcquireStep(p) ==
    Create(p) \/ Get(p) \/ Check(p) \/ DeleteStale(p) \/ Late(p) \/ Recreate(p)

ReleaseStep(p) == ReleaseGet(p) \/ ReleaseDelete(p)

Step(p) ==
    \/ Start(p) \/ StartFails(p)
    \/ AcquireStep(p) \/ CreateFails(p) \/ AttemptFails(p)
    \/ Release(p) \/ ReleaseStep(p) \/ ReleaseFails(p)

Next ==
    \/ \E p \in Proc : Step(p)
    \/ Tick
    \/ \E d \in Pod : PodGone(d)
    \/ CollectGarbage

Spec == Init /\ [][Next]_vars

(* A goroutine inside Acquire or Release goes on, the clock runs and the   *)
(* garbage collector works. Nobody has to take the lock, and whoever has   *)
(* it may keep it for ever.                                                *)
Fairness ==
    /\ \A p \in Proc : WF_vars(AcquireStep(p)) /\ WF_vars(ReleaseStep(p))
    /\ WF_vars(Tick)
    /\ WF_vars(CollectGarbage)

FairSpec == Spec /\ Fairness

-----------------------------------------------------------------------------
Holders == {p \in Proc : pc[p] \in Holding}
Inside  == {p \in Proc : pc[p] = "held"}

(* Without expiry (the display and audio locks of get_websockify.go) a     *)
(* goroutine between a successful Acquire and the end of Release owns the  *)
(* ConfigMap, whatever the API server loses and whichever pods die.        *)
HolderOwnsConfigMap == \A p \in Holders : cm # Absent /\ cm.by = p

(* Why it does: no ConfigMap has an expiry, so nobody finds one stale.     *)
ForeverInv ==
    /\ TypeOK
    /\ cm # Absent => cm.expires = NoExpiry
    /\ \A p \in Proc : seen[p] = NoExpiry /\ pc[p] # "delStale"
    /\ \A p \in Proc : PodOf[p] \in dead => pc[p] = "dead"
    /\ HolderOwnsConfigMap

(* Hence no two goroutines are inside such a lock at once, not even two of *)
(* one pod, whose ConfigMaps carry the same owner.                         *)
MutualExclusion == \A p, q \in Inside : p = q

(* The lock without expiry implements the abstract one: the creator of the *)
(* ConfigMap is the grantee.                                               *)
Abstract == INSTANCE ExclusiveLock
              WITH User <- Proc, Nobody <- Absent,
                   grantee <- IF cm = Absent THEN Absent ELSE cm.by,
                   inside <- Inside

ImplementsExclusiveLock == Abstract!Spec

(* lock.go:46-49: another attempt blocks until it can create the           *)
(* ConfigMap, "or if the lock expires". So as long as no ConfigMap has     *)
(* been there past its expiry, at most one goroutine holds the lock.       *)
ExclusionUntilExpiry == ~outlived => MutualExclusion

(* An Acquire with a timeout returns: held, failed or dead with its pod,   *)
(* even when the holder never releases and some API calls fail.            *)
AcquireReturns ==
    \A p \in Proc : Timed(p) => (pc[p] \in Acquiring ~> pc[p] \notin Acquiring)

(* Without expiry, goroutines never end up all waiting for a lock that     *)
(* nobody holds, unless a call has failed: the lock of a dead pod is       *)
(* collected, and a Release that has begun lets a waiter in.               *)
NeverAllWaiting ==
    []<>((\E p \in Proc : pc[p] \in Acquiring) => Inside # {} \/ faults > 0)
=============================================================================
