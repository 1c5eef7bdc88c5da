------------------------- MODULE ConfigMapLockProofs -------------------------
(***************************************************************************)
(* Proofs about ConfigMapLock for every set of goroutines and pods, any    *)
(* number of failed calls and any run of the clock.                        *)
(***************************************************************************)
EXTENDS ConfigMapLock, TLAPS

(* No user of the lock gives New a positive timeout. *)
NoTimeouts == \A p \in Proc : ~Timed(p)

(* Every value the lock protocol keeps stays of its type, with timeouts or *)
(* without.                                                                *)
THEOREM TypeCorrect == Spec => []TypeOK
<1>1. Init => TypeOK
  <2> SUFFICES ASSUME Init PROVE TypeOK
    OBVIOUS
  <2>1. seen \in [Proc -> Int] /\ deadline \in [Proc -> Int]
    BY DEF Init, NoExpiry
  <2>2. pc \in [Proc -> {"idle", "failed", "dead"} \cup Acquiring \cup Holding]
    BY DEF Init
  <2>3. outlived \in BOOLEAN
    BY DEF Init
  <2>4. QED
    BY <2>1, <2>2, <2>3 DEF Init, TypeOK
<1>2. TypeOK /\ [Next]_vars => TypeOK'
  <2> SUFFICES ASSUME TypeOK, [Next]_vars
               PROVE  TypeOK'
    OBVIOUS
  <2> USE LockAssumption DEF TypeOK, Goto, Acquiring, Holding, env, CM, Outlives, IsExpired
  <2>0. ASSUME NEW p \in Proc
        PROVE  ConfigMapFor(p) \in CM
    BY DEF ConfigMapFor, NoExpiry
  <2>1. ASSUME NEW p \in Proc, Start(p) PROVE TypeOK'
    BY <2>1 DEF Start
  <2>2. ASSUME NEW p \in Proc, StartFails(p) PROVE TypeOK'
    BY <2>2 DEF StartFails, Fault
  <2>3. ASSUME NEW p \in Proc, Create(p) PROVE TypeOK'
    BY <2>0, <2>3 DEF Create
  <2>4. ASSUME NEW p \in Proc, CreateFails(p) PROVE TypeOK'
    BY <2>0, <2>4 DEF CreateFails, Fault
  <2>5. ASSUME NEW p \in Proc, Get(p) PROVE TypeOK'
    BY <2>5 DEF Get
  <2>6. ASSUME NEW p \in Proc, AttemptFails(p) PROVE TypeOK'
    <3>1. CASE pc[p] = "get" /\ Fault(cm)
      BY <2>6, <3>1 DEF AttemptFails, Fault
    <3>2. CASE pc[p] = "delStale" /\ Fault(Absent)
      BY <2>6, <3>2 DEF AttemptFails, Fault
    <3>3. QED
      BY <2>6, <3>1, <3>2 DEF AttemptFails
  <2>7. ASSUME NEW p \in Proc, Check(p) PROVE TypeOK'
    BY <2>7 DEF Check
  <2>8. ASSUME NEW p \in Proc, DeleteStale(p) PROVE TypeOK'
    BY <2>8 DEF DeleteStale
  <2>9. ASSUME NEW p \in Proc, Late(p) PROVE TypeOK'
    BY <2>9 DEF Late
  <2>10. ASSUME NEW p \in Proc, Recreate(p) PROVE TypeOK'
    BY <2>0, <2>10 DEF Recreate
  <2>11. ASSUME NEW p \in Proc, Release(p) PROVE TypeOK'
    BY <2>11 DEF Release
  <2>12. ASSUME NEW p \in Proc, ReleaseGet(p) PROVE TypeOK'
    BY <2>12 DEF ReleaseGet
  <2>13. ASSUME NEW p \in Proc, ReleaseDelete(p) PROVE TypeOK'
    BY <2>13 DEF ReleaseDelete
  <2>14. ASSUME NEW p \in Proc, ReleaseFails(p) PROVE TypeOK'
    <3>1. CASE pc[p] = "relGet" /\ Fault(cm)
      BY <2>14, <3>1 DEF ReleaseFails, Fault
    <3>2. CASE pc[p] = "relDelete" /\ Fault(Absent)
      BY <2>14, <3>2 DEF ReleaseFails, Fault
    <3>3. QED
      BY <2>14, <3>1, <3>2 DEF ReleaseFails
  <2>15. CASE Tick
    BY <2>15 DEF Tick
  <2>16. ASSUME NEW d \in Pod, PodGone(d) PROVE TypeOK'
    BY <2>16 DEF PodGone
  <2>17. CASE CollectGarbage
    BY <2>17 DEF CollectGarbage
  <2>18. CASE UNCHANGED vars
    BY <2>18 DEF vars
  <2>19. QED
    BY <2>1, <2>2, <2>3, <2>4, <2>5, <2>6, <2>7, <2>8, <2>9, <2>10, <2>11, <2>12,
       <2>13, <2>14, <2>15, <2>16, <2>17, <2>18
       DEF Next, Step, AcquireStep, ReleaseStep
<1>3. QED
  BY <1>1, <1>2, PTL DEF Spec

(* The invariant behind mutual exclusion: when no timeout is positive no   *)
(* ConfigMap has an expiry, no goroutine deletes one as stale, every       *)
(* goroutine that holds the lock owns the ConfigMap and none runs in a pod *)
(* that is gone, whose ConfigMap may be collected.                         *)
LEMMA ForeverInvariant == NoTimeouts => (Spec => []ForeverInv)
<1> SUFFICES ASSUME NoTimeouts PROVE Spec => []ForeverInv
  OBVIOUS
<1>1. Init /\ TypeOK => ForeverInv
  BY DEF Init, ForeverInv, TypeOK, HolderOwnsConfigMap, Holders, Holding
<1>2. ForeverInv /\ TypeOK' /\ [Next]_vars => ForeverInv'
  <2> SUFFICES ASSUME ForeverInv, TypeOK', [Next]_vars
               PROVE  ForeverInv'
    OBVIOUS
  <2> USE LockAssumption
      DEF ForeverInv, TypeOK, HolderOwnsConfigMap, Holders, Holding, Goto, env
  <2>0. ASSUME NEW p \in Proc
        PROVE  ConfigMapFor(p).by = p /\ ConfigMapFor(p).expires = NoExpiry
               /\ ConfigMapFor(p) # Absent
    BY DEF ConfigMapFor, NoTimeouts, CM, NoExpiry
  <2>1. ASSUME NEW p \in Proc, Start(p) PROVE ForeverInv'
    BY <2>1 DEF Start
  <2>2. ASSUME NEW p \in Proc, StartFails(p) PROVE ForeverInv'
    BY <2>2 DEF StartFails, Fault
  <2>3. ASSUME NEW p \in Proc, Create(p) PROVE ForeverInv'
    BY <2>0, <2>3 DEF Create
  <2>4. ASSUME NEW p \in Proc, CreateFails(p) PROVE ForeverInv'
    BY <2>0, <2>4 DEF CreateFails, Fault
  <2>5. ASSUME NEW p \in Proc, Get(p) PROVE ForeverInv'
    BY <2>5 DEF Get
  <2>6. ASSUME NEW p \in Proc, AttemptFails(p) PROVE ForeverInv'
    BY <2>6 DEF AttemptFails, Fault
  <2>7. ASSUME NEW p \in Proc, Check(p) PROVE ForeverInv'
    BY <2>7 DEF Check, Stale, NoTimeouts
  <2>8. ASSUME NEW p \in Proc, DeleteStale(p) PROVE ForeverInv'
    BY <2>8 DEF DeleteStale
  <2>9. ASSUME NEW p \in Proc, Late(p) PROVE ForeverInv'
    BY <2>9 DEF Late
  <2>10. ASSUME NEW p \in Proc, Recreate(p) PROVE ForeverInv'
    BY <2>0, <2>10 DEF Recreate
  <2>11. ASSUME NEW p \in Proc, Release(p) PROVE ForeverInv'
    BY <2>11 DEF Release
  <2>12. ASSUME NEW p \in Proc, ReleaseGet(p) PROVE ForeverInv'
    BY <2>12 DEF ReleaseGet
  <2>13. ASSUME NEW p \in Proc, ReleaseDelete(p) PROVE ForeverInv'
    BY <2>13 DEF ReleaseDelete
  <2>14. ASSUME NEW p \in Proc, ReleaseFails(p) PROVE ForeverInv'
    BY <2>14 DEF ReleaseFails, Fault
  <2>15. CASE Tick
    BY <2>15 DEF Tick
  <2>16. ASSUME NEW d \in Pod, PodGone(d) PROVE ForeverInv'
    BY <2>16 DEF PodGone
  <2>17. CASE CollectGarbage
    BY <2>17 DEF CollectGarbage
  <2>18. CASE UNCHANGED vars
    BY <2>18 DEF vars
  <2>19. QED
    BY <2>1, <2>2, <2>3, <2>4, <2>5, <2>6, <2>7, <2>8, <2>9, <2>10, <2>11, <2>12,
       <2>13, <2>14, <2>15, <2>16, <2>17, <2>18
       DEF Next, Step, AcquireStep, ReleaseStep
<1>3. QED
  BY <1>1, <1>2, TypeCorrect, PTL DEF Spec

(* A goroutine that holds a lock without expiry owns the ConfigMap, until  *)
(* Release has deleted it.                                                 *)
THEOREM HolderOwns == NoTimeouts => (Spec => []HolderOwnsConfigMap)
<1>1. ForeverInv => HolderOwnsConfigMap
  BY DEF ForeverInv
<1>2. QED
  BY <1>1, ForeverInvariant, PTL

(* Two goroutines are never inside a lock without expiry at once: a        *)
(* display or audio stream of a session has one viewer at a time.          *)
THEOREM MutuallyExclusive == NoTimeouts => (Spec => []MutualExclusion)
<1>1. ForeverInv => MutualExclusion
  BY DEF ForeverInv, HolderOwnsConfigMap, MutualExclusion, Inside, Holders, Holding
<1>2. QED
  BY <1>1, ForeverInvariant, PTL

(* While no call has failed, whose lock it is: that of a goroutine that    *)
(* holds it or is at its Release, or of one whose pod is gone, so that the *)
(* garbage collector takes it. With timeouts too, where a goroutine may    *)
(* find the ConfigMap of another in the place of its own.                  *)
NobodysLock == faults = 0 /\ cm # Absent => cm.by \in Holders \/ PodOf[cm.by] \in dead

LeftInv == faults \in Nat /\ NobodysLock

(* Nobody leaves the lock behind: Release deletes the ConfigMap of its     *)
(* goroutine whenever it is there, and an Acquire that gives up has not    *)
(* made one.                                                               *)
THEOREM LeftByNobody == Spec => []NobodysLock
<1>1. Init => LeftInv
  BY DEF Init, LeftInv, NobodysLock
<1>2. TypeOK /\ LeftInv /\ [Next]_vars => LeftInv'
  <2> SUFFICES ASSUME TypeOK, LeftInv, [Next]_vars
               PROVE  LeftInv'
    OBVIOUS
  <2> USE LockAssumption
      DEF LeftInv, NobodysLock, TypeOK, CM, Holders, Holding, Goto, env
  <2>0. ASSUME NEW p \in Proc
        PROVE  ConfigMapFor(p).by = p
    BY DEF ConfigMapFor
  <2>1. ASSUME NEW p \in Proc, Start(p) PROVE LeftInv'
    BY <2>1 DEF Start
  <2>2. ASSUME NEW after, Fault(after) PROVE LeftInv'
    BY <2>2 DEF Fault
  <2>3. ASSUME NEW p \in Proc, Create(p) PROVE LeftInv'
    BY <2>0, <2>3 DEF Create
  <2>4. ASSUME NEW p \in Proc, Get(p) PROVE LeftInv'
    BY <2>4 DEF Get
  <2>5. ASSUME NEW p \in Proc, Check(p) PROVE LeftInv'
    BY <2>5 DEF Check
  <2>6. ASSUME NEW p \in Proc, DeleteStale(p) PROVE LeftInv'
    BY <2>6 DEF DeleteStale
  <2>7. ASSUME NEW p \in Proc, Late(p) PROVE LeftInv'
    BY <2>7 DEF Late
  <2>8. ASSUME NEW p \in Proc, Recreate(p) PROVE LeftInv'
    BY <2>0, <2>8 DEF Recreate
  <2>9. ASSUME NEW p \in Proc, Release(p) PROVE LeftInv'
    BY <2>9 DEF Release
  <2>10. ASSUME NEW p \in Proc, ReleaseGet(p) PROVE LeftInv'
    BY <2>10 DEF ReleaseGet
  <2>11. ASSUME NEW p \in Proc, ReleaseDelete(p) PROVE LeftInv'
    BY <2>11 DEF ReleaseDelete
  <2>12. CASE Tick
    BY <2>12 DEF Tick
  <2>13. ASSUME NEW d \in Pod, PodGone(d) PROVE LeftInv'
    BY <2>13 DEF PodGone
  <2>14. CASE CollectGarbage
    BY <2>14 DEF CollectGarbage
  <2>15. CASE UNCHANGED vars
    BY <2>15 DEF vars
  <2>16. ASSUME NEW p \in Proc, StartFails(p) \/ CreateFails(p) \/ AttemptFails(p) \/ ReleaseFails(p)
         PROVE  LeftInv'
    <3>1. \E after : Fault(after)
      BY <2>16 DEF StartFails, CreateFails, AttemptFails, ReleaseFails
    <3>2. QED
      BY <2>2, <3>1
  <2>17. QED
    BY <2>1, <2>3, <2>4, <2>5, <2>6, <2>7, <2>8, <2>9, <2>10, <2>11, <2>12, <2>13, <2>14, <2>15, <2>16
       DEF Next, Step, AcquireStep, ReleaseStep
<1>3. LeftInv => NobodysLock
  BY DEF LeftInv
<1>4. QED
  BY <1>1, <1>2, <1>3, TypeCorrect, PTL DEF Spec

(* The lock without expiry implements ExclusiveLock: every step of every   *)
(* goroutine, of the garbage collector and of the clock is a grant, a      *)
(* leave, a free or a stutter of the abstract lock.                        *)
THEOREM Implements == NoTimeouts => (Spec => ImplementsExclusiveLock)
<1> SUFFICES ASSUME NoTimeouts PROVE Spec => Abstract!Spec
  BY DEF ImplementsExclusiveLock
<1>1. Init => Abstract!Init
  BY DEF Init, Abstract!Init, Inside
<1>2. ForeverInv /\ TypeOK' /\ [Next]_vars => [Abstract!Next]_(Abstract!vars)
  <2> SUFFICES ASSUME ForeverInv, TypeOK', [Next]_vars
               PROVE  [Abstract!Next]_(Abstract!vars)
    OBVIOUS
  <2> DEFINE grantee == IF cm = Absent THEN Absent ELSE cm.by
  <2> USE LockAssumption
      DEF ForeverInv, TypeOK, HolderOwnsConfigMap, Holders, Holding, Goto, env, Inside
  <2>0. ASSUME NEW p \in Proc
        PROVE  ConfigMapFor(p).by = p /\ ConfigMapFor(p) # Absent
    BY DEF ConfigMapFor, CM, NoExpiry
  <2>S. ASSUME grantee' = grantee, Inside' = Inside
        PROVE  [Abstract!Next]_(Abstract!vars)
    BY <2>S DEF Abstract!vars
  <2>L. ASSUME NEW S \in SUBSET Proc, grantee' = grantee, Inside' = Inside \ S
        PROVE  [Abstract!Next]_(Abstract!vars)
    BY <2>L DEF Abstract!Next, Abstract!Leave
  <2>G. ASSUME NEW p \in Proc, grantee = Absent, grantee' = p,
               Inside' \in {Inside, Inside \cup {p}}
        PROVE  [Abstract!Next]_(Abstract!vars)
    BY <2>G DEF Abstract!Next, Abstract!Grant
  <2>F. ASSUME grantee \notin Inside, grantee' = Absent, Inside' = Inside
        PROVE  [Abstract!Next]_(Abstract!vars)
    BY <2>F DEF Abstract!Next, Abstract!Free
  <2>1. ASSUME NEW p \in Proc, Start(p) PROVE [Abstract!Next]_(Abstract!vars)
    BY <2>1, <2>S DEF Start
  <2>2. ASSUME NEW p \in Proc, StartFails(p) PROVE [Abstract!Next]_(Abstract!vars)
    BY <2>2, <2>S DEF StartFails, Fault
  <2>3. ASSUME NEW p \in Proc, Create(p) PROVE [Abstract!Next]_(Abstract!vars)
    <3>1. CASE cm = Absent
      BY <2>0, <2>3, <3>1, <2>G DEF Create
    <3>2. CASE cm # Absent
      BY <2>3, <3>2, <2>S DEF Create
    <3>3. QED
      BY <3>1, <3>2
  <2>4. ASSUME NEW p \in Proc, CreateFails(p) PROVE [Abstract!Next]_(Abstract!vars)
    <3>1. Inside' = Inside
      BY <2>4 DEF CreateFails, Fault
    <3>2. CASE cm' = cm
      BY <3>1, <3>2, <2>S
    <3>3. CASE cm' # cm
      <4>1. cm = Absent /\ cm' = ConfigMapFor(p)
        BY <2>4, <3>3 DEF CreateFails, Fault
      <4>2. QED
        BY <2>0, <3>1, <4>1, <2>G
    <3>4. QED
      BY <3>2, <3>3
  <2>5. ASSUME NEW p \in Proc, Get(p) PROVE [Abstract!Next]_(Abstract!vars)
    BY <2>5, <2>S DEF Get
  <2>6. ASSUME NEW p \in Proc, AttemptFails(p) PROVE [Abstract!Next]_(Abstract!vars)
    BY <2>6, <2>S DEF AttemptFails, Fault
  <2>7. ASSUME NEW p \in Proc, Check(p) PROVE [Abstract!Next]_(Abstract!vars)
    BY <2>7, <2>S DEF Check
  <2>8. ASSUME NEW p \in Proc, DeleteStale(p) PROVE [Abstract!Next]_(Abstract!vars)
    BY <2>8 DEF DeleteStale
  <2>9. ASSUME NEW p \in Proc, Late(p) PROVE [Abstract!Next]_(Abstract!vars)
    BY <2>9, <2>S DEF Late
  <2>10. ASSUME NEW p \in Proc, Recreate(p) PROVE [Abstract!Next]_(Abstract!vars)
    <3>1. CASE cm = Absent
      BY <2>0, <2>10, <3>1, <2>G DEF Recreate
    <3>2. CASE cm # Absent
      BY <2>10, <3>2, <2>S DEF Recreate
    <3>3. QED
      BY <3>1, <3>2
  <2>11. ASSUME NEW p \in Proc, Release(p) PROVE [Abstract!Next]_(Abstract!vars)
    <3>1. Inside' = Inside \ {p}
      BY <2>11 DEF Release
    <3>2. QED
      BY <2>11, <3>1, <2>L DEF Release
  <2>12. ASSUME NEW p \in Proc, ReleaseGet(p) PROVE [Abstract!Next]_(Abstract!vars)
    BY <2>12, <2>S DEF ReleaseGet
  <2>13. ASSUME NEW p \in Proc, ReleaseDelete(p) PROVE [Abstract!Next]_(Abstract!vars)
    BY <2>13, <2>F DEF ReleaseDelete
  <2>14. ASSUME NEW p \in Proc, ReleaseFails(p) PROVE [Abstract!Next]_(Abstract!vars)
    <3>1. Inside' = Inside
      BY <2>14 DEF ReleaseFails, Fault
    <3>2. CASE cm' = cm
      BY <3>1, <3>2, <2>S
    <3>3. CASE cm' # cm
      <4>1. pc[p] = "relDelete" /\ cm' = Absent
        BY <2>14, <3>3 DEF ReleaseFails, Fault
      <4>2. QED
        BY <3>1, <4>1, <2>F
    <3>4. QED
      BY <3>2, <3>3
  <2>15. CASE Tick
    BY <2>15, <2>S DEF Tick
  <2>16. ASSUME NEW d \in Pod, PodGone(d) PROVE [Abstract!Next]_(Abstract!vars)
    <3> DEFINE S == {p \in Proc : PodOf[p] = d}
    <3>1. Inside' = Inside \ S
      BY <2>16 DEF PodGone
    <3>2. QED
      BY <2>16, <3>1, <2>L DEF PodGone
  <2>17. CASE CollectGarbage
    BY <2>17, <2>F DEF CollectGarbage
  <2>18. CASE UNCHANGED vars
    BY <2>18, <2>S DEF vars
  <2>19. QED
    BY <2>1, <2>2, <2>3, <2>4, <2>5, <2>6, <2>7, <2>8, <2>9, <2>10, <2>11, <2>12,
       <2>13, <2>14, <2>15, <2>16, <2>17, <2>18
       DEF Next, Step, AcquireStep, ReleaseStep
<1>3. QED
  BY <1>1, <1>2, ForeverInvariant, TypeCorrect, PTL DEF Spec, Abstract!Spec
=============================================================================
