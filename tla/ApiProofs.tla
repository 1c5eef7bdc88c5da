------------------------------- MODULE ApiProofs -------------------------------
(***************************************************************************)
(* Proofs about parts that run beside each other in and around the API     *)
(* server: SecretEngine for any number of requests, replicas, entries and  *)
(* failing calls, where replicas that are not alone know of each other;    *)
(* the claims of ExternalLogin for any replicas, posts and visits, and the *)
(* roles it makes of any directory; Kvdictl for any number of places,      *)
(* roles, rules and invocations; the vault's tokens of VaultToken for any  *)
(* lease, margin and outages.                                              *)
(***************************************************************************)
EXTENDS SecretEngine, ExternalLogin, Kvdictl, VaultToken,
        WellFoundedInduction, FiniteSetTheorems, SequenceTheorems, TLAPS


(* Two replicas know that there are others. One alone need not.            *)
PeersKnown == \A e, f \in Engine : e # f => e \in KnowsPeers /\ f \in KnowsPeers

(* What deleting the remote lock does to the history. *)
LEMMA DeleteIs ==
    ASSUME TypeOK, DeleteRemote
    PROVE  /\ remote' = Free /\ lapsed' \in BOOLEAN
           /\ lapsed => lapsed'
           /\ \A q \in Request : remote = q /\ InSection(q) => lapsed'
<1>1. \A q \in Request : q # Free
  BY EngineAssumption
<1>2. QED
  BY <1>1, Zenon DEF DeleteRemote, TypeOK

(* The types are kept, whatever the replicas know.                         *)
LEMMA TypeStep == TypeOK /\ [Next]_vars => TypeOK'
<1> SUFFICES ASSUME TypeOK, [Next]_vars PROVE TypeOK'
  OBVIOUS
<1>d. DeleteRemote => remote' = Free /\ lapsed' \in BOOLEAN
  BY DeleteIs
<1> USE EngineAssumption DEF TypeOK, Steps, Goto, Return, OneFault, bounds, lock
<1>0. \A r \in Request : EngineOf[r] \in Engine
  OBVIOUS
<1>1. \A r \in Request : Data!Applied(op[r], read[r]) \in Data!Table
  BY DEF Data!Applied, Data!Table, Data!Op
<1>2. ASSUME NEW r \in Request, LockMutex(r) PROVE TypeOK'
  BY <1>0, <1>2 DEF LockMutex
<1>3. ASSUME NEW r \in Request, Acquire(r) PROVE TypeOK'
  BY <1>3 DEF Acquire
<1>4. ASSUME NEW r \in Request, Steal(r) PROVE TypeOK'
  BY <1>d, <1>4 DEF Steal
<1>5. ASSUME NEW r \in Request, Read(r) PROVE TypeOK'
  BY <1>5 DEF Read
<1>6. ASSUME NEW r \in Request, Get(r) PROVE TypeOK'
  BY <1>6 DEF Get
<1>7. ASSUME NEW r \in Request, Put(r) PROVE TypeOK'
  BY <1>1, <1>7 DEF Put
<1>8. ASSUME NEW r \in Request, PutConflicts(r) PROVE TypeOK'
  BY <1>8 DEF PutConflicts
<1>9. ASSUME NEW r \in Request, ReleaseGet(r) PROVE TypeOK'
  BY <1>0, <1>9 DEF ReleaseGet, Unlocked
<1>10. ASSUME NEW r \in Request, ReleaseDelete(r) PROVE TypeOK'
  BY <1>d, <1>0, <1>10 DEF ReleaseDelete, Unlocked
<1>11. ASSUME NEW r \in Request, CreateLost(r) PROVE TypeOK'
  BY <1>11 DEF CreateLost
<1>12. ASSUME NEW r \in Request, AcquireFails(r) PROVE TypeOK'
  BY <1>12 DEF AcquireFails
<1>13. ASSUME NEW r \in Request, CallFails(r) PROVE TypeOK'
  BY <1>1, <1>13 DEF CallFails
<1>14. ASSUME NEW r \in Request, ReleaseFails(r) PROVE TypeOK'
  BY <1>d, <1>0, <1>14 DEF ReleaseFails, Unlocked
<1>15. CASE WriteOtherKey
  BY <1>15 DEF WriteOtherKey
<1>16. CASE UNCHANGED vars
  BY <1>16 DEF vars
<1>17. QED
  BY <1>2, <1>3, <1>4, <1>5, <1>6, <1>7, <1>8, <1>9, <1>10, <1>11,
     <1>12, <1>13, <1>14, <1>15, <1>16 DEF Next, Work

(* The types hold at the start. *)
LEMMA TypeInit == Init => TypeOK
<1>1. Init => lapsed \in BOOLEAN
  BY Zenon DEF Init
<1>2. QED
  BY <1>1, EngineAssumption DEF Init, TypeOK, Steps

(* The types of the engines' state (the mutexes, the remote lock, the      *)
(* secret), for any requests, replicas and failures.                       *)
THEOREM EngineTypeCorrect == Spec => []TypeOK
<1>1. QED
  BY TypeInit, TypeStep, PTL DEF Spec

-----------------------------------------------------------------------------
HasMutex(r) == pc[r] \in {"acquire", "read", "get", "put", "release", "delete", "stuck"}
Unanswered(r) == pc[r] \in {"lock", "acquire", "read", "get", "put"}

(* A request that is past the mutex has it. The remote lock may go at any  *)
(* time; but while none has gone under a request at work, every request at *)
(* work that needs it has it.                                              *)
Locked ==
    /\ \A r \in Request : HasMutex(r) => mux[EngineOf[r]] = r
    /\ \A r \in Request :
         ~lapsed /\ InSection(r) /\ EngineOf[r] \in KnowsPeers => remote = r

(* What a request has read is the table until it writes, because whoever   *)
(* else could write is kept out; and nothing was answered before.          *)
Current ==
    \A r \in Request :
        /\ ~lapsed /\ pc[r] \in {"get", "put"} => read[r] = table /\ ~Data!Refused(op[r], table)
        /\ Unanswered(r) => outcome[r] = "none"

(* Two requests at work would have one mutex, or one remote lock.          *)
LEMMA LockedIsExclusive ==
    ASSUME PeersKnown, TypeOK, Locked
    PROVE  OneAtATime
<1>1. ASSUME NEW r \in Request, NEW s \in Request, InSection(r), InSection(s), r # s
      PROVE  EngineOf[r] # EngineOf[s] /\ lapsed
  <2>0. EngineOf[r] \in Engine /\ EngineOf[s] \in Engine
    BY EngineAssumption
  <2>1. EngineOf[r] # EngineOf[s]
    BY <1>1 DEF Locked, HasMutex, InSection
  <2>2. EngineOf[r] \in KnowsPeers /\ EngineOf[s] \in KnowsPeers
    BY <2>0, <2>1 DEF PeersKnown
  <2>3. QED
    BY <1>1, <2>1, <2>2 DEF Locked
<1>2. QED
  BY <1>1 DEF OneAtATime

(* Every step keeps the mutex with the request that is past it, and takes  *)
(* the remote lock from one at work only as a lapse.                       *)
LEMMA LockedStep == TypeOK /\ Locked /\ [Next]_vars => Locked'
<1> SUFFICES ASSUME TypeOK, Locked, [Next]_vars PROVE Locked'
  OBVIOUS
<1>d. ASSUME DeleteRemote, NEW q \in Request, InSection(q), EngineOf[q] \in KnowsPeers PROVE lapsed'
  BY <1>d, DeleteIs, Zenon DEF Locked
<1> USE EngineAssumption DEF TypeOK, Locked, HasMutex, InSection, Steps, Goto, bounds, lock
<1>0. \A r \in Request : EngineOf[r] \in Engine /\ r # Free
  OBVIOUS
<1>2. ASSUME NEW r \in Request, LockMutex(r) PROVE Locked'
  BY <1>0, <1>2 DEF LockMutex
<1>3. ASSUME NEW r \in Request, Acquire(r) PROVE Locked'
  BY <1>0, <1>3 DEF Acquire
<1>4. ASSUME NEW r \in Request, Steal(r) PROVE Locked'
  <2>1. \A q \in Request : InSection(q)' => InSection(q)
    BY <1>4 DEF Steal
  <2>2. \A q \in Request : InSection(q)' /\ EngineOf[q] \in KnowsPeers => lapsed'
    BY <1>4, <1>d, <2>1, Zenon DEF Steal
  <2>3. QED
    BY <1>4, <2>2 DEF Steal
<1>5. ASSUME NEW r \in Request, Read(r) PROVE Locked'
  BY <1>5 DEF Read
<1>6. ASSUME NEW r \in Request, Get(r) PROVE Locked'
  BY <1>6 DEF Get
<1>7. ASSUME NEW r \in Request, Put(r) PROVE Locked'
  BY <1>7 DEF Put
<1>8. ASSUME NEW r \in Request, PutConflicts(r) PROVE Locked'
  BY <1>8 DEF PutConflicts
<1>9. ASSUME NEW r \in Request, ReleaseGet(r) PROVE Locked'
  BY <1>0, <1>9 DEF ReleaseGet, Unlocked
<1>10. ASSUME NEW r \in Request, ReleaseDelete(r) PROVE Locked'
  <2>1. \A q \in Request : InSection(q)' => InSection(q)
    BY <1>10 DEF ReleaseDelete, Unlocked
  <2>2. \A q \in Request : InSection(q)' /\ EngineOf[q] \in KnowsPeers => lapsed'
    BY <1>10, <1>d, <2>1, Zenon DEF ReleaseDelete
  <2>3. QED
    BY <1>0, <1>10, <2>2 DEF ReleaseDelete, Unlocked
<1>11. ASSUME NEW r \in Request, CreateLost(r) PROVE Locked'
  BY <1>0, <1>11 DEF CreateLost
<1>12. ASSUME NEW r \in Request, AcquireFails(r) PROVE Locked'
  BY <1>12 DEF AcquireFails
<1>13. ASSUME NEW r \in Request, CallFails(r) PROVE Locked'
  BY <1>13 DEF CallFails
<1>14. ASSUME NEW r \in Request, ReleaseFails(r) PROVE Locked'
  <2>1. \A q \in Request : InSection(q)' => InSection(q)
    BY <1>14 DEF ReleaseFails, Unlocked
  <2>2. DeleteRemote => \A q \in Request : InSection(q)' /\ EngineOf[q] \in KnowsPeers => lapsed'
    BY <1>d, <2>1, Zenon
  <2>3. QED
    BY <1>0, <1>14, <2>1, <2>2 DEF ReleaseFails, Unlocked
<1>15. CASE WriteOtherKey
  BY <1>15 DEF WriteOtherKey
<1>16. CASE UNCHANGED vars
  BY <1>16 DEF vars
<1>17. QED
  BY <1>2, <1>3, <1>4, <1>5, <1>6, <1>7, <1>8, <1>9, <1>10, <1>11,
     <1>12, <1>13, <1>14, <1>15, <1>16 DEF Next, Work

(* A lapse is remembered. *)
LEMMA LapseStep == TypeOK /\ lapsed /\ [Next]_vars => lapsed'
<1> SUFFICES ASSUME TypeOK, lapsed, [Next]_vars PROVE lapsed'
  OBVIOUS
<1>d. DeleteRemote => lapsed'
  BY DeleteIs
<1> USE DEF bounds, lock
<1>2. ASSUME NEW r \in Request, LockMutex(r) PROVE lapsed'
  BY <1>2 DEF LockMutex
<1>3. ASSUME NEW r \in Request, Acquire(r) PROVE lapsed'
  BY <1>3 DEF Acquire
<1>4. ASSUME NEW r \in Request, Steal(r) PROVE lapsed'
  BY <1>d, <1>4 DEF Steal
<1>5. ASSUME NEW r \in Request, Read(r) PROVE lapsed'
  BY <1>5 DEF Read
<1>6. ASSUME NEW r \in Request, Get(r) PROVE lapsed'
  BY <1>6 DEF Get
<1>7. ASSUME NEW r \in Request, Put(r) PROVE lapsed'
  BY <1>7 DEF Put
<1>8. ASSUME NEW r \in Request, PutConflicts(r) PROVE lapsed'
  BY <1>8 DEF PutConflicts
<1>9. ASSUME NEW r \in Request, ReleaseGet(r) PROVE lapsed'
  BY <1>9 DEF ReleaseGet, Unlocked
<1>10. ASSUME NEW r \in Request, ReleaseDelete(r) PROVE lapsed'
  BY <1>d, <1>10 DEF ReleaseDelete, Unlocked
<1>11. ASSUME NEW r \in Request, CreateLost(r) PROVE lapsed'
  BY <1>11 DEF CreateLost
<1>12. ASSUME NEW r \in Request, AcquireFails(r) PROVE lapsed'
  BY <1>12 DEF AcquireFails
<1>13. ASSUME NEW r \in Request, CallFails(r) PROVE lapsed'
  BY <1>13 DEF CallFails
<1>14. ASSUME NEW r \in Request, ReleaseFails(r) PROVE lapsed'
  BY <1>d, <1>14 DEF ReleaseFails, Unlocked
<1>15. CASE WriteOtherKey
  BY <1>15 DEF WriteOtherKey
<1>16. CASE UNCHANGED vars
  BY <1>16 DEF vars
<1>17. QED
  BY <1>2, <1>3, <1>4, <1>5, <1>6, <1>7, <1>8, <1>9, <1>10, <1>11,
     <1>12, <1>13, <1>14, <1>15, <1>16 DEF Next, Work

(* What a request that is alone at work does is an operation at an instant,*)
(* or nothing; and those that are not at work have nothing that can age.   *)
LEMMA CurrentStep == PeersKnown /\ TypeOK /\ Locked /\ Current /\ [Next]_vars => Current'
<1> SUFFICES ASSUME PeersKnown, TypeOK, Locked, Current, [Next]_vars PROVE Current'
  OBVIOUS
<1>0. \A r, s \in Request : ~lapsed /\ InSection(r) /\ InSection(s) => r = s
  BY LockedIsExclusive DEF OneAtATime
<1>1. lapsed => lapsed'
  BY LapseStep
<1> USE EngineAssumption DEF TypeOK, Current, InSection, Unanswered, Steps, Goto, Return, bounds, lock
<1>2. ASSUME NEW r \in Request, LockMutex(r) PROVE Current'
  BY <1>2 DEF LockMutex
<1>3. ASSUME NEW r \in Request, Acquire(r) PROVE Current'
  BY <1>3 DEF Acquire
<1>4. ASSUME NEW r \in Request, Steal(r) PROVE Current'
  BY <1>1, <1>4 DEF Steal
<1>5. ASSUME NEW r \in Request, Read(r) PROVE Current'
  BY <1>5 DEF Read
<1>6. ASSUME NEW r \in Request, Get(r) PROVE Current'
  BY <1>6 DEF Get
<1>7. ASSUME NEW r \in Request, Put(r) PROVE Current'
  BY <1>0, <1>1, <1>7 DEF Put
<1>8. ASSUME NEW r \in Request, PutConflicts(r) PROVE Current'
  BY <1>8 DEF PutConflicts
<1>9. ASSUME NEW r \in Request, ReleaseGet(r) PROVE Current'
  BY <1>9 DEF ReleaseGet, Unlocked
<1>10. ASSUME NEW r \in Request, ReleaseDelete(r) PROVE Current'
  BY <1>1, <1>10 DEF ReleaseDelete, Unlocked
<1>11. ASSUME NEW r \in Request, CreateLost(r) PROVE Current'
  BY <1>11 DEF CreateLost
<1>12. ASSUME NEW r \in Request, AcquireFails(r) PROVE Current'
  BY <1>12 DEF AcquireFails
<1>13. ASSUME NEW r \in Request, CallFails(r) PROVE Current'
  BY <1>0, <1>1, <1>13 DEF CallFails
<1>14. ASSUME NEW r \in Request, ReleaseFails(r) PROVE Current'
  BY <1>1, <1>14 DEF ReleaseFails, Unlocked
<1>15. CASE WriteOtherKey
  BY <1>15 DEF WriteOtherKey
<1>16. CASE UNCHANGED vars
  BY <1>16 DEF vars
<1>17. QED
  BY <1>2, <1>3, <1>4, <1>5, <1>6, <1>7, <1>8, <1>9, <1>10, <1>11,
     <1>12, <1>13, <1>14, <1>15, <1>16 DEF Next, Work

EngineInv == TypeOK /\ Locked /\ Current

(* The inductive invariant: who is past the mutex has it, who is at work   *)
(* has the remote lock, and what it has read is the table, until a remote  *)
(* lock lapses under a request at work.                                    *)
THEOREM EngineInvariant == PeersKnown => (Spec => []EngineInv)
<1> SUFFICES ASSUME PeersKnown PROVE Spec => []EngineInv
  OBVIOUS
<1>1. Init => EngineInv
  BY TypeInit DEF Init, EngineInv, Locked, Current, HasMutex, InSection, Unanswered
<1>2. EngineInv /\ [Next]_vars => EngineInv'
  BY TypeStep, LockedStep, CurrentStep DEF EngineInv
<1>3. QED
  BY <1>1, <1>2, PTL DEF Spec

(* Two requests at work are never of one replica, and of two only after a  *)
(* lapse, though locks are orphaned, stolen and taken without a reply.     *)
THEOREM EnginesExclude == PeersKnown => (Spec => []OneAtATime)
<1> SUFFICES ASSUME PeersKnown PROVE Spec => []OneAtATime
  OBVIOUS
<1>1. EngineInv => OneAtATime
  BY LockedIsExclusive DEF EngineInv
<1>2. QED
  BY <1>1, EngineInvariant, PTL

(* Every step before a lapse is an operation on the table that happens at  *)
(* one instant, or changes nothing that the callers see.                   *)
LEMMA MapStep == EngineInv /\ [Next]_vars => [Data!Next \/ lapsed']_(Data!vars)
<1> SUFFICES ASSUME EngineInv, [Next]_vars, ~lapsed' PROVE [Data!Next]_(Data!vars)
  OBVIOUS
<1>0. ~lapsed
  BY LapseStep DEF EngineInv
<1> USE DEF EngineInv, TypeOK, Current, Unanswered, Return, bounds, lock
<1>1. ASSUME NEW r \in Request,
             LockMutex(r) \/ Acquire(r) \/ Steal(r) \/ CreateLost(r) \/ Get(r)
      PROVE  UNCHANGED Data!vars
  BY <1>1 DEF LockMutex, Acquire, Steal, CreateLost, Get, Data!vars
<1>2. ASSUME NEW r \in Request, ReleaseGet(r) \/ ReleaseDelete(r) \/ ReleaseFails(r)
      PROVE  UNCHANGED Data!vars
  BY <1>2 DEF ReleaseGet, ReleaseDelete, ReleaseFails, Data!vars
<1>3. ASSUME NEW r \in Request, Read(r) PROVE Data!Refuse(r) \/ UNCHANGED Data!vars
  BY <1>3 DEF Read, Data!Refuse, Data!Tell, Data!vars
<1>4. ASSUME NEW r \in Request, Put(r) PROVE Data!Commit(r)
  BY <1>0, <1>4 DEF Put, Data!Commit, Data!Tell
<1>5. ASSUME NEW r \in Request, PutConflicts(r) \/ AcquireFails(r) \/ CallFails(r) PROVE Data!Fail(r)
  BY <1>0, <1>5 DEF PutConflicts, AcquireFails, CallFails, Data!Fail, Data!Tell
<1>6. CASE WriteOtherKey \/ UNCHANGED vars
  BY <1>6 DEF WriteOtherKey, vars, Data!vars
<1>7. QED
  BY <1>1, <1>2, <1>3, <1>4, <1>5, <1>6 DEF Next, Work, Data!Next

(* The engine implements the table of SecretMap until a remote lock lapses *)
(* under a request at work: what a request was told till then is true of   *)
(* one instant, whatever other requests did meanwhile.                     *)
THEOREM EngineImplementsMap == PeersKnown => (Spec => ImplementsSecretMap)
<1> SUFFICES ASSUME PeersKnown PROVE Spec => ImplementsSecretMap
  OBVIOUS
<1>1. Init => Data!Init
  BY EngineAssumption DEF Init, Data!Init
<1>2. QED
  BY <1>1, MapStep, EngineInvariant, PTL DEF Spec, ImplementsSecretMap

-----------------------------------------------------------------------------
(* ExternalLogin. *)

(* The caches, the requests and the history have the shape that the steps  *)
(* give them, and a request that is on has a replica and a state.          *)
CacheShape == DOMAIN cached = Replica /\ \A e \in Replica : DOMAIN cached[e] = State
PostShape ==
    DOMAIN post = Post /\ \A q \in Post : DOMAIN post[q] = {"at", "replica", "state", "claims"}

LoginShape ==
    /\ CacheShape
    /\ PostShape
    /\ clean \in [Replica -> SUBSET State]
    /\ \A q \in Post : post[q].at \in {"read", "cache", "lock", "clear", "forget", "left"} =>
                         post[q].replica \in Replica /\ post[q].state \in State

ForgottenInv == LoginShape /\ ForgottenWhereServed

(* A post that is moved on stays whose it was, and the others are as they  *)
(* were.                                                                   *)
LEMMA PostMoves ==
    ASSUME LoginShape, NEW q \in Post, NEW place, PostGoes(q, place)
    PROVE  /\ PostShape'
           /\ \A o \in Post : /\ post'[o].replica = post[o].replica
                             /\ post'[o].state = post[o].state
                             /\ post'[o].claims = post[o].claims
           /\ \A o \in Post : o # q => post'[o] = post[o]
           /\ post'[q].at = place
BY DEF LoginShape, PostShape, PostGoes

(* A post that ends has no claims.                                         *)
LEMMA PostStops ==
    ASSUME LoginShape, NEW q \in Post, NEW place, PostEnds(q, place)
    PROVE  /\ PostShape'
           /\ \A o \in Post : o # q => post'[o] = post[o]
           /\ post'[q].at = place
BY DEF LoginShape, PostShape, PostEnds, NoPost

(* What a cache is told changes one entry of it.                           *)
LEMMA CacheWrites ==
    ASSUME LoginShape, NEW e, NEW s, NEW claims, Cache(e, s, claims)
    PROVE  /\ CacheShape'
           /\ \A d \in Replica : \A t \in State :
                cached'[d][t] = IF d = e /\ t = s THEN claims ELSE cached[d][t]
BY DEF LoginShape, CacheShape, Cache

(* A step of a post keeps ForgottenInv: what it has read, or puts in the   *)
(* cache, it forgets before it ends, unless it fails.                      *)
LEMMA PostStep ==
    ASSUME ForgottenInv, NEW q \in Post,
           BeginPost(q) \/ ReadState(q) \/ ReadFails(q) \/ WriteCache(q) \/ LockToClear(q)
             \/ LockFails(q) \/ Clear(q) \/ ClearFails(q) \/ Forget(q)
    PROVE  ForgottenInv'
<1> DEFINE Kept == \A o \in Post : o # q => post'[o] = post[o]
           Same == \A o \in Post : /\ post'[o].replica = post[o].replica
                                   /\ post'[o].state = post[o].state
                                   /\ post'[o].claims = post[o].claims
<1>1. LoginShape /\ ForgottenWhereServed
  BY DEF ForgottenInv
<1>2. CASE BeginPost(q)
  <2>1. PICK e \in Replica, s \in State :
          /\ post[q].at \in {"none", "redirected"}
          /\ post' = [post EXCEPT ![q] = [at |-> "read", replica |-> e, state |-> s, claims |-> Nothing]]
    BY <1>2 DEF BeginPost
  <2>2. UNCHANGED <<cached, clean>>
    BY <1>2 DEF BeginPost
  <2>3. LoginShape'
    BY <1>1, <2>1, <2>2 DEF LoginShape, PostShape, CacheShape
  <2>4. ForgottenWhereServed'
    BY <1>1, <2>1, <2>2 DEF LoginShape, PostShape, ForgottenWhereServed, HasClaims
  <2>5. QED
    BY <2>3, <2>4 DEF ForgottenInv
<1>3. CASE ReadState(q) \/ ReadFails(q)
  <2>1. PostAt(q, "read") /\ UNCHANGED <<cached, clean>>
    BY <1>3 DEF ReadState, ReadFails
  <2>2. /\ Kept
        /\ PostShape'
        /\ \/ post'[q].at \in {"redirected", "error"}
           \/ /\ post'[q].at \in {"lock", "cache"}
              /\ post'[q].replica = post[q].replica /\ post'[q].state = post[q].state
    <3>1. CASE ReadState(q)
      BY <1>1, <3>1 DEF ReadState, LoginShape, PostShape, PostAt
    <3>2. CASE ReadFails(q)
      BY <1>1, <3>2, PostStops DEF ReadFails
    <3>3. QED
      BY <1>3, <3>1, <3>2
  <2>3. LoginShape'
    BY <1>1, <2>1, <2>2 DEF LoginShape, CacheShape, PostShape, PostAt
  <2>4. ForgottenWhereServed'
    BY <1>1, <2>1, <2>2 DEF ForgottenWhereServed, HasClaims, PostAt
  <2>5. QED
    BY <2>3, <2>4 DEF ForgottenInv
<1>4. CASE WriteCache(q)
  <2>1. PostAt(q, "cache") /\ UNCHANGED clean /\ PostGoes(q, "lock")
        /\ Cache(post[q].replica, post[q].state, post[q].claims)
    BY <1>4 DEF WriteCache
  <2>2. LoginShape'
    BY <1>1, <2>1, PostMoves, CacheWrites DEF LoginShape, PostAt
  <2>3. /\ \A d \in Replica : \A t \in State :
             cached'[d][t] = IF d = post[q].replica /\ t = post[q].state
                             THEN post[q].claims ELSE cached[d][t]
        /\ Same /\ Kept /\ post'[q].at = "lock"
    BY <1>1, <2>1, PostMoves, CacheWrites
  <2>4. ForgottenWhereServed'
    BY <1>1, <2>1, <2>3 DEF LoginShape, ForgottenWhereServed, HasClaims, PostAt
  <2>5. QED
    BY <2>2, <2>4 DEF ForgottenInv
<1>5. CASE LockToClear(q) \/ LockFails(q) \/ Clear(q) \/ ClearFails(q)
  <2>1. PICK place \in {"clear", "forget", "left"} :
          PostGoes(q, place) /\ post[q].at \in {"lock", "clear"} /\ UNCHANGED <<cached, clean>>
    BY <1>5 DEF LockToClear, LockFails, Clear, ClearFails, PostAt
  <2>2. PostShape' /\ Same /\ Kept /\ post'[q].at = place
    BY <1>1, <2>1, PostMoves
  <2>3. LoginShape'
    BY <1>1, <2>1, <2>2 DEF LoginShape, CacheShape, PostShape
  <2>4. ForgottenWhereServed'
    BY <1>1, <2>1, <2>2 DEF ForgottenWhereServed, HasClaims
  <2>5. QED
    BY <2>3, <2>4 DEF ForgottenInv
<1>6. CASE Forget(q)
  <2>1. /\ PostAt(q, "forget") /\ PostEnds(q, "served")
        /\ Cache(post[q].replica, post[q].state, Nothing)
        /\ clean' = [clean EXCEPT ![post[q].replica] = @ \cup {post[q].state}]
    BY <1>6 DEF Forget
  <2>2. /\ PostShape'
        /\ Kept /\ post'[q].at = "served"
    BY <1>1, <2>1, PostStops
  <2>3. /\ CacheShape'
        /\ \A d \in Replica : \A t \in State :
             cached'[d][t] = IF d = post[q].replica /\ t = post[q].state THEN Nothing ELSE cached[d][t]
    BY <1>1, <2>1, CacheWrites
  <2>4. post[q].replica \in Replica /\ post[q].state \in State
    BY <1>1, <2>1 DEF LoginShape, PostAt
  <2>5. LoginShape'
    BY <1>1, <2>1, <2>2, <2>3, <2>4 DEF LoginShape
  <2>6. ForgottenWhereServed'
    BY <1>1, <2>1, <2>2, <2>3, <2>4 DEF LoginShape, ForgottenWhereServed, HasClaims
  <2>7. QED
    BY <2>5, <2>6 DEF ForgottenInv
<1>7. QED
  BY <1>2, <1>3, <1>4, <1>5, <1>6

(* So does a visit to the provider: who saves claims says so.              *)
LEMMA VisitStep ==
    ASSUME ForgottenInv, NEW v \in Visit,
           SignIn(v) \/ Exchange(v) \/ NoIdToken(v) \/ LockToSave(v) \/ Save(v) \/ Remember(v)
             \/ VisitFails(v)
    PROVE  ForgottenInv'
<1>1. LoginShape /\ ForgottenWhereServed
  BY DEF ForgottenInv
<1>2. UNCHANGED post
  BY DEF SignIn, Exchange, NoIdToken, LockToSave, Save, Remember, VisitFails
<1>3. CASE Remember(v)
  <2>1. /\ Cache(visit[v].replica, visit[v].state, visit[v].claims)
        /\ clean' = [clean EXCEPT ![visit[v].replica] = @ \ {visit[v].state}]
    BY <1>3 DEF Remember
  <2>2. /\ CacheShape'
        /\ \A d \in Replica : \A t \in State :
             cached'[d][t] = IF d = visit[v].replica /\ t = visit[v].state
                             THEN visit[v].claims ELSE cached[d][t]
    BY <1>1, <2>1, CacheWrites
  <2>3. LoginShape'
    BY <1>1, <1>2, <2>1, <2>2 DEF LoginShape, PostShape
  <2>4. ForgottenWhereServed'
    BY <1>1, <1>2, <2>1, <2>2 DEF LoginShape, ForgottenWhereServed, HasClaims
  <2>5. QED
    BY <2>3, <2>4 DEF ForgottenInv
<1>4. CASE ~ Remember(v)
  <2>1. UNCHANGED <<cached, clean>>
    BY <1>4 DEF SignIn, Exchange, NoIdToken, LockToSave, Save, VisitFails
  <2>2. QED
    BY <1>1, <1>2, <2>1 DEF ForgottenInv, LoginShape, CacheShape, PostShape, ForgottenWhereServed, HasClaims
<1>5. QED
  BY <1>3, <1>4

(* Shapes, and who forgets, for any replicas, posts and visits.            *)
THEOREM ForgottenInvariant == ExternalSpec => []ForgottenInv
<1>1. ExternalInit => ForgottenInv
  BY DEF ExternalInit, ForgottenInv, LoginShape, CacheShape, PostShape, ForgottenWhereServed, NoPost
<1>2. ForgottenInv /\ [OidcNext /\ UNCHANGED directory]_externalVars => ForgottenInv'
  <2> SUFFICES ASSUME ForgottenInv, [OidcNext /\ UNCHANGED directory]_externalVars
               PROVE  ForgottenInv'
    OBVIOUS
  <2>1. CASE ExpireCached
    <3>1. PICK e \in Replica, s \in State : Cache(e, s, Nothing) /\ UNCHANGED <<post, clean>>
      BY <2>1 DEF ExpireCached
    <3>2. /\ CacheShape'
          /\ \A d \in Replica : \A t \in State :
               cached'[d][t] = IF d = e /\ t = s THEN Nothing ELSE cached[d][t]
      BY <3>1, CacheWrites DEF ForgottenInv
    <3>3. LoginShape'
      BY <3>1, <3>2 DEF ForgottenInv, LoginShape, PostShape
    <3>4. ForgottenWhereServed'
      BY <3>1, <3>2 DEF ForgottenInv, LoginShape, ForgottenWhereServed, HasClaims
    <3>5. QED
      BY <3>3, <3>4 DEF ForgottenInv
  <2>2. CASE UNCHANGED externalVars
    BY <2>2 DEF externalVars, oidcVars, ForgottenInv, LoginShape, CacheShape, PostShape, ForgottenWhereServed, HasClaims
  <2>3. QED
    BY <2>1, <2>2, PostStep, VisitStep DEF OidcNext
<1>3. QED
  BY <1>1, <1>2, PTL DEF ExternalSpec

(* A replica that handed out claims forgets them.                          *)
THEOREM ForgottenHolds == ExternalSpec => []ForgottenWhereServed
BY ForgottenInvariant, PTL DEF ForgottenInv

-----------------------------------------------------------------------------
(* Kvdictl. *)

(* A set of numbers that is not empty has a least one ...                  *)
LEMMA Least ==
    ASSUME NEW T \in SUBSET Nat, T # {}
    PROVE  \E n \in T : \A m \in T : n <= m
<1> DEFINE R == OpToRel(<, Nat)
<1>1. IsWellFoundedOn(R, Nat)
  BY NatLessThanWellFounded
<1>2. \A n, m \in Nat : m < n => <<m, n>> \in R
  BY DEF OpToRel
<1> HIDE DEF R
<1>3. \E n \in T : \A m \in T : ~ (<<m, n>> \in R)
  BY <1>1, WFMin
<1>4. PICK n \in T : \A m \in T : ~ (<<m, n>> \in R)
  BY <1>3
<1>5. \A m \in T : m \in Nat /\ n \in Nat /\ ~ (m < n)
  BY <1>2, <1>4
<1>6. \A m \in T : n <= m
  BY <1>5
<1>7. QED
  BY <1>6

(* ... so a set of numbers up to l that has 0 and, with a number, the next *)
(* one, has them all.                                                      *)
LEMMA UpTo ==
    ASSUME NEW l \in Nat, NEW T, 0 \in T, \A n \in T : n \in 0..(l - 1) => n + 1 \in T
    PROVE  0..l \subseteq T
<1> DEFINE M == (0..l) \ T
<1>1. SUFFICES ASSUME M # {} PROVE FALSE
  OBVIOUS
<1>2. M \in SUBSET Nat
  OBVIOUS
<1>3. PICK n \in M : \A m \in M : n <= m
  BY <1>1, <1>2, Least
<1>4. n \in Nat /\ n # 0 /\ n <= l /\ n - 1 \in 0..(l - 1) /\ n - 1 \in 0..l
  BY <1>3
<1>5. n - 1 \in T
  BY <1>3, <1>4
<1>6. (n - 1) + 1 \in T
  BY <1>4, <1>5
<1>7. QED
  BY <1>3, <1>4, <1>6

(* What Without leaves of the first rules.                                 *)
LeftOf(rules, rule, kept, n) ==
    kept = [i \in 0..n |->
              IF i = 0 THEN <<>>
              ELSE IF rules[i] = rule THEN kept[i - 1] ELSE Append(kept[i - 1], rules[i])]

(* There is such a function for any rules.                                 *)
LEMMA LeftIs ==
    ASSUME NEW R, NEW rules \in Seq(R), NEW rule
    PROVE  \E kept : LeftOf(rules, rule, kept, Len(rules)) /\ Without(rules, rule) = kept[Len(rules)]
<1> DEFINE T == {n \in 0..Len(rules) : \E kept : LeftOf(rules, rule, kept, n)}
<1>1. 0 \in T
  <2>1. LeftOf(rules, rule, [i \in 0..0 |-> <<>>], 0)
    BY DEF LeftOf
  <2>2. QED
    BY <2>1
<1>2. ASSUME NEW n \in T, n \in 0..(Len(rules) - 1) PROVE n + 1 \in T
  <2>1. PICK kept : LeftOf(rules, rule, kept, n)
    OBVIOUS
  <2> DEFINE more == [i \in 0..(n + 1) |->
                        IF i <= n THEN kept[i]
                        ELSE IF rules[i] = rule THEN kept[n] ELSE Append(kept[n], rules[i])]
  <2>2. n \in Nat /\ n + 1 \in 0..Len(rules)
    BY <1>2
  <2>3. ASSUME NEW i \in 0..(n + 1)
        PROVE  more[i] = IF i = 0 THEN <<>>
                         ELSE IF rules[i] = rule THEN more[i - 1] ELSE Append(more[i - 1], rules[i])
    <3>1. CASE i <= n
      <4>1. i \in 0..n /\ (i # 0 => i - 1 \in 0..(n + 1) /\ i - 1 <= n)
        BY <2>2, <3>1
      <4>2. kept[i] = IF i = 0 THEN <<>>
                      ELSE IF rules[i] = rule THEN kept[i - 1] ELSE Append(kept[i - 1], rules[i])
        BY <2>1, <4>1 DEF LeftOf
      <4>3. more[i] = kept[i] /\ (i # 0 => more[i - 1] = kept[i - 1])
        BY <3>1, <4>1
      <4>4. QED
        BY <4>2, <4>3
    <3>2. CASE ~ (i <= n)
      <4>1. i = n + 1 /\ i # 0 /\ i - 1 = n /\ n \in 0..(n + 1) /\ n <= n
        BY <2>2, <3>2
      <4>2. QED
        BY <3>2, <4>1
    <3>3. QED
      BY <3>1, <3>2
  <2>4. LeftOf(rules, rule, more, n + 1)
    BY <2>3 DEF LeftOf
  <2>5. QED
    BY <2>2, <2>4
<1> HIDE DEF T
<1>3. Len(rules) \in T
  BY <1>1, <1>2, UpTo
<1>4. \E kept : LeftOf(rules, rule, kept, Len(rules))
  BY <1>3 DEF T
<1>5. QED
  BY <1>4 DEF Without, LeftOf

(* Without leaves every rule but the one that goes.                        *)
LEMMA WithoutLeaves ==
    ASSUME NEW rules \in Seq(Flags), NEW rule
    PROVE  /\ Without(rules, rule) \in Seq(Flags)
           /\ \A x : (\E i \in DOMAIN Without(rules, rule) : Without(rules, rule)[i] = x)
                       <=> x # rule /\ \E i \in DOMAIN rules : rules[i] = x
<1>1. PICK kept : LeftOf(rules, rule, kept, Len(rules)) /\ Without(rules, rule) = kept[Len(rules)]
  BY LeftIs
<1>a. \A i \in 0..Len(rules) : kept[i] = IF i = 0 THEN <<>>
                                          ELSE IF rules[i] = rule THEN kept[i - 1] ELSE Append(kept[i - 1], rules[i])
  BY <1>1 DEF LeftOf
<1> DEFINE Left(s, n) ==
             \A x : (\E i \in DOMAIN s : s[i] = x) <=> x # rule /\ \E i \in 1..n : rules[i] = x
           T == {n \in 0..Len(rules) : kept[n] \in Seq(Flags) /\ Left(kept[n], n)}
<1>2. 0 \in T
  <2>1. kept[0] = <<>>
    BY <1>a
  <2>2. 1..0 = {} /\ DOMAIN <<>> = {} /\ <<>> \in Seq(Flags) /\ 0 \in 0..Len(rules)
    OBVIOUS
  <2>3. Left(<<>>, 0)
    BY <2>2
  <2>4. QED
    BY <2>1, <2>2, <2>3
<1>3. ASSUME NEW n \in T, n \in 0..(Len(rules) - 1) PROVE n + 1 \in T
  <2>1. n \in Nat /\ n + 1 \in 1..Len(rules) /\ n + 1 \in 0..Len(rules)
        /\ kept[n] \in Seq(Flags) /\ Left(kept[n], n)
    BY <1>3
  <2>2. kept[n + 1] = IF rules[n + 1] = rule THEN kept[n] ELSE Append(kept[n], rules[n + 1])
    <3>1. n + 1 # 0 /\ (n + 1) - 1 = n
      BY <2>1
    <3> DEFINE k == n + 1
    <3>2. k \in 0..Len(rules) /\ k # 0 /\ k - 1 = n
      BY <2>1, <3>1
    <3> HIDE DEF k
    <3>3. kept[k] = IF rules[k] = rule THEN kept[k - 1] ELSE Append(kept[k - 1], rules[k])
      BY <1>a, <3>2
    <3>4. kept[k] = IF rules[k] = rule THEN kept[n] ELSE Append(kept[n], rules[k])
      BY <3>2, <3>3
    <3>5. QED
      BY <3>4 DEF k
  <2> DEFINE now == kept[n]
  <2>3. now \in Seq(Flags) /\ Left(now, n)
    BY <2>1
  <2> HIDE DEF now, T
  <2>4. rules[n + 1] \in Flags /\ \A i \in 1..(n + 1) : i \in 1..n \/ i = n + 1
    BY <2>1
  <2>5. 1..n \subseteq 1..(n + 1) /\ n + 1 \in 1..(n + 1)
    BY <2>1
  <2>6. CASE rules[n + 1] = rule
    <3>1. Left(now, n + 1)
      BY <2>3, <2>4, <2>5, <2>6
    <3>2. QED
      BY <2>1, <2>2, <2>3, <2>6, <3>1 DEF now, T
  <2>7. CASE rules[n + 1] # rule
    <3> DEFINE more == Append(now, rules[n + 1])
               l == Len(now)
    <3>1. more \in Seq(Flags) /\ l \in Nat /\ DOMAIN now = 1..l /\ DOMAIN more = 1..(l + 1)
          /\ more[l + 1] = rules[n + 1] /\ \A i \in 1..l : more[i] = now[i]
      BY <2>3, <2>4
    <3> HIDE DEF more, l
    <3>2. 1..l \subseteq 1..(l + 1) /\ l + 1 \in 1..(l + 1)
          /\ \A i \in 1..(l + 1) : i \in 1..l \/ i = l + 1
      BY <3>1
    <3>3. Left(more, n + 1)
      BY <2>3, <2>4, <2>5, <2>7, <3>1, <3>2
    <3>4. kept[n + 1] = more
      BY <2>2, <2>7 DEF more, now
    <3>5. QED
      BY <2>1, <3>1, <3>3, <3>4 DEF T
  <2>8. QED
    BY <2>6, <2>7
<1> HIDE DEF T
<1>4. Len(rules) \in T
  BY <1>2, <1>3, UpTo
<1>5. kept[Len(rules)] \in Seq(Flags) /\ Left(kept[Len(rules)], Len(rules))
  BY <1>4 DEF T
<1>6. DOMAIN rules = 1..Len(rules)
  OBVIOUS
<1>7. QED
  BY <1>1, <1>5, <1>6

-----------------------------------------------------------------------------
RunFields == {"op", "names", "rule", "key", "run", "at", "seen", "sent", "got"}

(* What stands for no invocation is not one.                               *)
IdleApart == DOMAIN Idle # RunFields

CliShape ==
    /\ DOMAIN cli = Cli /\ \A c \in Cli : cli[c] = Idle \/ DOMAIN cli[c] = RunFields
    /\ DOMAIN made = {"runs", "faults", "writes", "failed", "left"}

(* Every step is a step of one place; the others stay. What it has begun   *)
(* to do keeps its number until it ends.                                   *)
LEMMA CliShapeStep ==
    ASSUME CliShape, NEW c \in Cli,
           Run(c) \/ LoginFails(c) \/ AddNothing(c) \/ Fetch(c) \/ PutGet(c) \/ PutUpdate(c)
             \/ Create(c) \/ Delete(c) \/ Close(c) \/ CloseFails(c)
    PROVE  /\ CliShape'
           /\ \A d \in Cli : d # c => cli'[d] = cli[d]
<1> USE DEF CliShape, RunFields
<1>1. CASE Run(c)
  BY <1>1 DEF Run
<1>2. CASE LoginFails(c)
  BY <1>2 DEF LoginFails
<1>3. CASE AddNothing(c)
  BY <1>3 DEF AddNothing, Fails, Ends
<1>4. CASE Fetch(c)
  BY <1>4 DEF Fetch, At, Fails, Ends
<1>5. CASE PutGet(c)
  BY <1>5 DEF PutGet, At, Fails, Ends
<1>6. CASE PutUpdate(c) \/ Create(c)
  BY <1>6 DEF PutUpdate, Create, Store, At, Goes, Fails, Ends
<1>7. CASE Delete(c)
  BY <1>7 DEF Delete, At, Fails, FailsFaulty, Ends
<1>8. CASE Close(c) \/ CloseFails(c)
  BY <1>8 DEF Close, CloseFails, Ends
<1>9. QED
  BY <1>1, <1>2, <1>3, <1>4, <1>5, <1>6, <1>7, <1>8

-----------------------------------------------------------------------------
(* Tokens.                                                                 *)
Known(k) == k \in made.failed \cup made.left \/ \E c \in Cli : cli[c] # Idle /\ cli[c].run = k

(* A step of a place leaves the tokens of the others known, and its own    *)
(* unless it revokes it.                                                   *)
LEMMA TokenStep ==
    ASSUME IdleApart, CliShape, NEW c \in Cli,
           Run(c) \/ LoginFails(c) \/ AddNothing(c) \/ Fetch(c) \/ PutGet(c) \/ PutUpdate(c)
             \/ Create(c) \/ Delete(c) \/ Close(c) \/ CloseFails(c),
           NEW k \in issued', k \in issued => Known(k)
    PROVE  Known(k)'
<1>1. CliShape' /\ \A d \in Cli : d # c => cli'[d] = cli[d]
  BY CliShapeStep
<1>2. made.failed \subseteq made'.failed /\ made.left \subseteq made'.left
  <2> USE DEF CliShape
  <2>1. CASE Run(c) \/ LoginFails(c)
    <3>1. \/ made' = [made EXCEPT !.runs = @ + 1]
          \/ made' = [made EXCEPT !.runs = @ + 1, !.faults = @ + 1,
                                  !.failed = @ \cup {made.runs + 1}]
      BY <2>1 DEF Run, LoginFails
    <3>2. QED
      BY <3>1
  <2>2. CASE AddNothing(c) \/ Fetch(c) \/ PutGet(c)
    BY <2>2 DEF AddNothing, Fetch, PutGet, Fails
  <2>3. CASE PutUpdate(c) \/ Create(c)
    BY <2>3 DEF PutUpdate, Create, Store, Fails
  <2>4. CASE Delete(c) \/ Close(c) \/ CloseFails(c)
    BY <2>4 DEF Delete, Close, CloseFails, Fails, FailsFaulty
  <2>5. QED
    BY <2>1, <2>2, <2>3, <2>4
<1>3. k \notin issued => Known(k)'
  <2>1. CASE Run(c)
    BY <1>1, <2>1 DEF Run, Known, CliShape, RunFields, IdleApart
  <2>2. CASE LoginFails(c)
    BY <2>2 DEF LoginFails, Known, CliShape
  <2>3. CASE ~ Run(c) /\ ~ LoginFails(c)
    <3>1. issued' \subseteq issued
      BY <2>3 DEF AddNothing, Fetch, PutGet, PutUpdate, Create, Delete, Close, CloseFails, Store
    <3>2. QED
      BY <3>1
  <2>4. QED
    BY <2>1, <2>2, <2>3
<1>4. ASSUME cli[c] # Idle, cli[c].run = k PROVE Known(k)'
  <2>1. \/ cli'[c] # Idle /\ cli'[c].run = cli[c].run
        \/ cli[c].run \in made'.failed \cup made'.left
        \/ issued' = issued \ {cli[c].run}
    <3> USE <1>4 DEF CliShape, RunFields, IdleApart
    <3>1. ~ Run(c) /\ ~ LoginFails(c)
      BY DEF Run, LoginFails
    <3>2. CASE AddNothing(c)
      BY <3>2 DEF AddNothing, Fails
    <3>3. CASE Fetch(c)
      BY <3>3 DEF Fetch, Fails
    <3>4. CASE PutGet(c)
      BY <3>4 DEF PutGet, Fails
    <3>5. CASE PutUpdate(c) \/ Create(c)
      <4>1. Goes(c, "close") \/ cli[c].run \in made'.failed
        BY <3>5 DEF PutUpdate, Create, Store, Fails
      <4>2. QED
        BY <4>1 DEF Goes
    <3>6. CASE Delete(c)
      <4>1. \/ cli[c].run \in made'.failed
            \/ \E left, place :
                 cli' = [cli EXCEPT ![c].names = left, ![c].at = place]
        BY <3>6 DEF Delete, Fails, FailsFaulty
      <4>2. ASSUME NEW left, NEW place, cli' = [cli EXCEPT ![c].names = left, ![c].at = place]
            PROVE  cli'[c] # Idle /\ cli'[c].run = cli[c].run
        BY <4>2
      <4>3. QED
        BY <4>1, <4>2
    <3>7. CASE Close(c) \/ CloseFails(c)
      BY <3>7 DEF Close, CloseFails
    <3>8. QED
      BY <3>1, <3>2, <3>3, <3>4, <3>5, <3>6, <3>7
  <2>2. QED
    BY <1>4, <2>1 DEF Known
<1>5. QED
  BY <1>1, <1>2, <1>3, <1>4 DEF Known

(* The refresh token of a login is revoked when its command has ended, for *)
(* any number of places, roles and invocations, unless the command failed  *)
(* or the call that was to revoke it did.                                  *)
THEOREM TokensRevokedHolds == IdleApart => (CliSpec => []TokensRevoked)
<1> SUFFICES ASSUME IdleApart PROVE CliSpec => []TokensRevoked
  OBVIOUS
<1>1. CliInit => CliShape /\ TokensRevoked
  BY DEF CliInit, CliShape, TokensRevoked
<1>2. CliShape /\ TokensRevoked /\ [CliNext]_cliVars => CliShape' /\ TokensRevoked'
  <2> SUFFICES ASSUME CliShape, TokensRevoked, [CliNext]_cliVars PROVE CliShape' /\ TokensRevoked'
    OBVIOUS
  <2>1. CASE UNCHANGED cliVars
    BY <2>1 DEF cliVars, CliShape, TokensRevoked
  <2>2. CASE CliNext
    <3>1. PICK c \in Cli :
            Run(c) \/ LoginFails(c) \/ AddNothing(c) \/ Fetch(c) \/ PutGet(c) \/ PutUpdate(c)
              \/ Create(c) \/ Delete(c) \/ Close(c) \/ CloseFails(c)
      BY <2>2 DEF CliNext
    <3>2. \A k \in issued' : Known(k)'
      BY <3>1, TokenStep DEF TokensRevoked, Known
    <3>3. QED
      BY <3>1, <3>2, CliShapeStep DEF TokensRevoked, Known
  <2>3. QED
    BY <2>1, <2>2
<1>3. QED
  BY <1>1, <1>2, PTL DEF CliSpec

-----------------------------------------------------------------------------
(* Roles that are changed.                                                 *)

(* An invocation that has fetched a role has made of it what it was told   *)
(* to, and was told something.                                             *)
Doing(cmd) ==
    /\ cmd.rule \in Flags
    /\ cmd.at = "fetch" => cmd.names[1] \in Role
    /\ cmd.at \in {"fetch", "put", "update"} => cmd.op \in {"add", "remove", "set", "unset"}
    /\ cmd.at \in {"put", "update"} =>
         /\ cmd.seen # Gone /\ cmd.seen.rules \in Seq(Flags)
         /\ cmd.op = "add" => cmd.rule # Empty
         /\ cmd.sent = Changed(cmd.seen, cmd)

CliInv ==
    /\ CliShape
    /\ DOMAIN roles = Role
    /\ \A r \in Role : roles[r] = Gone \/ roles[r].rules \in Seq(Flags)
    /\ \A c \in Cli : cli[c] # Idle => Doing(cli[c])

(* What is sent depends on what the command was told.                      *)
LEMMA SameChange ==
    ASSUME NEW role, NEW a, NEW b, a.op = b.op, a.rule = b.rule, a.key = b.key
    PROVE  Changed(role, a) = Changed(role, b)
BY DEF Changed

(* The rules that are stored grant what the command left, and are rules.   *)
LEMMA ChangedGrants ==
    ASSUME NEW cmd, Doing(cmd), cmd.at = "update"
    PROVE  LET rules == GetRules(cmd.sent.rules) IN
           /\ rules \in Seq(Flags)
           /\ Granting(rules) = CASE cmd.op = "add" -> Granting(cmd.seen.rules) \cup {cmd.rule}
                                  [] cmd.op = "remove" -> Granting(cmd.seen.rules) \ {cmd.rule}
                                  [] OTHER -> Granting(cmd.seen.rules)
           /\ cmd.sent.notes = CASE cmd.op = "set" -> cmd.seen.notes \cup {cmd.key}
                                 [] cmd.op = "unset" -> cmd.seen.notes \ {cmd.key}
                                 [] OTHER -> cmd.seen.notes
<1> DEFINE old == cmd.seen.rules
           x == cmd.rule
<1>1. /\ old \in Seq(Flags) /\ x \in Flags /\ (cmd.op = "add" => x # Empty)
      /\ cmd.op \in {"add", "remove", "set", "unset"} /\ cmd.sent = Changed(cmd.seen, cmd)
  BY DEF Doing
<1>2. Gone \notin Seq(Flags)
  BY KvdictlAssumption DEF Flags, Empty
<1>3. Granting(<<>>) = {} /\ Granting(<<Empty>>) = {} /\ <<Empty>> \in Seq(Flags)
  BY DEF Granting, Flags
<1>4. \A s \in Seq(Flags) : GetRules(s) = s
  BY <1>2 DEF GetRules
<1>5. CASE cmd.op = "add"
  <2>1. cmd.sent.rules = Append(old, x) /\ cmd.sent.notes = cmd.seen.notes
    BY <1>1, <1>5 DEF Changed
  <2> HIDE DEF old, x
  <2>2. Append(old, x) \in Seq(Flags)
    BY <1>1
  <2>3. Granting(Append(old, x)) = Granting(old) \cup {x}
    <3> DEFINE new == Append(old, x)
               l == Len(old)
    <3>1. l \in Nat /\ DOMAIN old = 1..l /\ DOMAIN new = 1..(l + 1)
          /\ new[l + 1] = x /\ \A i \in 1..l : new[i] = old[i]
      BY <1>1
    <3> HIDE DEF new, l
    <3>2. 1..l \subseteq 1..(l + 1) /\ l + 1 \in 1..(l + 1)
          /\ \A i \in 1..(l + 1) : i \in 1..l \/ i = l + 1
      BY <3>1
    <3>3. Granting(new) = Granting(old) \cup {x}
      BY <1>1, <1>5, <3>1, <3>2 DEF Granting
    <3>4. QED
      BY <3>3 DEF new
  <2>4. QED
    BY <1>4, <1>5, <2>1, <2>2, <2>3 DEF old, x
<1>6. CASE cmd.op = "remove"
  <2>1. cmd.sent.rules = Without(old, x) /\ cmd.sent.notes = cmd.seen.notes
    BY <1>1, <1>6 DEF Changed
  <2> HIDE DEF old, x
  <2> DEFINE new == Without(old, x)
  <2>2. /\ Without(old, x) \in Seq(Flags)
        /\ \A y : (\E i \in DOMAIN Without(old, x) : Without(old, x)[i] = y)
                   <=> y # x /\ \E i \in DOMAIN old : old[i] = y
    BY <1>1, WithoutLeaves
  <2>3. Granting(new) = Granting(old) \ {x}
    <3>1. \A y : (\E i \in DOMAIN new : new[i] = y) <=> y # x /\ \E i \in DOMAIN old : old[i] = y
      BY <2>2 DEF new
    <3> HIDE DEF new
    <3>2. \A y : y \in Granting(new) <=> y \in Granting(old) \ {x}
      BY <3>1 DEF Granting
    <3>3. QED
      BY <3>2
  <2>4. QED
    BY <1>4, <1>6, <2>1, <2>2, <2>3 DEF old, x, new
<1>7. CASE cmd.op \in {"set", "unset"}
  <2>1. /\ cmd.sent.rules = Copied(old)
        /\ cmd.op = "set" => cmd.sent.notes = cmd.seen.notes \cup {cmd.key}
        /\ cmd.op = "unset" => cmd.sent.notes = cmd.seen.notes \ {cmd.key}
    BY <1>1, <1>7 DEF Changed
  <2> HIDE DEF old, x
  <2>2. GetRules(Copied(old)) \in Seq(Flags) /\ Granting(GetRules(Copied(old))) = Granting(old)
    BY <1>1, <1>2, <1>3 DEF GetRules, Copied
  <2>3. QED
    BY <1>7, <2>1, <2>2 DEF old, x
<1>8. QED
  BY <1>1, <1>5, <1>6, <1>7

(* CliInv is kept.                                                         *)
LEMMA CliInvStep ==
    ASSUME CliInv, NEW c \in Cli,
           Run(c) \/ LoginFails(c) \/ AddNothing(c) \/ Fetch(c) \/ PutGet(c) \/ PutUpdate(c)
             \/ Create(c) \/ Delete(c) \/ Close(c) \/ CloseFails(c)
    PROVE  CliInv'
<1>1. CliShape' /\ \A d \in Cli : d # c => cli'[d] = cli[d]
  BY CliShapeStep DEF CliInv
<1>2. DOMAIN roles' = Role /\ \A r \in Role : roles'[r] = Gone \/ roles'[r].rules \in Seq(Flags)
  <2>1. CASE PutUpdate(c)
    <3>1. cli[c] # Idle /\ cli[c].at = "update" /\ Doing(cli[c])
      BY <2>1 DEF PutUpdate, At, CliInv
    <3>2. GetRules(cli[c].sent.rules) \in Seq(Flags)
      BY <3>1, ChangedGrants
    <3>3. QED
      BY <2>1, <3>2 DEF PutUpdate, Store, CliInv
  <2>2. CASE Create(c)
    <3>1. cli[c] # Idle /\ Doing(cli[c])
      BY <2>2 DEF Create, At, CliInv
    <3>2. <<cli[c].rule>> \in Seq(Flags)
      BY <3>1 DEF Doing
    <3>3. GetRules(<<cli[c].rule>>) \in Seq(Flags)
      BY <3>2, KvdictlAssumption DEF GetRules, Flags, Empty
    <3>4. QED
      BY <2>2, <3>3 DEF Create, Store, CliInv
  <2>3. CASE Delete(c)
    BY <2>3 DEF Delete, CliInv
  <2>4. CASE ~ PutUpdate(c) /\ ~ Create(c) /\ ~ Delete(c)
    <3>1. UNCHANGED roles
      BY <2>4 DEF Run, LoginFails, AddNothing, Fetch, PutGet, Close, CloseFails
    <3>2. QED
      BY <3>1 DEF CliInv
  <2>5. QED
    BY <2>1, <2>2, <2>3, <2>4
<1>3. cli'[c] # Idle => Doing(cli'[c])
  <2> USE DEF CliInv, CliShape, RunFields
  <2>1. CASE Run(c)
    BY <2>1 DEF Run, Doing, First, Flags, Op
  <2>2. CASE LoginFails(c)
    BY <2>2 DEF LoginFails
  <2>3. CASE AddNothing(c) \/ Close(c) \/ CloseFails(c)
    BY <2>3 DEF AddNothing, Close, CloseFails, Fails, Ends
  <2>4. CASE Fetch(c)
    <3> DEFINE role == roles[cli[c].names[1]]
    <3>1. cli[c] # Idle /\ cli[c].at = "fetch" /\ ~ (cli[c].op = "add" /\ cli[c].rule = Empty)
      BY <2>4 DEF Fetch, At
    <3>2. CASE role = Gone \/ ~ Applies(role, cli[c])
      BY <2>4, <3>2 DEF Fetch, Fails, Ends
    <3>3. CASE ~ (role = Gone \/ ~ Applies(role, cli[c]))
      <4>1. /\ cli'[c].op = cli[c].op /\ cli'[c].rule = cli[c].rule /\ cli'[c].key = cli[c].key
            /\ cli'[c].at = "put" /\ cli'[c].seen = role /\ cli'[c].sent = Changed(role, cli[c])
        BY <2>4, <3>1, <3>3 DEF Fetch
      <4>2. Changed(role, cli'[c]) = Changed(role, cli[c])
        BY <4>1, SameChange
      <4>3. role.rules \in Seq(Flags)
        BY <3>1, <3>3 DEF Doing
      <4>4. QED
        BY <3>1, <3>3, <4>1, <4>2, <4>3 DEF Doing
    <3>4. QED
      BY <3>2, <3>3
  <2>5. CASE PutGet(c)
    <3>1. CASE Fails(c)
      BY <3>1 DEF Fails, Ends
    <3>2. CASE ~ Fails(c)
      <4>1. cli[c] # Idle /\ cli[c].at = "put" /\ Doing(cli[c])
        BY <2>5 DEF PutGet, At
      <4>2. /\ cli'[c].op = cli[c].op /\ cli'[c].rule = cli[c].rule /\ cli'[c].key = cli[c].key
            /\ cli'[c].at = "update" /\ cli'[c].seen = cli[c].seen /\ cli'[c].sent = cli[c].sent
        BY <2>5, <3>2, <4>1 DEF PutGet
      <4>3. Changed(cli[c].seen, cli'[c]) = Changed(cli[c].seen, cli[c])
        BY <4>2, SameChange
      <4>4. QED
        BY <4>1, <4>2, <4>3 DEF Doing
    <3>3. QED
      BY <3>1, <3>2
  <2>6. CASE PutUpdate(c) \/ Create(c)
    BY SMTT(30), <2>6 DEF PutUpdate, Create, Store, At, Goes, Fails, Ends, Doing
  <2>7. CASE Delete(c)
    BY <2>7 DEF Delete, At, Fails, FailsFaulty, Ends, Doing
  <2>8. QED
    BY <2>1, <2>2, <2>3, <2>4, <2>5, <2>6, <2>7
<1>4. QED
  BY <1>1, <1>2, <1>3 DEF CliInv

(* The roles are roles, and what is sent is made of what was seen.         *)
THEOREM CliInvariant == CliSpec => []CliInv
<1>1. CliInit => CliInv
  BY DEF CliInit, CliInv, CliShape
<1>2. CliInv /\ UNCHANGED cliVars => CliInv'
  BY DEF CliInv, CliShape, cliVars
<1>3. CliInv /\ [CliNext]_cliVars => CliInv'
  BY <1>2, CliInvStep DEF CliNext
<1>4. QED
  BY <1>1, <1>3, PTL DEF CliSpec

(* A command changes what it was asked to and nothing else, unless the     *)
(* role was written since it was fetched.                                  *)
THEOREM EditsKeepHolds == CliSpec => EditsKeepTheRest
<1> DEFINE Kept ==
      \A c \in Cli : \A r \in Role :
         LET cmd == cli[c]
             old == roles[r]
             new == roles'[r]
         IN At(c, "update") /\ cli'[c] # cmd /\ new # old /\ cmd.seen = old =>
              /\ Granting(new.rules) =
                   CASE cmd.op = "add" -> Granting(old.rules) \cup {cmd.rule}
                     [] cmd.op = "remove" -> Granting(old.rules) \ {cmd.rule}
                     [] OTHER -> Granting(old.rules)
              /\ new.notes = CASE cmd.op = "set" -> old.notes \cup {cmd.key}
                               [] cmd.op = "unset" -> old.notes \ {cmd.key}
                               [] OTHER -> old.notes
<1>1. CliInv /\ [CliNext]_cliVars => [Kept]_cliVars
  <2> SUFFICES ASSUME CliInv, CliNext,
                      NEW c \in Cli, NEW r \in Role,
                      At(c, "update"), cli'[c] # cli[c], roles'[r] # roles[r], cli[c].seen = roles[r]
               PROVE  LET cmd == cli[c]
                          old == roles[r]
                          new == roles'[r]
                      IN  /\ Granting(new.rules) =
                               CASE cmd.op = "add" -> Granting(old.rules) \cup {cmd.rule}
                                 [] cmd.op = "remove" -> Granting(old.rules) \ {cmd.rule}
                                 [] OTHER -> Granting(old.rules)
                          /\ new.notes = CASE cmd.op = "set" -> old.notes \cup {cmd.key}
                                           [] cmd.op = "unset" -> old.notes \ {cmd.key}
                                           [] OTHER -> old.notes
    OBVIOUS
  <2>1. PICK d \in Cli :
          Run(d) \/ LoginFails(d) \/ AddNothing(d) \/ Fetch(d) \/ PutGet(d) \/ PutUpdate(d)
            \/ Create(d) \/ Delete(d) \/ Close(d) \/ CloseFails(d)
    BY DEF CliNext
  <2>2. d = c
    BY <2>1, CliShapeStep DEF CliInv
  <2>3. PutUpdate(c)
    BY <2>1, <2>2 DEF At, Run, LoginFails, AddNothing, Fetch, PutGet, Create, Delete, Close, CloseFails
  <2>4. Doing(cli[c]) /\ cli[c].at = "update"
    BY DEF CliInv, At
  <2>5. DOMAIN roles = Role
    BY DEF CliInv
  <2>6. roles'[r] = [rules |-> GetRules(cli[c].sent.rules), notes |-> cli[c].sent.notes,
                     version |-> made.writes + 1]
    BY <2>3, <2>5 DEF PutUpdate, Store
  <2>7. roles'[r].rules = GetRules(cli[c].sent.rules) /\ roles'[r].notes = cli[c].sent.notes
    BY <2>6
  <2>8. QED
    BY <2>4, <2>7, ChangedGrants
<1>2. QED
  BY <1>1, CliInvariant, PTL DEF CliSpec, EditsKeepTheRest

-----------------------------------------------------------------------------
(* What the vault, the client, the loop and Setup have of tokens.          *)
VaultShape ==
    /\ DOMAIN tokens = Token
    /\ \A t \in Token : /\ DOMAIN tokens[t] = {"left", "most"}
                        /\ tokens[t].left \in Nat /\ tokens[t].most \in Nat
                        /\ tokens[t].left <= tokens[t].most
    /\ {client, renewer.token, setup.token} \subseteq Token \cup {NoToken}
    /\ DOMAIN renewer = {"at", "due", "token", "lease"} /\ DOMAIN setup = {"at", "token"}
    /\ renewer.due \in Nat /\ renewer.lease \in Nat /\ outages \in Nat

(* Setup and Close: when they are under way, and what they left.           *)
Order ==
    /\ close # "no" => keeper = "manager" /\ setup.at = "idle" /\ renewer.at # "none"
    /\ close \in {"no", "stop"} => renewer.at # "stopped"
    /\ close \in {"revoke", "done"} => renewer.at = "stopped"
    /\ renewer.at = "renew" => Renewable
    /\ keeper \in {"app", "manager"} /\ close \in {"no", "stop", "revoke", "done"}
    /\ renewer.at \in {"none", "wait", "renew", "login", "set", "stopped", "panic"}

(* The tokens that were just granted or renewed, by Setup and by the loop, *)
(* and the token of the client when nobody is setting it up: it lives for  *)
(* Margin after the ticker of the loop, which works while the clock waits. *)
Live(t) == t \in Token /\ tokens[t].left > 0

Fresh ==
    /\ up /\ setup.at \in {"off", "idle", "login", "set"}
    /\ setup.at = "off" => renewer.at = "none"
    /\ setup.at = "set" => /\ Live(setup.token) /\ tokens[setup.token].left = Lease
                           /\ setup.token \notin {client, renewer.token}
    /\ renewer.at = "set" => /\ Live(renewer.token) /\ tokens[renewer.token].left = renewer.lease
                             /\ renewer.lease <= Lease
    /\ renewer.at \in {"wait", "renew"} => Margin < renewer.lease /\ renewer.lease <= Lease
    /\ renewer.at = "wait" => renewer.due + Margin <= renewer.lease
    /\ setup.at = "idle" /\ renewer.at \in {"wait", "renew", "login", "set"} => Live(client)
    /\ setup.at = "idle" /\ renewer.at = "wait" => renewer.due + Margin <= tokens[client].left

VaultInv == VaultShape /\ Order /\ (outages = 0 => Fresh)

(* There is a token that nobody has, and granting it leaves the others.    *)
LEMMA GrantedIs ==
    ASSUME VaultShape
    PROVE  /\ Unknown \in Token /\ Unknown \notin Held
           /\ Granted[Unknown] = [left |-> Lease, most |-> MaxTTL]
           /\ \A t \in Token \cap Held : Granted[t] = tokens[t]
           /\ DOMAIN Granted = Token
           /\ \A t \in Token : /\ DOMAIN Granted[t] = {"left", "most"}
                               /\ Granted[t].left \in Nat /\ Granted[t].most \in Nat
                               /\ Granted[t].left <= Granted[t].most
<1>1. \E t \in Token : t \notin Held
  <2>1. \A a, b, c : \E t \in {1, 2, 3, 4} : t # a /\ t # b /\ t # c
    OBVIOUS
  <2>2. Token = {1, 2, 3, 4}
    BY DEF Token
  <2>3. QED
    BY <2>1, <2>2 DEF Held
<1>2. Unknown \in Token /\ Unknown \notin Held
  BY <1>1 DEF Unknown
<1>3. Lease \in Nat /\ MaxTTL \in Nat /\ Lease <= MaxTTL
  BY VaultAssumption
<1> HIDE DEF Unknown
<1>4. \A t \in Token : Granted[t] = IF t = Unknown THEN [left |-> Lease, most |-> MaxTTL]
                                    ELSE IF t \in Held THEN tokens[t] ELSE Expired
  BY DEF Granted
<1>5. \A t \in Token : /\ DOMAIN Granted[t] = {"left", "most"}
                       /\ Granted[t].left \in Nat /\ Granted[t].most \in Nat
                       /\ Granted[t].left <= Granted[t].most
  BY <1>3, <1>4 DEF VaultShape, Expired
<1>6. QED
  BY <1>2, <1>4, <1>5 DEF Granted

(* A renewal gives the token of the client the old lease again, or what    *)
(* the vault allows; one that fails leaves a loop that knows no token.     *)
LEMMA RenewIs ==
    ASSUME VaultShape, Renew
    PROVE  /\ renewer.at = "renew" /\ UNCHANGED <<keeper, up, outages, client, setup, close>>
           /\ DOMAIN renewer' = {"at", "due", "token", "lease"} /\ renewer'.due = renewer.due
           /\ renewer'.lease \in Nat /\ renewer'.lease <= renewer.lease
           /\ DOMAIN tokens' = Token
           /\ \A t \in Token : /\ DOMAIN tokens'[t] = {"left", "most"}
                               /\ tokens'[t].left \in Nat /\ tokens'[t].most = tokens[t].most
                               /\ tokens'[t].left <= tokens'[t].most
                               /\ t # client => tokens'[t] = tokens[t]
           /\ \/ /\ client \in Token /\ renewer'.at = "set" /\ renewer'.token = client
                 /\ tokens'[client].left = renewer'.lease
                 /\ renewer.lease > 0 /\ tokens[client].most > 0 => renewer'.lease > 0
                 /\ tokens[client].left > 0
              \/ /\ ~(up /\ Live(client)) \/ client = NoToken
                 /\ renewer'.at = "login" /\ renewer'.token = NoToken
                 /\ tokens' = tokens /\ renewer'.lease = renewer.lease
<1>1. renewer.at = "renew" /\ UNCHANGED <<keeper, up, outages, client, setup, close>>
  BY DEF Renew
<1>2. CASE up /\ client # NoToken /\ tokens[client].left > 0
  <2> DEFINE lease == Smaller(renewer.lease, tokens[client].most)
  <2>1. tokens' = [tokens EXCEPT ![client].left = lease]
        /\ renewer' = [renewer EXCEPT !.at = "set", !.token = client, !.lease = lease]
    BY <1>2 DEF Renew
  <2>2. client \in Token
    BY <1>2 DEF VaultShape
  <2>3. lease \in Nat /\ lease <= renewer.lease /\ lease <= tokens[client].most
        /\ (renewer.lease > 0 /\ tokens[client].most > 0 => lease > 0)
    BY <2>2 DEF Smaller, VaultShape
  <2> HIDE DEF lease
  <2>4. DOMAIN renewer' = {"at", "due", "token", "lease"} /\ renewer'.due = renewer.due
        /\ renewer'.lease = lease /\ renewer'.at = "set" /\ renewer'.token = client
    BY <2>1 DEF VaultShape
  <2>5. DOMAIN tokens' = Token /\ tokens'[client] = [tokens[client] EXCEPT !.left = lease]
        /\ \A t \in Token : t # client => tokens'[t] = tokens[t]
    BY <2>1, <2>2 DEF VaultShape
  <2>6. DOMAIN tokens'[client] = {"left", "most"} /\ tokens'[client].left = lease
        /\ tokens'[client].most = tokens[client].most
    BY <2>2, <2>5 DEF VaultShape
  <2>7. QED
    BY <1>1, <1>2, <2>2, <2>3, <2>4, <2>5, <2>6 DEF VaultShape
<1>3. CASE ~(up /\ client # NoToken /\ tokens[client].left > 0)
  <2>1. renewer' = [renewer EXCEPT !.at = "login", !.token = NoToken] /\ tokens' = tokens
    BY <1>3 DEF Renew
  <2>2. DOMAIN renewer' = {"at", "due", "token", "lease"} /\ renewer'.due = renewer.due
        /\ renewer'.lease = renewer.lease /\ renewer'.at = "login" /\ renewer'.token = NoToken
    BY <2>1 DEF VaultShape
  <2>3. renewer.lease \in Nat
    BY DEF VaultShape
  <2>4. QED
    BY <1>1, <1>3, <2>1, <2>2, <2>3 DEF VaultShape, Live
<1>4. QED
  BY <1>2, <1>3

(* A tick takes one from the ticker and from the tokens that are held.     *)
LEMMA TickIs ==
    ASSUME VaultShape, VaultTick
    PROVE  /\ renewer.at \notin {"renew", "login", "set"} /\ setup.at \notin {"login", "set"}
           /\ renewer.at = "wait" => renewer.due # 0
           /\ UNCHANGED <<keeper, up, outages, client, setup, close>>
           /\ DOMAIN renewer' = {"at", "due", "token", "lease"}
           /\ renewer'.at = renewer.at /\ renewer'.token = renewer.token
           /\ renewer'.lease = renewer.lease
           /\ renewer'.due \in Nat
           /\ renewer.due > 0 => renewer'.due = renewer.due - 1
           /\ DOMAIN tokens' = Token
           /\ \A t \in Token : /\ DOMAIN tokens'[t] = {"left", "most"}
                               /\ tokens'[t].left \in Nat /\ tokens'[t].most \in Nat
                               /\ tokens'[t].left <= tokens'[t].most
                               /\ t \in Held /\ tokens[t].left > 0
                                    => tokens'[t].left = tokens[t].left - 1
<1>1. renewer.at \notin {"renew", "login", "set"} /\ setup.at \notin {"login", "set"}
      /\ (renewer.at = "wait" => renewer.due # 0)
      /\ UNCHANGED <<keeper, up, outages, client, setup, close>>
  BY DEF VaultTick
<1>2. renewer' = [renewer EXCEPT !.due = Less(@)]
  BY DEF VaultTick
<1>3. \A n \in Nat : Less(n) \in Nat /\ (n > 0 => Less(n) = n - 1)
  BY DEF Less
<1>4. \A m, n \in Nat : m <= n => Less(m) <= Less(n)
  BY DEF Less
<1> HIDE DEF Less
<1>5. DOMAIN renewer' = {"at", "due", "token", "lease"} /\ renewer'.at = renewer.at
      /\ renewer'.token = renewer.token /\ renewer'.lease = renewer.lease
      /\ renewer'.due = Less(renewer.due)
  BY <1>2 DEF VaultShape
<1>6. tokens' = [t \in Token |-> IF t \notin Held THEN Expired
                                 ELSE [left |-> Less(tokens[t].left), most |-> Less(tokens[t].most)]]
  BY DEF VaultTick
<1>7. ASSUME NEW t \in Token
      PROVE  /\ DOMAIN tokens'[t] = {"left", "most"}
             /\ tokens'[t].left \in Nat /\ tokens'[t].most \in Nat
             /\ tokens'[t].left <= tokens'[t].most
             /\ t \in Held /\ tokens[t].left > 0 => tokens'[t].left = tokens[t].left - 1
  <2>1. CASE t \notin Held
    <3>1. tokens'[t] = Expired
      BY <1>6, <2>1
    <3>2. QED
      BY <2>1, <3>1 DEF Expired
  <2>2. CASE t \in Held
    <3>1. tokens'[t] = [left |-> Less(tokens[t].left), most |-> Less(tokens[t].most)]
      BY <1>6, <2>2
    <3>2. tokens[t].left \in Nat /\ tokens[t].most \in Nat /\ tokens[t].left <= tokens[t].most
      BY DEF VaultShape
    <3>3. QED
      BY <1>3, <1>4, <3>1, <3>2
  <2>3. QED
    BY <2>1, <2>2
<1>8. renewer.due \in Nat
  BY DEF VaultShape
<1>9. QED
  BY <1>1, <1>3, <1>5, <1>6, <1>7, <1>8

(* The steps keep what there is of its kind.                               *)
LEMMA VaultShapeStep ==
    ASSUME VaultShape, VaultNext
    PROVE  VaultShape'
<1>0. Lease \in Nat /\ Again \in Nat /\ Margin \in Nat
  BY VaultAssumption
<1>1. CASE ProcessStarts \/ FirstSetup \/ SetupAgain \/ CloseBegins \/ VaultFails \/ VaultRecovers
  BY <1>1 DEF ProcessStarts, FirstSetup, SetupAgain, NewClient, CloseBegins, VaultFails, VaultRecovers,
              VaultShape, SetupAt
<1>2. CASE SetupLogin
  <2>1. CASE up
    <3>1. tokens' = Granted /\ setup' = [at |-> "set", token |-> Unknown]
          /\ UNCHANGED <<client, renewer, outages>>
      BY <1>2, <2>1 DEF SetupLogin
    <3> HIDE DEF Granted, Unknown
    <3>2. QED
      BY <3>1, GrantedIs DEF VaultShape
  <2>2. CASE ~up
    BY <1>2, <2>2 DEF SetupLogin, VaultShape, SetupAt
  <2>3. QED
    BY <2>1, <2>2
<1>3. CASE SetupDone
  <2>1. client' = setup.token /\ setup' = SetupAt("idle") /\ UNCHANGED <<tokens, outages>>
    BY <1>3 DEF SetupDone
  <2>2. renewer' = Waiting(setup.token, Lease) \/ renewer' = renewer
    BY <1>3 DEF SetupDone
  <2>3. CASE renewer' = renewer
    BY <2>1, <2>3 DEF VaultShape, SetupAt
  <2>4. CASE renewer' = Waiting(setup.token, Lease)
    <3>1. DOMAIN renewer' = {"at", "due", "token", "lease"} /\ renewer'.token = setup.token
          /\ renewer'.lease = Lease
          /\ renewer'.due = IF Lease > Margin THEN Lease - Margin ELSE 0
      BY <2>4 DEF Waiting
    <3>2. renewer'.due \in Nat /\ renewer'.lease \in Nat
      BY <1>0, <3>1
    <3>3. QED
      BY <2>1, <3>1, <3>2 DEF VaultShape, SetupAt
  <2>5. QED
    BY <2>2, <2>3, <2>4
<1>4. CASE Wake
  BY <1>4 DEF Wake, VaultShape
<1>5. CASE Renew
  BY <1>5, RenewIs DEF VaultShape
<1>6. CASE LoopLogin
  <2>1. CASE up
    <3>1. tokens' = Granted /\ UNCHANGED <<client, setup, outages>>
          /\ renewer' = [renewer EXCEPT !.at = "set", !.token = Unknown, !.lease = Lease]
      BY <1>6, <2>1 DEF LoopLogin
    <3> HIDE DEF Granted, Unknown
    <3>2. DOMAIN renewer' = {"at", "due", "token", "lease"} /\ renewer'.token = Unknown
          /\ renewer'.lease = Lease /\ renewer'.due = renewer.due
      BY <3>1 DEF VaultShape
    <3>3. QED
      BY <1>0, <3>1, <3>2, GrantedIs DEF VaultShape
  <2>2. CASE ~up
    <3>1. renewer' = [NoLoop EXCEPT !.at = "wait", !.due = Again]
          /\ UNCHANGED <<tokens, client, setup, outages>>
      BY <1>6, <2>2 DEF LoopLogin
    <3>2. DOMAIN renewer' = {"at", "due", "token", "lease"} /\ renewer'.token = NoToken
          /\ renewer'.lease = 0 /\ renewer'.due = Again
      BY <3>1 DEF NoLoop
    <3>3. QED
      BY <1>0, <3>1, <3>2 DEF VaultShape
  <2>3. QED
    BY <2>1, <2>2
<1>7. CASE LoopDone
  <2>1. client' = renewer.token /\ renewer' = Waiting(renewer.token, renewer.lease)
        /\ UNCHANGED <<tokens, setup, outages>>
    BY <1>7 DEF LoopDone
  <2>2. DOMAIN renewer' = {"at", "due", "token", "lease"} /\ renewer'.token = renewer.token
        /\ renewer'.lease = renewer.lease
        /\ renewer'.due = IF renewer.lease > Margin THEN renewer.lease - Margin ELSE 0
    BY <2>1 DEF Waiting
  <2>3. renewer'.due \in Nat
    BY <1>0, <2>2 DEF VaultShape
  <2>4. QED
    BY <2>1, <2>2, <2>3 DEF VaultShape
<1>8. CASE StopLoop \/ Restart
  BY <1>8 DEF StopLoop, Restart, NoLoop, SetupAt, VaultShape
<1>9. CASE RevokeSelf
  BY <1>9 DEF RevokeSelf, Expired, VaultShape
<1>10. CASE VaultTick
  BY <1>10, TickIs DEF VaultShape
<1>11. QED
  BY <1>1, <1>2, <1>3, <1>4, <1>5, <1>6, <1>7, <1>8, <1>9, <1>10
  DEF VaultNext, SetupStep, LoopStep, CloseStep

(* Close waits for Setup and ends the loop; Setup runs before it.          *)
LEMMA OrderStep ==
    ASSUME VaultShape, Order, VaultNext
    PROVE  Order'
<1>1. CASE ProcessStarts \/ VaultFails \/ VaultRecovers
  BY <1>1 DEF ProcessStarts, VaultFails, VaultRecovers, Order, SetupAt
<1>2. CASE FirstSetup \/ SetupAgain
  BY <1>2 DEF FirstSetup, SetupAgain, NewClient, Order, SetupAt
<1>3. CASE SetupLogin
  <2>1. setup.at = "login" /\ UNCHANGED <<keeper, renewer, close>>
    BY <1>3 DEF SetupLogin
  <2>2. QED
    BY <2>1 DEF Order
<1>4. CASE SetupDone
  <2>1. setup.at = "set" /\ setup'.at = "idle" /\ UNCHANGED <<keeper, close>>
    BY <1>4 DEF SetupDone, SetupAt
  <2>2. renewer' = renewer \/ (renewer.at = "none" /\ renewer'.at \in {"wait", "panic"})
    BY <1>4 DEF SetupDone, Waiting
  <2>3. QED
    BY <2>1, <2>2 DEF Order
<1>5. CASE Wake
  <2>1. renewer.at = "wait" /\ UNCHANGED <<keeper, setup, close>>
    BY <1>5 DEF Wake
  <2>2. renewer'.at \in {"renew", "login"} /\ (renewer'.at = "renew" => Renewable)
    BY <1>5 DEF Wake, VaultShape
  <2>3. QED
    BY <2>1, <2>2 DEF Order
<1>6. CASE Renew
  BY <1>6, RenewIs DEF Order
<1>7. CASE LoopLogin
  <2>1. renewer.at = "login" /\ UNCHANGED <<keeper, setup, close>>
    BY <1>7 DEF LoopLogin
  <2>2. renewer'.at \in {"set", "wait"}
    BY <1>7 DEF LoopLogin, VaultShape, NoLoop
  <2>3. QED
    BY <2>1, <2>2 DEF Order
<1>8. CASE LoopDone
  <2>1. renewer.at = "set" /\ UNCHANGED <<keeper, setup, close>>
    BY <1>8 DEF LoopDone
  <2>2. renewer'.at \in {"wait", "panic"}
    BY <1>8 DEF LoopDone, Waiting
  <2>3. QED
    BY <2>1, <2>2 DEF Order
<1>9. CASE CloseBegins
  BY <1>9 DEF CloseBegins, Order
<1>10. CASE StopLoop
  BY <1>10 DEF StopLoop, Order, NoLoop
<1>11. CASE RevokeSelf
  BY <1>11 DEF RevokeSelf, Order
<1>12. CASE Restart
  BY <1>12 DEF Restart, Order, NoLoop, SetupAt
<1>13. CASE VaultTick
  BY <1>13, TickIs DEF Order
<1>14. QED
  BY <1>1, <1>2, <1>3, <1>4, <1>5, <1>6, <1>7, <1>8, <1>9, <1>10, <1>11, <1>12, <1>13
  DEF VaultNext, SetupStep, LoopStep, CloseStep

(* While the vault has always answered, what was granted is good.          *)
LEMMA FreshStep ==
    ASSUME VaultShape, Order, outages = 0 => Fresh, VaultNext
    PROVE  outages' = 0 => Fresh'
<1> SUFFICES ASSUME outages' = 0
             PROVE  Fresh'
  OBVIOUS
<1>1. outages = 0 /\ ~VaultFails
  <2>1. CASE VaultFails
    <3>1. outages' = outages + 1 /\ outages \in Nat
      BY <2>1 DEF VaultFails, VaultShape
    <3>2. QED
      BY <3>1
  <2>2. CASE ~VaultFails
    <3>1. outages' = outages
      BY <2>2 DEF VaultNext, SetupStep, LoopStep, CloseStep, ProcessStarts, FirstSetup, SetupAgain,
                  NewClient, SetupLogin, SetupDone, Wake, Renew, LoopLogin, LoopDone, CloseBegins,
                  StopLoop, RevokeSelf, Restart, VaultRecovers, VaultTick
    <3>2. QED
      BY <2>2, <3>1
  <2>3. QED
    BY <2>1, <2>2
<1>2. Fresh /\ up
  BY <1>1 DEF Fresh
<1>3. /\ Lease \in Nat /\ Margin \in Nat /\ Lease > 0 /\ Margin > 0 /\ MaxTTL \in Nat /\ Lease <= MaxTTL
      /\ NoToken \notin Token
  BY VaultAssumption DEF Token
<1>4. CASE ProcessStarts
  BY <1>2, <1>4 DEF ProcessStarts, Fresh, Live, SetupAt
<1>5. CASE FirstSetup \/ SetupAgain
  <2>1. setup' = SetupAt("login") /\ setup.at # "off" /\ UNCHANGED <<up, tokens, renewer>>
    BY <1>5 DEF FirstSetup, SetupAgain, NewClient
  <2>2. setup'.at = "login"
    BY <2>1 DEF SetupAt
  <2>3. QED
    BY <1>2, <2>1, <2>2 DEF Fresh, Live
<1>6. CASE SetupLogin
  <2>1. tokens' = Granted /\ setup' = [at |-> "set", token |-> Unknown]
        /\ UNCHANGED <<up, client, renewer>>
    BY <1>2, <1>6 DEF SetupLogin
  <2> HIDE DEF Granted, Unknown
  <2>2. setup'.at = "set" /\ setup'.token = Unknown
    BY <2>1
  <2>3. Unknown \in Token /\ Unknown \notin Held /\ Granted[Unknown].left = Lease
    BY GrantedIs
  <2>4. renewer.at = "set" => tokens'[renewer.token] = tokens[renewer.token]
    BY <1>2, <2>1, GrantedIs DEF Fresh, Live, Held
  <2>5. QED
    BY <1>2, <1>3, <2>1, <2>2, <2>3, <2>4 DEF Fresh, Live, Held
<1>7. CASE SetupDone
  <2>1. setup.at = "set" /\ client' = setup.token /\ setup'.at = "idle" /\ UNCHANGED <<up, tokens>>
    BY <1>7 DEF SetupDone, SetupAt
  <2>2. CASE renewer' = renewer
    <3>1. Live(client)' /\ tokens'[client'].left = Lease
      BY <1>2, <2>1 DEF Fresh, Live
    <3>2. renewer.at = "wait" => renewer.due + Margin <= Lease
      BY <1>2, <1>3 DEF Fresh, VaultShape
    <3>3. QED
      BY <1>2, <2>1, <2>2, <3>1, <3>2 DEF Fresh, Live
  <2>3. CASE renewer' = Waiting(setup.token, Lease)
    <3>1. renewer'.at = IF Lease > Margin THEN "wait" ELSE "panic"
      BY <2>3 DEF Waiting
    <3>2. renewer'.due = (IF Lease > Margin THEN Lease - Margin ELSE 0) /\ renewer'.lease = Lease
      BY <2>3 DEF Waiting
    <3>3. Live(client)' /\ tokens'[client'].left = Lease
      BY <1>2, <2>1 DEF Fresh, Live
    <3>4. renewer'.at = "wait" => renewer'.due + Margin <= Lease /\ Margin < Lease
      BY <1>3, <3>1, <3>2
    <3>5. QED
      BY <1>2, <1>3, <2>1, <3>1, <3>2, <3>3, <3>4 DEF Fresh
  <2>4. QED
    BY <1>7, <2>2, <2>3 DEF SetupDone
<1>8. CASE Wake
  <2>1. renewer.at = "wait" /\ UNCHANGED <<up, tokens, client, setup>>
        /\ renewer'.at \in {"renew", "login"} /\ renewer'.lease = renewer.lease
        /\ renewer'.token = renewer.token
    BY <1>8 DEF Wake, VaultShape
  <2>2. QED
    BY <1>2, <2>1 DEF Fresh, Live
<1>9. CASE Renew
  <2>1. renewer.at = "renew" /\ UNCHANGED <<up, client, setup>> /\ Margin < renewer.lease
    BY <1>2, <1>9, RenewIs DEF Fresh
  <2>2. renewer.lease \in Nat /\ renewer.lease > 0
    BY <1>3, <2>1 DEF VaultShape
  <2>3. \A t \in Token : t # client => tokens'[t] = tokens[t]
    BY <1>9, RenewIs
  <2>4. setup.at = "set" => Live(setup.token)' /\ tokens'[setup.token].left = Lease
                            /\ setup.token # client
    BY <1>2, <2>1, <2>3 DEF Fresh, Live
  <2>5. CASE renewer'.at = "set"
    <3>1. client \in Token /\ renewer'.token = client /\ tokens'[client].left = renewer'.lease
          /\ tokens[client].left > 0
          /\ (renewer.lease > 0 /\ tokens[client].most > 0 => renewer'.lease > 0)
          /\ renewer'.lease <= renewer.lease /\ renewer'.lease \in Nat
      BY <1>9, <2>5, RenewIs
    <3>2. tokens[client].most > 0
      BY <3>1 DEF VaultShape
    <3>3. renewer'.lease > 0 /\ renewer'.lease <= Lease
      BY <1>2, <1>3, <2>1, <2>2, <3>1, <3>2 DEF Fresh
    <3>4. QED
      BY <1>2, <2>1, <2>4, <2>5, <3>1, <3>3 DEF Fresh, Live
  <2>6. CASE renewer'.at = "login"
    <3>1. tokens' = tokens /\ renewer'.token = NoToken
      BY <1>9, <2>6, RenewIs
    <3>2. setup.at = "set" => setup.token # NoToken
      BY <1>2, <1>3 DEF Fresh, Live
    <3>3. QED
      BY <1>2, <2>1, <2>4, <2>6, <3>1, <3>2 DEF Fresh, Live
  <2>7. QED
    BY <1>9, <2>5, <2>6, RenewIs
<1>10. CASE LoopLogin
  <2>1. renewer.at = "login" /\ tokens' = Granted /\ UNCHANGED <<up, client, setup>>
        /\ renewer' = [renewer EXCEPT !.at = "set", !.token = Unknown, !.lease = Lease]
    BY <1>2, <1>10 DEF LoopLogin
  <2> HIDE DEF Granted, Unknown
  <2>2. renewer'.at = "set" /\ renewer'.token = Unknown /\ renewer'.lease = Lease
    BY <2>1 DEF VaultShape
  <2>3. Unknown \in Token /\ Unknown \notin Held /\ Granted[Unknown].left = Lease
    BY GrantedIs
  <2>4. \A t \in Token \cap Held : tokens'[t] = tokens[t]
    BY <2>1, GrantedIs
  <2>5. client \in Held /\ setup.token \in Held
    BY DEF Held
  <2>6. setup.at = "set" => Live(setup.token)' /\ tokens'[setup.token].left = Lease
                            /\ setup.token \notin {client, Unknown}
    BY <1>2, <2>1, <2>3, <2>4, <2>5 DEF Fresh, Live
  <2>7. setup.at = "idle" => Live(client)'
    BY <1>2, <2>1, <2>4, <2>5 DEF Fresh, Live
  <2>8. Unknown \in Token /\ tokens'[Unknown].left = Lease /\ Lease > 0
    BY <1>3, <2>1, <2>3
  <2>9. QED
    BY <1>2, <1>3, <2>1, <2>2, <2>6, <2>7, <2>8 DEF Fresh, Live
<1>11. CASE LoopDone
  <2>1. renewer.at = "set" /\ client' = renewer.token /\ UNCHANGED <<up, tokens, setup>>
        /\ renewer' = Waiting(renewer.token, renewer.lease)
    BY <1>11 DEF LoopDone
  <2>2. renewer'.at = (IF renewer.lease > Margin THEN "wait" ELSE "panic")
        /\ renewer'.due = (IF renewer.lease > Margin THEN renewer.lease - Margin ELSE 0)
        /\ renewer'.token = renewer.token /\ renewer'.lease = renewer.lease
    BY <2>1 DEF Waiting
  <2>3. renewer.lease \in Nat /\ Live(renewer.token) /\ renewer.lease <= Lease
        /\ tokens[renewer.token].left = renewer.lease
    BY <1>2, <2>1 DEF Fresh, VaultShape
  <2>4. renewer'.at = "wait" => renewer'.due + Margin <= renewer.lease /\ Margin < renewer.lease
    BY <1>3, <2>2, <2>3
  <2>5. setup.at = "set" => setup.token # renewer.token
    BY <1>2 DEF Fresh
  <2>6. renewer'.at \in {"wait", "panic"}
    BY <2>2
  <2>7. QED
    BY <1>2, <2>1, <2>2, <2>3, <2>4, <2>5, <2>6 DEF Fresh, Live
<1>12. CASE CloseBegins \/ VaultRecovers
  BY <1>2, <1>12 DEF CloseBegins, VaultRecovers, Fresh, Live
<1>13. CASE StopLoop
  <2>1. renewer'.at = "stopped" /\ setup.at = "idle" /\ UNCHANGED <<up, tokens, client, setup>>
    BY <1>13 DEF StopLoop, NoLoop, Order
  <2>2. QED
    BY <1>2, <2>1 DEF Fresh
<1>14. CASE RevokeSelf
  <2>1. close = "revoke" /\ UNCHANGED <<up, client, renewer, setup>>
    BY <1>14 DEF RevokeSelf
  <2>2. renewer.at = "stopped" /\ setup.at = "idle"
    BY <2>1 DEF Order
  <2>3. QED
    BY <1>2, <2>1, <2>2 DEF Fresh
<1>15. CASE Restart
  <2>1. renewer'.at = "none" /\ setup'.at = "idle" /\ UNCHANGED up
    BY <1>15 DEF Restart, NoLoop, SetupAt
  <2>2. QED
    BY <1>2, <2>1 DEF Fresh
<1>16. CASE VaultTick
  <2>1. renewer.at \notin {"renew", "login", "set"} /\ setup.at \notin {"login", "set"}
        /\ (renewer.at = "wait" => renewer.due # 0)
        /\ UNCHANGED <<up, client, setup>> /\ renewer'.at = renewer.at
        /\ renewer'.lease = renewer.lease /\ renewer'.token = renewer.token
        /\ (renewer.due > 0 => renewer'.due = renewer.due - 1)
    BY <1>16, TickIs
  <2>2. ASSUME renewer.at = "wait", setup.at = "idle"
        PROVE  Live(client)' /\ renewer'.due + Margin <= tokens'[client].left
    <3>1. Live(client) /\ renewer.due + Margin <= tokens[client].left
      BY <1>2, <2>2 DEF Fresh
    <3>2. client \in Held
      BY DEF Held
    <3>3. tokens[client].left \in Nat /\ renewer.due \in Nat /\ renewer.due > 0
      BY <2>1, <2>2, <3>1 DEF VaultShape, Live
    <3>4. tokens'[client].left = tokens[client].left - 1
      BY <1>16, <3>1, <3>2, TickIs DEF Live
    <3>5. tokens'[client].left > 0 /\ renewer'.due + Margin <= tokens'[client].left
      BY <1>3, <2>1, <3>1, <3>3, <3>4
    <3>6. QED
      BY <2>1, <3>1, <3>5 DEF Live
  <2>3. renewer.at = "wait" => renewer'.due + Margin <= renewer'.lease
    <3>1. renewer.due \in Nat /\ renewer.lease \in Nat
      BY DEF VaultShape
    <3>2. QED
      BY <1>2, <1>3, <2>1, <3>1 DEF Fresh
  <2>4. QED
    BY <1>2, <2>1, <2>2, <2>3 DEF Fresh
<1>17. QED
  BY <1>1, <1>4, <1>5, <1>6, <1>7, <1>8, <1>9, <1>10, <1>11, <1>12, <1>13, <1>14, <1>15, <1>16
  DEF VaultNext, SetupStep, LoopStep, CloseStep

(* What Setup, the loop and Close leave of the vault's tokens, for every   *)
(* lease, margin and number of outages.                                    *)
THEOREM VaultInvariant == VaultSpec => []VaultInv
<1>1. VaultInit => VaultInv
  <2> SUFFICES ASSUME VaultInit
               PROVE  VaultInv
    OBVIOUS
  <2>1. VaultShape
    BY DEF VaultInit, VaultShape, Expired, NoLoop, SetupAt
  <2>2. renewer.at = "none" /\ setup.at = "off"
    BY DEF VaultInit, NoLoop, SetupAt
  <2>3. Order /\ Fresh
    BY <2>2 DEF VaultInit, Order, Fresh
  <2>4. QED
    BY <2>1, <2>3 DEF VaultInv
<1>2. VaultInv /\ [VaultNext]_vaultVars => VaultInv'
  <2> SUFFICES ASSUME VaultInv, [VaultNext]_vaultVars
               PROVE  VaultInv'
    OBVIOUS
  <2>1. CASE VaultNext
    BY <2>1, VaultShapeStep, OrderStep, FreshStep DEF VaultInv
  <2>2. CASE UNCHANGED vaultVars
    BY <2>2 DEF vaultVars, VaultInv, VaultShape, Order, Fresh, Live
  <2>3. QED
    BY <2>1, <2>2
<1>3. QED
  BY <1>1, <1>2, PTL DEF VaultSpec

(* While the vault has always answered, the token of the client that       *)
(* requests use has not expired (TokenKept's first part): the loop works   *)
(* Margin before it would, whatever Setup does beside it.                  *)
THEOREM AliveHolds == VaultSpec => []AliveWhileAnswered
<1>1. VaultInv => AliveWhileAnswered
  <2> SUFFICES ASSUME VaultInv, outages = 0, Serving
               PROVE  Alive
    BY DEF AliveWhileAnswered
  <2>1. setup.at = "idle" /\ renewer.at \in {"wait", "renew", "login", "set"}
    BY DEF VaultInv, Order, Serving
  <2>2. Live(client)
    BY <2>1 DEF VaultInv, Fresh
  <2>3. client # NoToken
    BY <2>2, VaultAssumption DEF Live, Token
  <2>4. QED
    BY <2>2, <2>3 DEF Live, Alive
<1>2. QED
  BY <1>1, VaultInvariant, PTL

-----------------------------------------------------------------------------
(* The roles of ExternalLogin. *)

(* What each round of a loop leaves.                                       *)
Rounds(after, n, start, step) ==
    after = [i \in 0..n |-> IF i = 0 THEN start ELSE step[i][after[i - 1]]]

(* They are values of X, from start to what the loop makes.                *)
GoesThrough(after, X, n, start, step) ==
    /\ after \in [0..n -> X]
    /\ after[0] = start
    /\ \A i \in 1..n : after[i] = step[i][after[i - 1]]
    /\ Loop(n, start, step) = after[n]

(* A loop has such rounds.                                                 *)
LEMMA LoopIs ==
    ASSUME NEW X, NEW n \in Nat, NEW start \in X, NEW step \in [1..n -> [X -> X]]
    PROVE  \E after : GoesThrough(after, X, n, start, step)
<1> DEFINE T == {m \in 0..n : \E after \in [0..m -> X] : Rounds(after, m, start, step)}
<1>1. 0 \in T
  <2>1. [i \in 0..0 |-> start] \in [0..0 -> X] /\ Rounds([i \in 0..0 |-> start], 0, start, step)
    BY DEF Rounds
  <2>2. QED
    BY <2>1
<1>2. ASSUME NEW m \in T, m \in 0..(n - 1) PROVE m + 1 \in T
  <2>1. PICK after \in [0..m -> X] : Rounds(after, m, start, step)
    OBVIOUS
  <2> DEFINE more == [i \in 0..(m + 1) |-> IF i <= m THEN after[i] ELSE step[i][after[m]]]
  <2>2. m \in Nat /\ m + 1 \in 0..n /\ m + 1 \in 1..n /\ m \in 0..m
    BY <1>2
  <2>3. ASSUME NEW i \in 0..(m + 1)
        PROVE  more[i] \in X /\ more[i] = IF i = 0 THEN start ELSE step[i][more[i - 1]]
    <3>1. CASE i <= m
      <4>1. i \in 0..m /\ (i # 0 => i - 1 \in 0..(m + 1) /\ i - 1 <= m)
        BY <2>2, <3>1
      <4>2. after[i] = IF i = 0 THEN start ELSE step[i][after[i - 1]]
        BY <2>1, <4>1 DEF Rounds
      <4>3. more[i] = after[i] /\ (i # 0 => more[i - 1] = after[i - 1])
        BY <3>1, <4>1
      <4>4. QED
        BY <4>1, <4>2, <4>3
    <3>2. CASE ~ (i <= m)
      <4>1. i = m + 1 /\ i # 0 /\ i - 1 = m /\ m \in 0..(m + 1) /\ m <= m
        BY <2>2, <3>2
      <4>2. more[i] = step[i][after[m]] /\ more[m] = after[m] /\ i \in 1..n
        BY <2>2, <3>2, <4>1
      <4>3. after[m] \in X /\ step[i] \in [X -> X]
        BY <2>2, <4>2
      <4>4. QED
        BY <4>1, <4>2, <4>3
    <3>3. QED
      BY <3>1, <3>2
  <2>4. more \in [0..(m + 1) -> X] /\ Rounds(more, m + 1, start, step)
    BY <2>3 DEF Rounds
  <2>5. QED
    BY <2>2, <2>4
<1> HIDE DEF T
<1>3. n \in T
  BY <1>1, <1>2, UpTo
<1>4. \E after : Rounds(after, n, start, step)
  BY <1>3 DEF T
<1> DEFINE rounds == CHOOSE after : Rounds(after, n, start, step)
<1>5. Rounds(rounds, n, start, step) /\ Loop(n, start, step) = rounds[n]
  BY <1>4 DEF Loop, Rounds
<1> HIDE DEF rounds
<1>6. rounds[0] = start /\ \A i \in 1..n : rounds[i] = step[i][rounds[i - 1]]
  BY <1>5 DEF Rounds
<1>7. rounds \in [0..n -> X]
  <2> DEFINE U == {m \in 0..n : rounds[m] \in X}
  <2>1. 0 \in U
    BY <1>6
  <2>2. ASSUME NEW m \in U, m \in 0..(n - 1) PROVE m + 1 \in U
    <3>1. m + 1 \in 1..n /\ (m + 1) - 1 = m /\ m + 1 \in 0..n
      BY <2>2
    <3>2. rounds[m + 1] = step[m + 1][rounds[m]]
      BY <1>6, <3>1
    <3>3. QED
      BY <3>1, <3>2
  <2> HIDE DEF U
  <2>3. 0..n \subseteq U
    BY <2>1, <2>2, UpTo
  <2>4. \A m \in 0..n : rounds[m] \in X
    BY <2>3 DEF U
  <2>5. QED
    BY <1>5, <2>4 DEF Rounds
<1>8. QED
  BY <1>5, <1>6, <1>7 DEF GoesThrough

(* What holds before a loop and is kept by each of its rounds holds of     *)
(* what it makes; kept[i] are the values good after i rounds.              *)
LEMMA LoopKeeps ==
    ASSUME NEW X, NEW n \in Nat, NEW start \in X, NEW step \in [1..n -> [X -> X]],
           NEW kept, start \in kept[0],
           \A i \in 1..n : \A x \in X : x \in kept[i - 1] => step[i][x] \in kept[i]
    PROVE  Loop(n, start, step) \in X /\ Loop(n, start, step) \in kept[n]
<1>0. PICK after : GoesThrough(after, X, n, start, step)
  BY LoopIs
<1>1. /\ after \in [0..n -> X] /\ after[0] = start
      /\ \A i \in 1..n : after[i] = step[i][after[i - 1]]
      /\ Loop(n, start, step) = after[n]
  BY <1>0 DEF GoesThrough
<1> DEFINE T == {m \in 0..n : after[m] \in kept[m]}
<1>2. 0 \in T
  BY <1>1
<1>3. ASSUME NEW m \in T, m \in 0..(n - 1) PROVE m + 1 \in T
  <2>1. m + 1 \in 1..n /\ (m + 1) - 1 = m /\ m + 1 \in 0..n /\ m \in 0..n
    BY <1>3
  <2>2. after[m] \in X /\ after[m] \in kept[m]
    BY <1>1, <1>3, <2>1
  <2>3. after[m + 1] = step[m + 1][after[m]]
    BY <1>1, <2>1
  <2>4. step[m + 1][after[m]] \in kept[m + 1]
    BY <2>1, <2>2
  <2>5. QED
    BY <2>1, <2>3, <2>4
<1> HIDE DEF T
<1>4. 0..n \subseteq T
  BY <1>2, <1>3, UpTo
<1>5. n \in T /\ n \in 0..n
  BY <1>4
<1>6. QED
  BY <1>1, <1>5 DEF T

(* The roles with a property come one after the other, each once.          *)
LEMMA ListedIs ==
    ASSUME NEW R
    PROVE  \E after \in [0..Len(RoleNames) -> Seq(RoleSet)] :
             /\ after[0] = <<>> /\ Listed(R) = after[Len(RoleNames)]
             /\ \A i \in 1..Len(RoleNames) :
                  /\ after[i] = IF RoleNames[i] \in R THEN Append(after[i - 1], RoleNames[i])
                                                      ELSE after[i - 1]
                  /\ ~ Contains(after[i - 1], RoleNames[i])
<1> DEFINE n == Len(RoleNames)
           X == Seq(RoleSet)
           step == [i \in DOMAIN RoleNames |-> [names \in X |->
                      IF RoleNames[i] \in R THEN Append(names, RoleNames[i]) ELSE names]]
<1>1. /\ n \in Nat /\ DOMAIN RoleNames = 1..n /\ <<>> \in X
      /\ \A i \in 1..n : RoleNames[i] \in RoleSet
      /\ \A i, j \in 1..n : RoleNames[i] = RoleNames[j] => i = j
  BY ExternalAssumption DEF RoleSet, ToSet, IsInjective
<1>2. step \in [1..n -> [X -> X]]
  BY <1>1
<1>3. \A i \in 1..n : \A x \in X :
        step[i][x] = IF RoleNames[i] \in R THEN Append(x, RoleNames[i]) ELSE x
  BY <1>1
<1>4. Listed(R) = Loop(n, <<>>, step)
  BY DEF Listed
<1> HIDE DEF n, X, step
<1>a. PICK after : GoesThrough(after, X, n, <<>>, step)
  <2>1. n \in Nat /\ <<>> \in X
    BY <1>1
  <2>2. QED
    BY <1>2, <2>1, LoopIs
<1>5. /\ after \in [0..n -> X] /\ after[0] = <<>>
      /\ \A i \in 1..n : after[i] = step[i][after[i - 1]]
      /\ Loop(n, <<>>, step) = after[n]
  BY <1>a DEF GoesThrough
<1>6. ASSUME NEW i \in 1..n
      PROVE  after[i] = IF RoleNames[i] \in R THEN Append(after[i - 1], RoleNames[i]) ELSE after[i - 1]
  <2>1. i - 1 \in 0..n
    BY <1>1
  <2>2. after[i - 1] \in X
    BY <1>5, <2>1
  <2>3. QED
    BY <1>3, <1>5, <2>2
<1> DEFINE T == {m \in 0..n : \A j \in 1..Len(after[m]) : \E k \in 1..m : after[m][j] = RoleNames[k]}
<1>7. 0 \in T
  BY <1>1, <1>5
<1>8. ASSUME NEW m \in T, m \in 0..(n - 1) PROVE m + 1 \in T
  <2>1. m \in Nat /\ m + 1 \in 1..n /\ (m + 1) - 1 = m /\ m + 1 \in 0..n /\ m \in 0..n
        /\ m + 1 \in 1..(m + 1) /\ 1..m \subseteq 1..(m + 1)
    BY <1>1, <1>8
  <2>2. after[m + 1] = IF RoleNames[m + 1] \in R THEN Append(after[m], RoleNames[m + 1]) ELSE after[m]
    BY <1>6, <2>1
  <2>3. after[m] \in Seq(RoleSet) /\ RoleNames[m + 1] \in RoleSet
    BY <1>1, <1>5, <2>1 DEF X
  <2>4. \A j \in 1..Len(after[m]) : \E k \in 1..m : after[m][j] = RoleNames[k]
    OBVIOUS
  <2>5. ASSUME NEW j \in 1..Len(after[m + 1]) PROVE \E k \in 1..(m + 1) : after[m + 1][j] = RoleNames[k]
    <3>1. CASE j \in 1..Len(after[m])
      <4>1. after[m + 1][j] = after[m][j]
        BY <2>2, <2>3, <3>1
      <4>2. QED
        BY <2>1, <2>4, <3>1, <4>1
    <3>2. CASE j \notin 1..Len(after[m])
      <4>1. after[m + 1][j] = RoleNames[m + 1]
        BY <2>2, <2>3, <2>5, <3>2
      <4>2. QED
        BY <2>1, <4>1
    <3>3. QED
      BY <3>1, <3>2
  <2>6. QED
    BY <2>1, <2>5
<1> HIDE DEF T
<1>9. 0..n \subseteq T
  BY <1>1, <1>7, <1>8, UpTo
<1>10. ASSUME NEW i \in 1..n PROVE ~ Contains(after[i - 1], RoleNames[i])
  <2>1. i - 1 \in 0..n /\ \A k \in 1..(i - 1) : k \in 1..n /\ k # i
    BY <1>1
  <2>2. \A j \in 1..Len(after[i - 1]) : \E k \in 1..(i - 1) : after[i - 1][j] = RoleNames[k]
    BY <1>9, <2>1 DEF T
  <2>3. QED
    BY <1>1, <2>1, <2>2 DEF Contains
<1>11. QED
  BY <1>4, <1>5, <1>6, <1>10 DEF n, X

(* Nothing is listed of none.                                              *)
LEMMA ListedNone == Listed({}) = <<>>
<1> DEFINE n == Len(RoleNames)
           none == {}
<1>0. none = {}
  OBVIOUS
<1> HIDE DEF none
<1>1. n \in Nat
  BY ExternalAssumption
<1>2. PICK after \in [0..n -> Seq(RoleSet)] :
             /\ after[0] = <<>> /\ Listed(none) = after[n]
             /\ \A i \in 1..n :
                  /\ after[i] = IF RoleNames[i] \in none THEN Append(after[i - 1], RoleNames[i])
                                                         ELSE after[i - 1]
                  /\ ~ Contains(after[i - 1], RoleNames[i])
  BY ListedIs, Zenon
<1> DEFINE T == {m \in 0..n : after[m] = <<>>}
<1> HIDE DEF n
<1>3. 0 \in T
  BY <1>1, <1>2
<1>4. ASSUME NEW m \in T, m \in 0..(n - 1) PROVE m + 1 \in T
  <2>1. m + 1 \in 1..n /\ (m + 1) - 1 = m /\ m + 1 \in 0..n
    BY <1>1, <1>4
  <2>2. after[m + 1] = after[m]
    BY <1>0, <1>2, <2>1
  <2>3. QED
    BY <2>1, <2>2
<1> HIDE DEF T
<1>5. 0..n \subseteq T
  BY <1>1, <1>3, <1>4, UpTo
<1>6. n \in T
  BY <1>1, <1>5
<1>7. QED
  BY <1>0, <1>2, <1>6 DEF T

(* Each with the property is listed, once.                                 *)
LEMMA ListedHas ==
    ASSUME NEW R, R \subseteq RoleSet
    PROVE  IsInjective(Listed(R)) /\ ToSet(Listed(R)) = R
<1> DEFINE n == Len(RoleNames)
           Has(s, r) == \E j \in 1..Len(s) : s[j] = r
           Once(s) == \A j, k \in 1..Len(s) : s[j] = s[k] => j = k
<1>1. /\ n \in Nat /\ DOMAIN RoleNames = 1..n
      /\ \A i \in 1..n : RoleNames[i] \in RoleSet
      /\ \A r \in RoleSet : \E i \in 1..n : RoleNames[i] = r
  BY ExternalAssumption DEF RoleSet, ToSet
<1>2. PICK after \in [0..n -> Seq(RoleSet)] :
             /\ after[0] = <<>> /\ Listed(R) = after[n]
             /\ \A i \in 1..n :
                  /\ after[i] = IF RoleNames[i] \in R THEN Append(after[i - 1], RoleNames[i])
                                                      ELSE after[i - 1]
                  /\ ~ Contains(after[i - 1], RoleNames[i])
  BY ListedIs, Zenon
<1> DEFINE T == {m \in 0..n : /\ Once(after[m])
                              /\ \A r : Has(after[m], r) <=> r \in R /\ \E k \in 1..m : RoleNames[k] = r}
<1> HIDE DEF n
<1>3. 0 \in T
  <2>1. Len(<<>>) = 0 /\ 1..0 = {} /\ 0 \in 0..n
    BY <1>1
  <2>2. Once(<<>>) /\ \A r : ~ Has(<<>>, r)
    BY <2>1
  <2> HIDE DEF Once, Has
  <2>3. ~ \E k \in 1..0 : TRUE
    BY <2>1
  <2>4. after[0] = <<>>
    BY <1>2
  <2>5. Once(after[0]) /\ \A r : Has(after[0], r) <=> r \in R /\ \E k \in 1..0 : RoleNames[k] = r
    BY <2>2, <2>3, <2>4
  <2>6. QED
    BY <2>1, <2>5
<1>4. ASSUME NEW m \in T, m \in 0..(n - 1) PROVE m + 1 \in T
  <2> DEFINE s == after[m]
             new == after[m + 1]
             q == RoleNames[m + 1]
  <2>1. m \in Nat /\ m + 1 \in 1..n /\ (m + 1) - 1 = m /\ m + 1 \in 0..n /\ m \in 0..n
    BY <1>1, <1>4
  <2>2. (\A k \in 1..(m + 1) : k \in 1..m \/ k = m + 1) /\ 1..m \subseteq 1..(m + 1) /\ m + 1 \in 1..(m + 1)
    BY <2>1
  <2>3. s \in Seq(RoleSet) /\ new = (IF q \in R THEN Append(s, q) ELSE s) /\ ~ Has(s, q)
    BY <1>2, <2>1 DEF Contains
  <2>4. /\ Once(s)
        /\ \A r : Has(s, r) <=> r \in R /\ \E k \in 1..m : RoleNames[k] = r
    OBVIOUS
  <2> HIDE DEF s, new
  <2>5. q \in R => /\ Once(new)
                   /\ \A r : Has(new, r) <=> Has(s, r) \/ r = q
    <3>1. q \in R => /\ Len(new) = Len(s) + 1 /\ new[Len(s) + 1] = q
                     /\ \A j \in 1..Len(s) : new[j] = s[j]
      BY <1>1, <2>1, <2>3
    <3>2. Len(s) \in Nat
      BY <2>3
    <3> HIDE DEF q
    <3>3. \A j \in 1..(Len(s) + 1) : j \in 1..Len(s) \/ j = Len(s) + 1
      BY <3>2
    <3>4. 1..Len(s) \subseteq 1..(Len(s) + 1) /\ Len(s) + 1 \in 1..(Len(s) + 1)
      BY <3>2
    <3>5. q \in R => Once(new)
      BY <2>3, <2>4, <3>1, <3>3, <3>4
    <3>6. q \in R => \A r : Has(new, r) <=> Has(s, r) \/ r = q
      BY <3>1, <3>3, <3>4
    <3>7. QED
      BY <3>5, <3>6
  <2>6. (\E k \in 1..(m + 1) : RoleNames[k] = q) /\ \A r :
          (\E k \in 1..(m + 1) : RoleNames[k] = r) <=> (\E k \in 1..m : RoleNames[k] = r) \/ r = q
    BY <2>2
  <2> HIDE DEF q
  <2>7. Once(new) /\ \A r : Has(new, r) <=> r \in R /\ \E k \in 1..(m + 1) : RoleNames[k] = r
    <3>1. CASE q \in R
      <4>1. /\ Once(new)
            /\ \A r : Has(new, r) <=> Has(s, r) \/ r = q
        BY <2>5, <3>1
      <4> HIDE DEF Has, Once
      <4>2. QED
        BY <2>4, <2>6, <3>1, <4>1
    <3>2. CASE q \notin R
      <4>1. new = s
        BY <2>3, <3>2
      <4> HIDE DEF Has, Once
      <4>2. QED
        BY <2>4, <2>6, <3>2, <4>1
    <3>3. QED
      BY <3>1, <3>2
  <2>8. QED
    BY <2>1, <2>7 DEF new
<1> HIDE DEF T
<1>5. 0..n \subseteq T
  <2>1. n \in Nat
    BY <1>1
  <2>2. QED
    BY <1>3, <1>4, <2>1, UpTo
<1>6. n \in T /\ n \in 0..n
  BY <1>1, <1>5
<1>7. /\ Listed(R) \in Seq(RoleSet) /\ Once(Listed(R))
      /\ \A r : Has(Listed(R), r) <=> r \in R
  <2>1. Listed(R) = after[n] /\ after[n] \in Seq(RoleSet)
    BY <1>2, <1>6
  <2> HIDE DEF Once, Has
  <2>2. /\ Once(after[n])
        /\ \A r : Has(after[n], r) <=> r \in R /\ \E k \in 1..n : RoleNames[k] = r
    BY <1>6 DEF T
  <2>3. \A r \in R : \E k \in 1..n : RoleNames[k] = r
    BY <1>1
  <2>4. QED
    BY <2>1, <2>2, <2>3
<1>8. QED
  BY <1>7 DEF IsInjective, ToSet

(* There is one role of a name.                                            *)
LEMMA ListedOne ==
    ASSUME NEW r \in RoleSet
    PROVE  Listed({r}) = <<r>>
<1> DEFINE n == Len(RoleNames)
<1>1. /\ n \in Nat /\ DOMAIN RoleNames = 1..n
      /\ \A i, j \in 1..n : RoleNames[i] = RoleNames[j] => i = j
  BY ExternalAssumption DEF IsInjective
<1>2. PICK place \in 1..n : RoleNames[place] = r
  BY <1>1 DEF RoleSet, ToSet
<1>3. PICK after \in [0..n -> Seq(RoleSet)] :
             /\ after[0] = <<>> /\ Listed({r}) = after[n]
             /\ \A i \in 1..n :
                  /\ after[i] = IF RoleNames[i] \in {r} THEN Append(after[i - 1], RoleNames[i])
                                                        ELSE after[i - 1]
                  /\ ~ Contains(after[i - 1], RoleNames[i])
  BY ListedIs, Zenon
<1> DEFINE T == {m \in 0..n : after[m] = IF m < place THEN <<>> ELSE <<r>>}
<1> HIDE DEF n
<1>4. 0 \in T
  BY <1>1, <1>3
<1>5. ASSUME NEW m \in T, m \in 0..(n - 1) PROVE m + 1 \in T
  <2>1. m \in Nat /\ m + 1 \in 1..n /\ (m + 1) - 1 = m /\ m + 1 \in 0..n
    BY <1>1, <1>5
  <2>2. after[m + 1] = IF RoleNames[m + 1] \in {r} THEN Append(after[m], RoleNames[m + 1])
                                                   ELSE after[m]
    BY <1>3, <2>1
  <2>3. RoleNames[m + 1] = r <=> m + 1 = place
    BY <1>1, <1>2, <2>1
  <2>4. after[m] = IF m < place THEN <<>> ELSE <<r>>
    OBVIOUS
  <2>5. CASE m + 1 = place
    <3>1. after[m] = <<>> /\ after[m + 1] = Append(<<>>, r)
      <4>1. m < place /\ RoleNames[m + 1] = r
        BY <2>1, <2>3, <2>5
      <4>2. QED
        BY <2>2, <2>4, <4>1
    <3>2. Append(<<>>, r) = <<r>>
      OBVIOUS
    <3>3. QED
      BY <2>1, <2>5, <3>1, <3>2
  <2>6. CASE m + 1 # place
    <3>1. m < place <=> m + 1 < place
      BY <2>1, <2>6
    <3>2. QED
      BY <2>1, <2>2, <2>3, <2>4, <2>6, <3>1
  <2>7. QED
    BY <2>5, <2>6
<1> HIDE DEF T
<1>6. 0..n \subseteq T
  <2>1. n \in Nat
    BY <1>1
  <2>2. QED
    BY <2>1, <1>4, <1>5, UpTo
<1>7. n \in T
  BY <1>1, <1>6
<1>8. QED
  BY <1>1, <1>2, <1>3, <1>7 DEF T

(* Looking up names of roles yields the roles, as they are.                *)
LEMMA FilterIs ==
    ASSUME NEW names \in Seq(RoleSet)
    PROVE  FilterUserRolesByNames(names) = names
<1> DEFINE n == Len(names)
           X == Seq(RoleSet)
           step == [i \in DOMAIN names |-> [found \in X |-> found \o Listed({names[i]})]]
           kept == [i \in 0..n |-> {SubSeq(names, 1, i)}]
<1>1. n \in Nat /\ DOMAIN names = 1..n /\ <<>> \in X /\ \A i \in 1..n : names[i] \in RoleSet
  OBVIOUS
<1>2. step = [i \in 1..n |-> [found \in X |-> Append(found, names[i])]]
  <2>1. ASSUME NEW i \in 1..n, NEW found \in X
        PROVE  found \o Listed({names[i]}) = Append(found, names[i])
    <3>1. Listed({names[i]}) = <<names[i]>>
      BY <1>1, ListedOne
    <3>2. found \o <<names[i]>> = Append(found, names[i])
      BY <1>1, AppendIsConcat
    <3>3. QED
      BY <3>1, <3>2
  <2>2. \A i \in 1..n : [found \in X |-> found \o Listed({names[i]})]
                           = [found \in X |-> Append(found, names[i])]
    BY <2>1
  <2> HIDE DEF X, n
  <2>3. QED
    BY <1>1, <2>2
<1>3. FilterUserRolesByNames(names) = Loop(n, <<>>, step)
  BY DEF FilterUserRolesByNames
<1> HIDE DEF step
<1>4. step \in [1..n -> [X -> X]]
  <2>1. ASSUME NEW i \in 1..n, NEW found \in X PROVE Append(found, names[i]) \in X
    BY <1>1
  <2>2. QED
    BY <1>2, <2>1
<1>5. <<>> \in kept[0]
  BY <1>1
<1>6. ASSUME NEW i \in 1..n, NEW x \in X, x \in kept[i - 1] PROVE step[i][x] \in kept[i]
  <2>1. i - 1 \in 0..n /\ i \in 0..n
    BY <1>1
  <2>2. x = SubSeq(names, 1, i - 1) /\ step[i][x] = Append(x, names[i])
    BY <1>2, <1>6, <2>1
  <2>3. Append(SubSeq(names, 1, i - 1), names[i]) = SubSeq(names, 1, i)
    BY <1>1, <2>1
  <2>4. QED
    BY <2>1, <2>2, <2>3
<1> HIDE DEF X, kept, n
<1>7. Loop(n, <<>>, step) \in kept[n]
  BY <1>1, <1>4, <1>5, <1>6, LoopKeeps
<1>8. QED
  BY <1>1, <1>3, <1>7 DEF kept, n

(* The roles bound to groups, each once: one that the person has already   *)
(* been given by another group is not given again.                         *)
BoundTo(groups, r) == \E g \in ToSet(Annotated(r)) \ {Blank} : g \in groups

LEMMA AppendBoundIs ==
    ASSUME directory \in Directories, NEW groups, NEW r \in RoleSet,
           NEW bound \in Seq(RoleSet)
    PROVE  AppendRoleIfBound(bound, groups, r)
             = IF BoundTo(groups, r) THEN AppendIfMissing(bound, r) ELSE bound
<1> DEFINE noted == Annotated(r)
           n == Len(noted)
           X == Seq(RoleSet)
           step == [i \in DOMAIN noted |-> [names \in X |->
                      IF noted[i] # Blank /\ noted[i] \in groups THEN AppendIfMissing(names, r)
                                                                 ELSE names]]
           Met(m) == \E i \in 1..m : noted[i] # Blank /\ noted[i] \in groups
           kept == [m \in 0..n |-> {IF Met(m) THEN AppendIfMissing(bound, r) ELSE bound}]
<1>1. noted \in Seq(Group \cup {Blank})
  BY DEF Annotated, Directories
<1>2. n \in Nat /\ DOMAIN noted = 1..n
  BY <1>1
<1>3. AppendRoleIfBound(bound, groups, r) = Loop(n, bound, step)
  BY DEF AppendRoleIfBound
<1>4. AppendIfMissing(bound, r) \in X /\ bound \in X
  BY DEF AppendIfMissing
<1>5. AppendIfMissing(AppendIfMissing(bound, r), r) = AppendIfMissing(bound, r)
  <2>1. Contains(Append(bound, r), r)
    BY DEF Contains
  <2>2. QED
    BY <2>1 DEF AppendIfMissing
<1>6. step \in [1..n -> [X -> X]]
  BY <1>2 DEF AppendIfMissing
<1>7. Met(n) <=> BoundTo(groups, r)
  BY <1>2 DEF BoundTo, ToSet
<1>8. \A i \in 1..n : \A x \in X :
        step[i][x] = IF noted[i] # Blank /\ noted[i] \in groups THEN AppendIfMissing(x, r) ELSE x
  BY <1>2
<1> HIDE DEF noted, n, X, step
<1>9. bound \in kept[0]
  BY <1>2
<1>10. ASSUME NEW i \in 1..n, NEW x \in X, x \in kept[i - 1] PROVE step[i][x] \in kept[i]
  <2>1. i - 1 \in 0..n /\ i \in 0..n /\ \A k \in 1..i : k \in 1..(i - 1) \/ k = i
    BY <1>2
  <2>2. Met(i) <=> Met(i - 1) \/ (noted[i] # Blank /\ noted[i] \in groups)
    <3>1. 1..(i - 1) \subseteq 1..i /\ i \in 1..i
      BY <1>2
    <3>2. QED
      BY <2>1, <3>1
  <2> HIDE DEF Met
  <2>3. x = IF Met(i - 1) THEN AppendIfMissing(bound, r) ELSE bound
    BY <1>10, <2>1
  <2>4. step[i][x] = IF Met(i) THEN AppendIfMissing(bound, r) ELSE bound
    BY <1>4, <1>5, <1>8, <2>2, <2>3
  <2>5. QED
    BY <2>1, <2>4
<1> HIDE DEF kept
<1>11. Loop(n, bound, step) \in kept[n]
  BY <1>2, <1>4, <1>6, <1>9, <1>10, LoopKeeps
<1>12. n \in 0..n
  BY <1>2
<1>13. QED
  BY <1>3, <1>7, <1>11, <1>12 DEF kept

(* So the loop over the roles lists those bound to the groups.             *)
LEMMA BoundRolesAre ==
    ASSUME directory \in Directories, NEW groups
    PROVE  BoundRoles(groups) = Listed({r \in RoleSet : BoundTo(groups, r)})
<1> DEFINE n == Len(RoleNames)
           X == Seq(RoleSet)
           R == {r \in RoleSet : BoundTo(groups, r)}
           step == [i \in DOMAIN RoleNames |-> [names \in X |->
                      AppendRoleIfBound(names, groups, RoleNames[i])]]
<1>1. /\ n \in Nat /\ DOMAIN RoleNames = 1..n /\ <<>> \in X
      /\ \A i \in 1..n : RoleNames[i] \in RoleSet
  BY ExternalAssumption DEF RoleSet, ToSet
<1>2. BoundRoles(groups) = Loop(n, <<>>, step)
  BY DEF BoundRoles
<1>3. PICK after \in [0..n -> X] :
             /\ after[0] = <<>> /\ Listed(R) = after[n]
             /\ \A i \in 1..n :
                  /\ after[i] = IF RoleNames[i] \in R THEN Append(after[i - 1], RoleNames[i])
                                                      ELSE after[i - 1]
                  /\ ~ Contains(after[i - 1], RoleNames[i])
  BY ListedIs, Zenon
<1>4. ASSUME NEW i \in 1..n, NEW x \in X
      PROVE  step[i][x] = IF RoleNames[i] \in R THEN AppendIfMissing(x, RoleNames[i]) ELSE x
  BY <1>1, AppendBoundIs
<1>5. step \in [1..n -> [X -> X]]
  <2>1. ASSUME NEW i \in 1..n, NEW x \in X PROVE AppendRoleIfBound(x, groups, RoleNames[i]) \in X
    <3>1. AppendRoleIfBound(x, groups, RoleNames[i]) \in {x, AppendIfMissing(x, RoleNames[i])}
      BY <1>1, AppendBoundIs
    <3>2. QED
      BY <1>1, <3>1 DEF AppendIfMissing
  <2>2. QED
    BY <1>1, <2>1
<1> HIDE DEF n, X, R, step
<1> DEFINE kept == [m \in 0..n |-> {after[m]}]
<1>6. <<>> \in kept[0]
  BY <1>1, <1>3
<1>7. ASSUME NEW i \in 1..n, NEW x \in X, x \in kept[i - 1] PROVE step[i][x] \in kept[i]
  <2>1. i - 1 \in 0..n /\ i \in 0..n
    BY <1>1
  <2>2. x = after[i - 1]
    BY <1>7, <2>1
  <2>3. step[i][x] = after[i]
    BY <1>3, <1>4, <2>2 DEF AppendIfMissing
  <2>4. QED
    BY <2>1, <2>3
<1> HIDE DEF kept
<1>8. Loop(n, <<>>, step) \in kept[n]
  <2>1. n \in Nat /\ <<>> \in X
    BY <1>1
  <2>2. QED
    BY <2>1, <1>5, <1>6, <1>7, LoopKeeps
<1>9. n \in 0..n
  BY <1>1
<1>10. Loop(n, <<>>, step) = after[n]
  BY <1>8, <1>9 DEF kept
<1>11. BoundRoles(groups) = Listed(R)
  BY <1>2, <1>3, <1>10
<1>12. QED
  BY <1>11 DEF R

(* The list of users has p once, with these roles, or not at all if it has *)
(* none.                                                                   *)
HasEntry(users, p, given) ==
    IF given = <<>> THEN \A i \in DOMAIN users : users[i].name # p
    ELSE \E i \in DOMAIN users : /\ users[i].roles = given
                                 /\ \A j \in DOMAIN users : users[j].name = p <=> j = i

(* AppendUser gives one person one role, which the person may have.        *)
LEMMA AppendUserIs ==
    ASSUME NEW users \in Users, NEW q \in Person, NEW r \in RoleSet
    PROVE  /\ AppendUser(users, q, r) \in Users
           /\ \A p \in Person : \A given \in Seq(RoleSet) :
                HasEntry(users, p, given)
                  => HasEntry(AppendUser(users, q, r), p,
                              IF p = q THEN AppendIfMissing(given, r) ELSE given)
<1> DEFINE n == Len(users)
           places == {i \in DOMAIN users : users[i].name = q}
           new == AppendUser(users, q, r)
           fresh == [name |-> q, roles |-> <<r>>]
           U == [name : Person, roles : Seq(RoleSet)]
<1>1. /\ n \in Nat /\ DOMAIN users = 1..n /\ users \in Seq(U)
      /\ \A i \in 1..n : users[i] \in U
  <2>1. users \in Seq(U)
    BY DEF Users
  <2> HIDE DEF U
  <2>2. QED
    BY <2>1
<1>2. <<r>> \in Seq(RoleSet) /\ <<r>> # <<>> /\ fresh \in U /\ fresh.name = q /\ fresh.roles = <<r>>
  OBVIOUS
<1>3. AppendIfMissing(<<>>, r) = <<r>>
  BY DEF AppendIfMissing, Contains
<1>4. \A given \in Seq(RoleSet) : /\ AppendIfMissing(given, r) \in Seq(RoleSet)
                                  /\ given # <<>> => AppendIfMissing(given, r) # <<>>
  BY DEF AppendIfMissing
<1>5. CASE places = {}
  <2>1. new = Append(users, fresh)
    BY <1>5 DEF AppendUser
  <2> HIDE DEF fresh, new, U
  <2>2. new \in Seq(U) /\ DOMAIN new = 1..(n + 1) /\ new[n + 1] = fresh /\ \A i \in 1..n : new[i] = users[i]
    BY <1>1, <1>2, <2>1
  <2>3. \A i \in 1..n : users[i].name # q /\ i \in 1..(n + 1) /\ i # n + 1
    BY <1>1, <1>5
  <2>4. n + 1 \in 1..(n + 1) /\ \A i \in 1..(n + 1) : i \in 1..n \/ i = n + 1
    BY <1>1
  <2>5. ASSUME NEW p \in Person, NEW given \in Seq(RoleSet), HasEntry(users, p, given)
        PROVE  HasEntry(new, p, IF p = q THEN AppendIfMissing(given, r) ELSE given)
    <3>1. CASE p = q
      <4>1. given = <<>>
        BY <1>1, <2>3, <2>5, <3>1 DEF HasEntry
      <4>2. HasEntry(new, p, <<r>>)
        BY <1>2, <2>2, <2>3, <2>4, <3>1 DEF HasEntry
      <4>3. QED
        BY <1>3, <3>1, <4>1, <4>2
    <3>2. CASE p # q /\ given = <<>>
      BY <1>1, <1>2, <2>2, <2>4, <2>5, <3>2 DEF HasEntry
    <3>3. CASE p # q /\ given # <<>>
      BY <1>1, <1>2, <2>2, <2>3, <2>4, <2>5, <3>3 DEF HasEntry
    <3>4. QED
      BY <3>1, <3>2, <3>3
  <2>6. QED
    BY <2>2, <2>5 DEF Users, U, new
<1>6. CASE places # {}
  <2>1. new = [i \in 1..n |-> IF users[i].name = q
                                THEN [users[i] EXCEPT !.roles = AppendIfMissing(@, r)] ELSE users[i]]
    BY <1>1, <1>6 DEF AppendUser
  <2>2. ASSUME NEW i \in 1..n
        PROVE  /\ new[i] \in U /\ new[i].name = users[i].name
               /\ new[i].roles = IF users[i].name = q THEN AppendIfMissing(users[i].roles, r) ELSE users[i].roles
    BY <1>1, <1>4, <2>1
  <2>3. new \in Seq(U) /\ DOMAIN new = 1..n
    BY <1>1, <2>1, <2>2
  <2> HIDE DEF new, U
  <2>4. ASSUME NEW p \in Person, NEW given \in Seq(RoleSet), HasEntry(users, p, given)
        PROVE  HasEntry(new, p, IF p = q THEN AppendIfMissing(given, r) ELSE given)
    <3>1. CASE given = <<>>
      <4>1. p # q
        BY <1>1, <1>6, <2>4, <3>1 DEF HasEntry
      <4>2. QED
        BY <1>1, <2>2, <2>3, <2>4, <3>1, <4>1 DEF HasEntry
    <3>2. CASE given # <<>>
      <4>1. PICK i \in 1..n : users[i].roles = given /\ \A j \in 1..n : users[j].name = p <=> j = i
        BY <1>1, <2>4, <3>2 DEF HasEntry
      <4> DEFINE now == IF p = q THEN AppendIfMissing(given, r) ELSE given
      <4>2. new[i].roles = now /\ \A j \in 1..n : new[j].name = p <=> j = i
        BY <2>2, <4>1
      <4>3. now # <<>>
        BY <1>4, <3>2
      <4> HIDE DEF now
      <4>4. HasEntry(new, p, now)
        BY <2>3, <4>2, <4>3 DEF HasEntry
      <4>5. QED
        BY <4>4 DEF now
    <3>3. QED
      BY <3>1, <3>2
  <2>5. QED
    BY <2>3, <2>4 DEF Users, U, new
<1>7. QED
  BY <1>5, <1>6

(* A loop some of whose rounds, the hits, give p the role r, gives it once.*)
LEMMA LoopGives ==
    ASSUME NEW n \in Nat, NEW users \in Users, NEW step \in [1..n -> [Users -> Users]],
           NEW p \in Person, NEW r \in RoleSet, NEW hits \in SUBSET (1..n),
           NEW given \in Seq(RoleSet), HasEntry(users, p, given),
           \A i \in 1..n : \A us \in Users : \A g \in Seq(RoleSet) :
             HasEntry(us, p, g) => HasEntry(step[i][us], p, IF i \in hits THEN AppendIfMissing(g, r) ELSE g)
    PROVE  HasEntry(Loop(n, users, step), p, IF hits = {} THEN given ELSE AppendIfMissing(given, r))
<1> DEFINE Hit(m) == \E i \in 1..m : i \in hits
           So(m) == IF Hit(m) THEN AppendIfMissing(given, r) ELSE given
           kept == [m \in 0..n |-> {us \in Users : HasEntry(us, p, So(m))}]
<1>1. /\ AppendIfMissing(given, r) \in Seq(RoleSet)
      /\ AppendIfMissing(AppendIfMissing(given, r), r) = AppendIfMissing(given, r)
  <2>1. Contains(Append(given, r), r)
    <3>1. Len(Append(given, r)) = Len(given) + 1 /\ Append(given, r)[Len(given) + 1] = r
          /\ Len(given) + 1 \in 1..(Len(given) + 1)
      OBVIOUS
    <3>2. QED
      BY <3>1 DEF Contains
  <2>2. QED
    BY <2>1 DEF AppendIfMissing
<1>2. users \in kept[0]
  OBVIOUS
<1>3. ASSUME NEW i \in 1..n, NEW us \in Users, us \in kept[i - 1] PROVE step[i][us] \in kept[i]
  <2>1. i - 1 \in 0..n /\ i \in 0..n
    OBVIOUS
  <2>2. Hit(i) <=> Hit(i - 1) \/ i \in hits
    <3>1. 1..(i - 1) \subseteq 1..i /\ i \in 1..i /\ \A k \in 1..i : k \in 1..(i - 1) \/ k = i
      OBVIOUS
    <3>2. QED
      BY <3>1
  <2> HIDE DEF Hit
  <2>3. HasEntry(us, p, So(i - 1)) /\ So(i - 1) \in Seq(RoleSet)
    BY <1>1, <1>3, <2>1
  <2>4. So(i) = IF i \in hits THEN AppendIfMissing(So(i - 1), r) ELSE So(i - 1)
    BY <1>1, <2>2
  <2> HIDE DEF So
  <2>5. HasEntry(step[i][us], p, So(i))
    BY <2>3, <2>4
  <2>6. step[i][us] \in Users
    OBVIOUS
  <2>7. QED
    BY <2>1, <2>5, <2>6
<1>4. n \in 0..n /\ (Hit(n) <=> hits # {})
  <2>1. hits \subseteq 1..n /\ n \in 0..n
    OBVIOUS
  <2>2. Hit(n) <=> hits # {}
    BY <2>1
  <2>3. QED
    BY <2>1, <2>2
<1> HIDE DEF kept, Hit
<1>5. Loop(n, users, step) \in kept[n]
  BY <1>2, <1>3, LoopKeeps
<1>6. QED
  BY <1>4, <1>5 DEF kept

(* The search yields those the server finds in a group, each once.         *)
LEMMA MembersAre ==
    ASSUME NEW g
    PROVE  /\ Members(g) \in Seq(Person)
           /\ \A p \in Person : IsIn(p, g) <=> \E i \in 1..Len(Members(g)) : Members(g)[i] = p
<1> DEFINE S == {p \in Person : IsIn(p, g)}
           k == Cardinality(S)
           F == {f \in [1..k -> S] : IsInjective(f)}
<1>1. IsFiniteSet(S) /\ k \in Nat /\ ExistsBijection(1..k, S)
  BY FS_Subset, FS_CardinalityType, ExternalAssumption
<1> HIDE DEF S, k
<1>2. \E f \in [1..k -> S] : IsInjective(f)
  BY <1>1 DEF ExistsBijection, Bijection, Injection, IsInjective
<1>3. Members(g) = CHOOSE f \in [1..k -> S] : IsInjective(f)
  BY DEF Members, SetToSeq, S, k
<1>4. Members(g) \in [1..k -> S] /\ IsInjective(Members(g))
  BY <1>2, <1>3
<1>5. Cardinality(1..k) = Cardinality(S)
  BY <1>1, FS_Interval DEF k
<1>6. Members(g) \in Surjection(1..k, S)
  BY <1>1, <1>4, <1>5, FS_Injection DEF Injection, IsInjective
<1>7. \A p \in S : \E i \in 1..k : Members(g)[i] = p
  BY <1>6 DEF Surjection
<1>8. Members(g) \in Seq(Person) /\ Len(Members(g)) = k
  BY <1>1, <1>4 DEF S
<1>9. QED
  BY <1>4, <1>7, <1>8 DEF S

(* So a group gives a role to those found in it, once ...                  *)
LEMMA AppendMembersIs ==
    ASSUME NEW users \in Users, NEW g, NEW r \in RoleSet
    PROVE  /\ AppendMembers(users, g, r) \in Users
           /\ \A p \in Person : \A given \in Seq(RoleSet) :
                HasEntry(users, p, given)
                  => HasEntry(AppendMembers(users, g, r), p,
                              IF IsIn(p, g) THEN AppendIfMissing(given, r) ELSE given)
<1> DEFINE found == Members(g)
           n == Len(found)
           step == [i \in DOMAIN found |-> [us \in Users |-> AppendUser(us, found[i], r)]]
<1>1. found \in Seq(Person) /\ \A p \in Person : IsIn(p, g) <=> \E i \in 1..n : found[i] = p
  BY MembersAre
<1>2. AppendMembers(users, g, r) = Loop(n, users, step)
  BY DEF AppendMembers
<1> HIDE DEF found
<1>3. n \in Nat /\ DOMAIN found = 1..n /\ \A i \in 1..n : found[i] \in Person
  BY <1>1
<1>4. step \in [1..n -> [Users -> Users]]
  BY <1>3, AppendUserIs
<1>5. \A i \in 1..n : \A us \in Users : step[i][us] = AppendUser(us, found[i], r)
  BY <1>3
<1> HIDE DEF n, step
<1>6. Loop(n, users, step) \in Users
  <2> DEFINE kept == [m \in 0..n |-> Users]
  <2>1. users \in kept[0] /\ \A i \in 1..n : \A us \in Users : us \in kept[i - 1] => step[i][us] \in kept[i]
    BY <1>3, <1>4
  <2> HIDE DEF kept
  <2>2. QED
    BY <1>3, <1>4, <2>1, LoopKeeps
<1>7. ASSUME NEW p \in Person, NEW given \in Seq(RoleSet), HasEntry(users, p, given)
      PROVE  HasEntry(Loop(n, users, step), p, IF IsIn(p, g) THEN AppendIfMissing(given, r) ELSE given)
  <2> DEFINE hits == {i \in 1..n : found[i] = p}
  <2>1. IsIn(p, g) <=> hits # {}
    BY <1>1
  <2>2. \A i \in 1..n : \A us \in Users : \A had \in Seq(RoleSet) :
          HasEntry(us, p, had)
            => HasEntry(step[i][us], p, IF i \in hits THEN AppendIfMissing(had, r) ELSE had)
    BY <1>3, <1>5, AppendUserIs
  <2>3. hits \in SUBSET (1..n)
    OBVIOUS
  <2> HIDE DEF hits
  <2>4. HasEntry(Loop(n, users, step), p, IF hits = {} THEN given ELSE AppendIfMissing(given, r))
    BY <1>3, <1>4, <1>7, <2>2, <2>3, LoopGives
  <2>5. QED
    BY <2>1, <2>4
<1>8. QED
  BY <1>2, <1>6, <1>7

(* ... and a role is given to those it is bound to, once ...               *)
Bound(p, r) == \E g \in ToSet(Annotated(r)) \ {Blank} : IsIn(p, g)

LEMMA AppendGroupsIs ==
    ASSUME directory \in Directories, NEW users \in Users, NEW r \in RoleSet
    PROVE  /\ AppendGroups(users, r) \in Users
           /\ \A p \in Person : \A given \in Seq(RoleSet) :
                HasEntry(users, p, given)
                  => HasEntry(AppendGroups(users, r), p,
                              IF Bound(p, r) THEN AppendIfMissing(given, r) ELSE given)
<1> DEFINE noted == Annotated(r)
           n == Len(noted)
           step == [i \in DOMAIN noted |-> [us \in Users |->
                      IF noted[i] = Blank THEN us ELSE AppendMembers(us, noted[i], r)]]
<1>1. noted \in Seq(Group \cup {Blank})
  BY DEF Annotated, Directories
<1>2. \A p \in Person : Bound(p, r) <=> \E i \in DOMAIN noted : noted[i] # Blank /\ IsIn(p, noted[i])
  BY DEF Bound, ToSet
<1>3. AppendGroups(users, r) = Loop(n, users, step)
  BY DEF AppendGroups
<1> HIDE DEF noted
<1>4. n \in Nat /\ DOMAIN noted = 1..n
  BY <1>1
<1>5. step \in [1..n -> [Users -> Users]]
  BY <1>4, AppendMembersIs
<1>6. \A i \in 1..n : \A us \in Users :
        step[i][us] = IF noted[i] = Blank THEN us ELSE AppendMembers(us, noted[i], r)
  BY <1>4
<1> HIDE DEF n, step
<1>7. Loop(n, users, step) \in Users
  <2> DEFINE kept == [m \in 0..n |-> Users]
  <2>1. users \in kept[0] /\ \A i \in 1..n : \A us \in Users : us \in kept[i - 1] => step[i][us] \in kept[i]
    BY <1>4, <1>5
  <2> HIDE DEF kept
  <2>2. QED
    BY <1>4, <1>5, <2>1, LoopKeeps
<1>8. ASSUME NEW p \in Person, NEW given \in Seq(RoleSet), HasEntry(users, p, given)
      PROVE  HasEntry(Loop(n, users, step), p, IF Bound(p, r) THEN AppendIfMissing(given, r) ELSE given)
  <2> DEFINE hits == {i \in 1..n : noted[i] # Blank /\ IsIn(p, noted[i])}
  <2>1. Bound(p, r) <=> hits # {}
    BY <1>2, <1>4
  <2>2. ASSUME NEW i \in 1..n, NEW us \in Users, NEW had \in Seq(RoleSet), HasEntry(us, p, had)
        PROVE  HasEntry(step[i][us], p, IF i \in hits THEN AppendIfMissing(had, r) ELSE had)
    <3>1. CASE noted[i] = Blank
      BY <1>6, <2>2, <3>1
    <3>2. CASE noted[i] # Blank
      <4>1. step[i][us] = AppendMembers(us, noted[i], r) /\ (i \in hits <=> IsIn(p, noted[i]))
        BY <1>6, <3>2
      <4> HIDE DEF hits
      <4>2. HasEntry(AppendMembers(us, noted[i], r), p,
                     IF IsIn(p, noted[i]) THEN AppendIfMissing(had, r) ELSE had)
        BY <2>2, AppendMembersIs
      <4>3. QED
        BY <4>1, <4>2
    <3>3. QED
      BY <3>1, <3>2
  <2>3. hits \in SUBSET (1..n)
    OBVIOUS
  <2> HIDE DEF hits
  <2>4. HasEntry(Loop(n, users, step), p, IF hits = {} THEN given ELSE AppendIfMissing(given, r))
    BY <1>4, <1>5, <1>8, <2>2, <2>3, LoopGives
  <2>5. QED
    BY <2>1, <2>4
<1>9. QED
  BY <1>3, <1>7, <1>8

(* ... so the list of users has each with the roles that list it.          *)
LEMMA GetUsersAre ==
    ASSUME directory \in Directories, NEW p \in Person
    PROVE  HasEntry(AllUsers, p, Listed({r \in RoleSet : Bound(p, r)}))
<1> DEFINE n == Len(RoleNames)
           R == {r \in RoleSet : Bound(p, r)}
           step == [i \in DOMAIN RoleNames |-> [us \in Users |-> AppendGroups(us, RoleNames[i])]]
<1>1. /\ n \in Nat /\ DOMAIN RoleNames = 1..n
      /\ \A i \in 1..n : RoleNames[i] \in RoleSet
  BY ExternalAssumption DEF RoleSet, ToSet
<1>2. <<>> \in Users
  BY DEF Users
<1>3. AllUsers = Loop(n, <<>>, step)
  BY DEF AllUsers
<1>4. PICK after \in [0..n -> Seq(RoleSet)] :
             /\ after[0] = <<>> /\ Listed(R) = after[n]
             /\ \A i \in 1..n :
                  /\ after[i] = IF RoleNames[i] \in R THEN Append(after[i - 1], RoleNames[i])
                                                      ELSE after[i - 1]
                  /\ ~ Contains(after[i - 1], RoleNames[i])
  BY ListedIs, Zenon
<1>5. step \in [1..n -> [Users -> Users]]
  BY <1>1, AppendGroupsIs
<1>6. \A i \in 1..n : \A us \in Users : step[i][us] = AppendGroups(us, RoleNames[i])
  BY <1>1
<1> HIDE DEF n, step
<1> DEFINE kept == [m \in 0..n |-> {us \in Users : HasEntry(us, p, after[m])}]
<1>7. <<>> \in kept[0]
  <2>1. HasEntry(<<>>, p, <<>>)
    BY DEF HasEntry
  <2>2. QED
    BY <1>1, <1>2, <1>4, <2>1
<1>8. ASSUME NEW i \in 1..n, NEW us \in Users, us \in kept[i - 1] PROVE step[i][us] \in kept[i]
  <2>1. i - 1 \in 0..n /\ i \in 0..n /\ RoleNames[i] \in RoleSet
    BY <1>1
  <2>2. HasEntry(us, p, after[i - 1]) /\ after[i - 1] \in Seq(RoleSet)
    BY <1>8, <2>1
  <2>3. after[i] = IF Bound(p, RoleNames[i]) THEN AppendIfMissing(after[i - 1], RoleNames[i])
                                             ELSE after[i - 1]
    BY <1>4, <2>1 DEF AppendIfMissing
  <2>4. HasEntry(AppendGroups(us, RoleNames[i]), p, after[i])
    BY <2>1, <2>2, <2>3, AppendGroupsIs
  <2>5. step[i][us] \in Users
    BY <1>5
  <2>6. QED
    BY <1>6, <2>1, <2>4, <2>5
<1> HIDE DEF kept
<1>9. Loop(n, <<>>, step) \in kept[n]
  BY <1>1, <1>2, <1>5, <1>7, <1>8, LoopKeeps
<1>10. n \in 0..n
  BY <1>1
<1>11. HasEntry(Loop(n, <<>>, step), p, after[n])
  BY <1>9, <1>10 DEF kept
<1>12. QED
  BY <1>3, <1>4, <1>11

(* The roles that directories give agree in any directory.                 *)
LEMMA AgreeInAll == directory \in Directories => RolesAgree
<1> SUFFICES ASSUME directory \in Directories PROVE RolesAgree
  OBVIOUS
<1>1. \A R : Listed(R) \in Seq(RoleSet)
  <2>1. Len(RoleNames) \in 0..Len(RoleNames)
    BY ExternalAssumption
  <2>2. QED
    BY <2>1, ListedIs
<1>2. ASSUME NEW groups \in SUBSET Group
      PROVE  WebmeshAuthenticate(groups) = FilterUserRolesByNames(BoundRoles(groups))
  <2>1. ASSUME NEW r \in RoleSet
        PROVE  (\E g \in ToSet(Annotated(r)) : g \in groups) <=> BoundTo(groups, r)
    BY ExternalAssumption DEF BoundTo
  <2>2. {r \in RoleSet : \E g \in ToSet(Annotated(r)) : g \in groups}
          = {r \in RoleSet : BoundTo(groups, r)}
    BY <2>1
  <2>3. QED
    BY <2>2, BoundRolesAre DEF WebmeshAuthenticate
<1>3. ASSUME NEW p \in Person, directory.groups[p] # Nothing
      PROVE  /\ LdapGetUser(p) = Listed({r \in RoleSet : BoundTo(directory.groups[p], r)})
             /\ FilterUserRolesByNames(BoundRoles(directory.groups[p])) = LdapGetUser(p)
  <2>1. LdapGetUser(p) = Listed({r \in RoleSet : BoundTo(directory.groups[p], r)})
    BY <1>3 DEF LdapGetUser, BoundTo
  <2>2. BoundRoles(directory.groups[p]) = LdapGetUser(p)
    BY <2>1, BoundRolesAre
  <2>3. QED
    BY <1>1, <2>1, <2>2, FilterIs
<1>4. ASSUME NEW p \in Person PROVE LdapAuthenticate(p) \in {Nothing, LdapGetUser(p)}
  BY <1>3 DEF LdapAuthenticate
<1>5. ASSUME NEW p \in Person
      PROVE  LET given  == LdapGetUser(p)
                 users  == LdapGetUsers
                 places == {i \in DOMAIN users : users[i].name = p}
             IN
             /\ LdapAuthenticate(p) \in {Nothing, given}
             /\ users # Nothing =>
                  /\ \A i \in places : places = {i} /\ IsInjective(users[i].roles)
                  /\ given = Nothing => places = {}
                  /\ given # Nothing /\ (\A g \in AllNoted : Finds(p, g)) =>
                       /\ ToSet(given) \subseteq UNION {ToSet(users[i].roles) : i \in places}
                       /\ (~ \E g \in AllNoted : FindsTooMuch(p, g)) =>
                            IF given = <<>> THEN places = {} ELSE \E i \in places : users[i].roles = given
  <2> DEFINE users  == LdapGetUsers
             places == {i \in DOMAIN users : users[i].name = p}
  <2>1. users # Nothing => users = AllUsers
    BY DEF LdapGetUsers
  <2> HIDE DEF users
  <2>2. places = {i \in DOMAIN users : users[i].name = p}
    OBVIOUS
  <2> HIDE DEF places
  <2>3. ASSUME users # Nothing
        PROVE  /\ \A i \in places : places = {i} /\ IsInjective(users[i].roles)
               /\ LdapGetUser(p) = Nothing => places = {}
               /\ LdapGetUser(p) # Nothing /\ (\A g \in AllNoted : Finds(p, g)) =>
                    /\ ToSet(LdapGetUser(p)) \subseteq UNION {ToSet(users[i].roles) : i \in places}
                    /\ (~ \E g \in AllNoted : FindsTooMuch(p, g)) =>
                         IF LdapGetUser(p) = <<>> THEN places = {}
                         ELSE \E i \in places : users[i].roles = LdapGetUser(p)
    <3> DEFINE R == {r \in RoleSet : Bound(p, r)}
               given == Listed(R)
    <3>1. HasEntry(users, p, given) /\ IsInjective(given) /\ ToSet(given) = R
      BY <2>1, <2>3, GetUsersAre, ListedHas
    <3>2. CASE directory.groups[p] = Nothing
      <4>1. R = {} /\ LdapGetUser(p) = Nothing
        BY <3>2 DEF Bound, IsIn, LdapGetUser
      <4>2. Listed({}) = <<>>
        BY ListedNone
      <4>3. QED
        BY <2>2, <3>1, <4>1, <4>2 DEF HasEntry
    <3>3. CASE directory.groups[p] # Nothing
      <4> DEFINE B == {r \in RoleSet : BoundTo(directory.groups[p], r)}
      <4>1. LdapGetUser(p) = Listed(B) /\ Listed(B) # Nothing /\ ToSet(Listed(B)) = B
        BY <1>1, <1>3, <3>3, ListedHas, ExternalAssumption DEF RoleSet
      <4>2. (\A g \in AllNoted : Finds(p, g)) => B \subseteq R
        BY DEF AllNoted, Finds, Bound, BoundTo
      <4>3. (~ \E g \in AllNoted : FindsTooMuch(p, g)) => R \subseteq B
        BY DEF AllNoted, FindsTooMuch, Bound, BoundTo
      <4> HIDE DEF R, B, given
      <4>4. CASE given = <<>>
        <5>1. places = {} /\ R = {}
          BY <2>2, <3>1, <4>4 DEF HasEntry, ToSet
        <5>2. (\A g \in AllNoted : Finds(p, g)) => B = {}
          BY <4>2, <5>1
        <5>3. B = {} => Listed(B) = <<>>
          BY ListedNone
        <5>4. QED
          BY <4>1, <5>1, <5>2, <5>3
      <4>5. CASE given # <<>>
        <5>1. PICK i \in places : places = {i} /\ users[i].roles = given
          BY <2>2, <3>1, <4>5 DEF HasEntry
        <5>2. UNION {ToSet(users[j].roles) : j \in places} = R
          BY <3>1, <5>1
        <5>3. (\A g \in AllNoted : Finds(p, g)) /\ (~ \E g \in AllNoted : FindsTooMuch(p, g)) => given = Listed(B)
          BY <4>2, <4>3 DEF given
        <5>4. QED
          BY <3>1, <4>1, <4>2, <4>5, <5>1, <5>2, <5>3
      <4>6. QED
        BY <4>4, <4>5
    <3>4. QED
      BY <3>2, <3>3
  <2>4. QED
    BY <1>4, <2>3 DEF users, places
<1>6. QED
  BY <1>2, <1>5 DEF RolesAgree

(* A login and a refresh give a user of an LDAP directory the same roles,  *)
(* whatever groups, members and annotations there are; the list of users   *)
(* gives these roles, once, to whom the server finds in the same groups.   *)
THEOREM RolesAgreeHolds == ExternalSpec => []RolesAgree
<1>1. directory \in Directories /\ [OidcNext /\ UNCHANGED directory]_externalVars
        => (directory \in Directories)'
  BY DEF externalVars, Directories
<1>2. QED
  BY <1>1, AgreeInAll, PTL DEF ExternalSpec
=============================================================================
