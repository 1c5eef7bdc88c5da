----------------------- MODULE DesktopSessionsProofs -----------------------
(***************************************************************************)
(* Proofs about DesktopSessions for any sessions, users, limits and        *)
(* lengths, and any number of failing calls and crashes.                   *)
(***************************************************************************)
EXTENDS DesktopSessions, FiniteSetTheorems, TLAPS

(* Arithmetic of the lengths that crashes give a session again.            *)
LEMMA Lengths ==
    /\ MaxAge \in Nat
    /\ \A n \in Nat : MaxLength * n \in Nat /\ MaxLength * (1 + n) = MaxLength * n + MaxLength
    /\ \A n \in Nat : MaxLength * (1 + (n + 1)) = MaxLength * (n + 1) + MaxLength
<1>1. \A m, n \in Nat : m * n \in Nat /\ m * (1 + n) = m * n + m
  OBVIOUS
<1>2. QED
  BY <1>1, SessionsAssumption DEF MaxAge

(* Every step keeps the types.                                             *)
LEMMA TypeStep == TypeOK /\ [Next]_vars => TypeOK'
<1> SUFFICES ASSUME TypeOK, [Next]_vars PROVE TypeOK'
  OBVIOUS
<1> USE SessionsAssumption, Lengths
    DEF TypeOK, Handling, Answered, Answer, OneFault, Idle, At, Goto, api, manager, history, bounds
<1>1. ASSUME NEW s \in Session, Post(s) PROVE TypeOK'
  BY <1>1 DEF Post
<1>2. ASSUME NEW s \in Session, CheckLimit(s) PROVE TypeOK'
  BY <1>2 DEF CheckLimit
<1>3. ASSUME NEW s \in Session, CreateSession(s) PROVE TypeOK'
  BY <1>3 DEF CreateSession
<1>4. ASSUME NEW s \in Session, CreateEnvSecret(s) PROVE TypeOK'
  BY <1>4 DEF CreateEnvSecret
<1>5. ASSUME NEW s \in Session, Cleanup(s) PROVE TypeOK'
  BY <1>5 DEF Cleanup
<1>6. ASSUME NEW s \in Session, StartFails(s) PROVE TypeOK'
  BY <1>6 DEF StartFails
<1>7. ASSUME NEW s \in Session, CreateLost(s) \/ EnvFails(s) \/ CleanupFails(s) \/ AppGone(s) PROVE TypeOK'
  BY <1>7 DEF CreateLost, EnvFails, CleanupFails, AppGone
<1>8. ASSUME NEW s \in Session, DeleteSession(s) PROVE TypeOK'
  BY <1>8 DEF DeleteSession
<1>9. ASSUME NEW s \in Session, Begin(s) PROVE TypeOK'
  BY <1>9 DEF Begin
<1>10. ASSUME NEW s \in Session, AdoptSecret(s) PROVE TypeOK'
  <2>1. worker' \in [at : {"idle", "secret", "pod", "report"}, on : Session \cup {NoOne}]
    <3>1. worker' = Idle \/ worker' = [worker EXCEPT !.at = "pod"]
      BY <1>10 DEF AdoptSecret
    <3>2. QED
      BY <3>1
  <2>2. secret' \in [Session -> {"none", "free", "owned"}]
    BY <1>10 DEF AdoptSecret
  <2>3. QED
    BY <1>10, <2>1, <2>2 DEF AdoptSecret
<1>11. ASSUME NEW s \in Session, ReconcilePod(s) PROVE TypeOK'
  <2>0. worker' = Idle \/ worker' = [worker EXCEPT !.at = "report"]
    BY <1>11 DEF ReconcilePod
  <2>1. worker' \in [at : {"idle", "secret", "pod", "report"}, on : Session \cup {NoOne}]
    BY <2>0
  <2>2. pod' \in [Session -> {"none", "pending", "running"}] /\ running' \subseteq Session
    BY <1>11 DEF ReconcilePod
  <2>3. QED
    BY <1>11, <2>1, <2>2 DEF ReconcilePod
<1>12. ASSUME NEW s \in Session, StartTimer(s) PROVE TypeOK'
  <2>1. timer' \in [Session -> 0..MaxLength \cup {Off}]
    BY <1>12 DEF StartTimer
  <2>2. running' \subseteq Session /\ worker' = Idle
    BY <1>12 DEF StartTimer
  <2>3. QED
    BY <1>12, <2>1, <2>2 DEF StartTimer
<1>13. ASSUME NEW s \in Session, PassFails(s) PROVE TypeOK'
  BY <1>13 DEF PassFails
<1>14. ASSUME NEW s \in Session, Kill(s) PROVE TypeOK'
  BY <1>14 DEF Kill
<1>15. ASSUME NEW s \in Session, KillFails(s) PROVE TypeOK'
  BY <1>15 DEF KillFails
<1>16. ASSUME NEW s \in Session, Poll(s) PROVE TypeOK'
  BY <1>16 DEF Poll
<1>17. ASSUME NEW s \in Session, PodRuns(s) PROVE TypeOK'
  BY <1>17 DEF PodRuns
<1>18. ASSUME NEW s \in Session, Collect(s) PROVE TypeOK'
  BY <1>18 DEF Collect
<1>19. CASE Crash
  BY <1>19 DEF Crash
<1>20. CASE Tick
  <2>0. \A s \in Session : timer[s] # MaxLength
    BY <1>20 DEF Tick, Due
  <2>1. \A s \in Session : timer[s] # Off => timer[s] \in 0..MaxLength /\ timer[s] + 1 \in 0..MaxLength
    <3>1. \A n \in 0..MaxLength : n # MaxLength => n + 1 \in 0..MaxLength
      BY SessionsAssumption
    <3>2. QED
      BY <2>0, <3>1
  <2>2. timer' \in [Session -> 0..MaxLength \cup {Off}]
    BY <1>20, <2>1 DEF Tick
  <2>3. \A s \in Session : age[s] < MaxAge => age[s] + 1 \in 0..MaxAge
    OBVIOUS
  <2>4. age' \in [Session -> 0..MaxAge]
    BY <1>20, <2>3 DEF Tick
  <2>5. QED
    BY <1>20, <2>2, <2>4 DEF Tick
<1>21. CASE UNCHANGED vars
  BY <1>21 DEF vars
<1>22. QED
  BY <1>1, <1>2, <1>3, <1>4, <1>5, <1>6, <1>7, <1>8, <1>9, <1>10, <1>11, <1>12, <1>13,
     <1>14, <1>15, <1>16, <1>17, <1>18, <1>19, <1>20, <1>21
     DEF Next, Handle, Pass

(* The types of requests, sessions, timers and passes.                     *)
THEOREM SessionsTypeCorrect == Spec => []TypeOK
<1>1. Init => TypeOK
  BY SessionsAssumption, Lengths DEF Init, TypeOK, Handling, Answered, Idle
<1>2. QED
  BY <1>1, TypeStep, PTL DEF Spec
-----------------------------------------------------------------------------
(* Until its request has created it there is no session, and nobody else   *)
(* makes it: no refusal comes with a session, nor an error, unless its     *)
(* start lost a reply or a Delete. Nor has it a status or a timer.         *)
Unmade ==
    \A s \in Session :
        /\ request[s] \in {"none", "list", "create", "refused"} => object[s] = "none" /\ secret[s] = "none"
        /\ request[s] \in {"secret", "cleanup"} /\ s \notin lost => secret[s] = "none"
        /\ request[s] = "error" /\ s \notin lost => object[s] # "live" /\ secret[s] = "none"
        /\ object[s] = "none" => s \notin running /\ timer[s] = Off

(* What the timer of a session has counted.                                *)
Counted(s) == IF timer[s] = Off THEN 0 ELSE timer[s]

(* A live session has run for the lengths that crashes gave it again and   *)
(* for what its timer has counted, which is nothing until it is started.   *)
Aged ==
    MaxLength > 0 =>
      \A s \in Session :
        /\ object[s] = "none" => age[s] = 0
        /\ s \notin unkilled => age[s] <= MaxLength * crashes + MaxLength
        /\ s \notin unkilled /\ object[s] = "live" => age[s] <= MaxLength * crashes + Counted(s)

LifeInv == TypeOK /\ Unmade /\ Aged

(* Every step keeps what holds of the life of a session.                   *)
LEMMA LifeStep == LifeInv /\ [Next]_vars => LifeInv'
<1> SUFFICES ASSUME LifeInv, [Next]_vars PROVE Unmade' /\ Aged'
  BY TypeStep DEF LifeInv
<1> USE SessionsAssumption, Lengths
    DEF LifeInv, TypeOK, Unmade, Aged, Counted, Handling, Answered, Answer, OneFault, api, manager, history, bounds
<1>0. crashes \in Nat /\ MaxLength * crashes \in Nat
  OBVIOUS
<1>1. ASSUME NEW s \in Session, Post(s) PROVE Unmade' /\ Aged'
  BY <1>1 DEF Post
<1>2. ASSUME NEW s \in Session, CheckLimit(s) PROVE Unmade' /\ Aged'
  BY <1>2 DEF CheckLimit
<1>3. ASSUME NEW s \in Session, CreateSession(s) PROVE Unmade' /\ Aged'
  BY <1>0, <1>3 DEF CreateSession
<1>4. ASSUME NEW s \in Session, CreateEnvSecret(s) PROVE Unmade' /\ Aged'
  BY <1>4 DEF CreateEnvSecret
<1>5. ASSUME NEW s \in Session, Cleanup(s) \/ DeleteSession(s) PROVE Unmade' /\ Aged'
  BY <1>5 DEF Cleanup, DeleteSession
<1>6. ASSUME NEW s \in Session, StartFails(s) PROVE Unmade' /\ Aged'
  BY <1>6 DEF StartFails
<1>7. ASSUME NEW s \in Session, CreateLost(s) \/ EnvFails(s) \/ CleanupFails(s) \/ AppGone(s)
      PROVE  Unmade' /\ Aged'
  BY <1>0, <1>7 DEF CreateLost, EnvFails, CleanupFails, AppGone
<1>8. ASSUME NEW s \in Session,
             Begin(s) \/ AdoptSecret(s) \/ ReconcilePod(s) \/ PassFails(s) \/ PodRuns(s) \/ Collect(s)
      PROVE  Unmade' /\ Aged'
  BY <1>8 DEF Begin, AdoptSecret, ReconcilePod, PassFails, PodRuns, Collect
<1>9. ASSUME NEW s \in Session, StartTimer(s) PROVE Unmade' /\ Aged'
  BY <1>9 DEF StartTimer
<1>10. ASSUME NEW s \in Session, Kill(s) PROVE Unmade' /\ Aged'
  <2>1. timer[s] # Off /\ object[s] # "none"
    BY <1>10 DEF Kill, Due
  <2>2. Unmade'
    BY <1>10, <2>1 DEF Kill
  <2>3. Aged'
    BY <1>10, <2>1 DEF Kill
  <2>4. QED
    BY <2>2, <2>3
<1>11. ASSUME NEW s \in Session, KillFails(s) PROVE Unmade' /\ Aged'
  BY <1>11 DEF KillFails
<1>12. ASSUME NEW s \in Session, Poll(s) PROVE Unmade' /\ Aged'
  BY <1>12 DEF Poll
<1>13. CASE Crash
  BY <1>0, <1>13 DEF Crash
<1>14. CASE Tick
  <2>1. Unmade'
    BY <1>14 DEF Tick
  <2>2. ASSUME NEW s \in Session, s \notin unkilled, object[s] = "live", MaxLength > 0
        PROVE  age'[s] <= MaxLength * crashes + Counted(s)' /\ Counted(s)' <= MaxLength
    <3>1. timer[s] # MaxLength /\ (s \in running => timer[s] # Off)
      BY <1>14, <2>2 DEF Tick, Due, Untimed
    <3>2. age[s] <= MaxLength * crashes + Counted(s) /\ age[s] \in Nat
      BY <2>2
    <3>3. timer'[s] = IF timer[s] = Off THEN Off ELSE timer[s] + 1
      BY <1>14 DEF Tick
    <3>4. age'[s] = age[s] \/ (age'[s] = age[s] + 1 /\ s \in running)
      BY <1>14 DEF Tick
    <3>5. timer[s] = Off \/ (timer[s] \in Nat /\ timer[s] < MaxLength)
      BY <3>1
    <3>6. CASE timer[s] = Off
      <4>1. timer'[s] = Off /\ Counted(s)' = 0 /\ Counted(s) = 0
        BY ONLY <3>3, <3>6 DEF Counted
      <4>2. s \notin running
        BY <3>1, <3>6
      <4>3. age'[s] = age[s]
        BY ONLY <3>4, <4>2
      <4>4. QED
        BY ONLY <1>0, <3>2, <4>1, <4>3, SessionsAssumption
    <3>7. CASE timer[s] \in Nat /\ timer[s] < MaxLength
      <4>1. Counted(s)' = timer[s] + 1 /\ Counted(s) = timer[s]
        BY <3>3, <3>7
      <4>2. QED
        BY ONLY <1>0, <3>2, <3>4, <3>7, <4>1, SessionsAssumption
    <3>8. QED
      BY <3>5, <3>6, <3>7
  <2>3. \A s \in Session : object[s] # "live" => age'[s] = age[s]
    BY <1>14 DEF Tick
  <2>4. UNCHANGED <<object, unkilled, crashes>>
    BY <1>14 DEF Tick
  <2>5. Aged'
    <3>1. SUFFICES ASSUME MaxLength > 0, NEW s \in Session
                   PROVE  /\ object[s] = "none" => age'[s] = 0
                          /\ s \notin unkilled => age'[s] <= MaxLength * crashes + MaxLength
                          /\ s \notin unkilled /\ object[s] = "live"
                               => age'[s] <= MaxLength * crashes + Counted(s)'
      BY <2>4
    <3>2. CASE object[s] = "live"
      <4>1. CASE s \notin unkilled
        <5>1. age'[s] <= MaxLength * crashes + Counted(s)' /\ Counted(s)' <= MaxLength
          BY <2>2, <3>1, <3>2, <4>1
        <5>2. age'[s] \in Nat /\ Counted(s)' \in Nat
          BY TypeStep
        <5>3. QED
          BY <1>0, <3>2, <5>1, <5>2
      <4>2. QED
        BY <3>2, <4>1
    <3>3. CASE object[s] # "live"
      BY <2>3, <3>1, <3>3
    <3>4. QED
      BY <3>2, <3>3
  <2>6. QED
    BY <2>1, <2>5
<1>15. CASE UNCHANGED vars
  BY <1>15 DEF vars
<1>16. QED
  BY <1>1, <1>2, <1>3, <1>4, <1>5, <1>6, <1>7, <1>8, <1>9, <1>10, <1>11, <1>12, <1>13, <1>14, <1>15
     DEF Next, Handle, Pass

(* The inductive invariant: nothing is left of a session that was not made *)
(* or was refused, and a session is no older than its timers allow.        *)
THEOREM LifeInvariant == Spec => []LifeInv
<1>1. Init => LifeInv
  BY SessionsAssumption, Lengths DEF Init, LifeInv, TypeOK, Unmade, Aged, Counted, Handling, Answered, Idle
<1>2. QED
  BY <1>1, LifeStep, PTL DEF Spec

(* A start that is answered with an error leaves no session and no secret  *)
(* behind, unless it lost the reply to a Create or the Delete that cleans  *)
(* up.                                                                     *)
THEOREM ErrorsCleanUp == Spec => []ErrorCleansUp
<1>1. LifeInv => ErrorCleansUp
  BY DEF LifeInv, Unmade, ErrorCleansUp
<1>2. QED
  BY <1>1, LifeInvariant, PTL

(* However often the manager crashes, a session runs for one more length   *)
(* for each time and no longer, unless the Delete of its timer failed.     *)
THEOREM LengthsKept == Spec => []OneLengthPerCrash
<1>1. LifeInv => OneLengthPerCrash
  BY Lengths DEF LifeInv, TypeOK, Aged, OneLengthPerCrash
<1>2. QED
  BY <1>1, LifeInvariant, PTL

-----------------------------------------------------------------------------
(* Requests of a user one after the other: one is in its handler at most,  *)
(* and one that has counted and is to create has room for its session.     *)
OneHandled ==
    alone => \A s, t \in Session :
      UserOf[s] = UserOf[t] /\ request[s] \in Handling /\ request[t] \in Handling => s = t

Room ==
    alone /\ MaxPerUser > 0 =>
      /\ \A u \in User : Cardinality(SessionsOf(u)) <= MaxPerUser
      /\ \A s \in Session : request[s] = "create" => Cardinality(SessionsOf(UserOf[s])) < MaxPerUser

LimitInv == LifeInv /\ OneHandled /\ Room

(* The sessions of a user are finitely many.                               *)
LEMMA Counts ==
    ASSUME IsFiniteSet(Session)
    PROVE  \A u : IsFiniteSet(SessionsOf(u)) /\ Cardinality(SessionsOf(u)) \in Nat
<1>1. ASSUME NEW u PROVE IsFiniteSet(SessionsOf(u)) /\ Cardinality(SessionsOf(u)) \in Nat
  <2>1. SessionsOf(u) \in SUBSET Session
    BY DEF SessionsOf
  <2>2. QED
    BY <2>1, FS_Subset, FS_CardinalityType
<1>2. QED
  BY <1>1

(* A session more is one more, for its user alone.                         *)
LEMMA CountsOneMore ==
    ASSUME IsFiniteSet(Session), NEW s \in Session, object \in [Session -> {"none", "live", "gone"}],
           object' = [object EXCEPT ![s] = "live"]
    PROVE  /\ Cardinality(SessionsOf(UserOf[s]))' <= Cardinality(SessionsOf(UserOf[s])) + 1
           /\ \A u \in User : u # UserOf[s] => Cardinality(SessionsOf(u))' = Cardinality(SessionsOf(u))
<1>1. SessionsOf(UserOf[s])' = SessionsOf(UserOf[s]) \cup {s}
  BY DEF SessionsOf
<1>2. \A u \in User : u # UserOf[s] => SessionsOf(u)' = SessionsOf(u)
  BY DEF SessionsOf
<1>3. Cardinality(SessionsOf(UserOf[s]) \cup {s}) <= Cardinality(SessionsOf(UserOf[s])) + 1
  <2> DEFINE others == SessionsOf(UserOf[s])
  <2>1. IsFiniteSet(others) /\ Cardinality(others) \in Nat
    BY Counts
  <2> HIDE DEF others
  <2>2. Cardinality(others \cup {s}) = IF s \in others THEN Cardinality(others) ELSE Cardinality(others) + 1
    BY <2>1, FS_AddElement
  <2>3. Cardinality(others \cup {s}) <= Cardinality(others) + 1
    BY <2>1, <2>2
  <2>4. QED
    BY <2>3 DEF others
<1>4. QED
  BY <1>1, <1>2, <1>3

(* Sessions that end leave room.                                           *)
LEMMA CountsFewer ==
    ASSUME IsFiniteSet(Session), \A s \in Session : object'[s] = "live" => object[s] = "live"
    PROVE  \A u : Cardinality(SessionsOf(u))' <= Cardinality(SessionsOf(u))
<1>1. ASSUME NEW u PROVE Cardinality(SessionsOf(u)') <= Cardinality(SessionsOf(u))
  <2>1. SessionsOf(u)' \in SUBSET SessionsOf(u)
    BY DEF SessionsOf
  <2>2. QED
    BY <2>1, Counts, FS_Subset
<1>2. QED
  BY <1>1

(* Every step keeps what holds of requests handled one by one.             *)
LEMMA LimitStep == IsFiniteSet(Session) /\ LimitInv /\ [Next]_vars => LimitInv'
<1> SUFFICES ASSUME IsFiniteSet(Session), LimitInv, [Next]_vars PROVE OneHandled' /\ Room'
  BY LifeStep DEF LimitInv
<1>0. \A u : Cardinality(SessionsOf(u)) \in Nat /\ Cardinality(SessionsOf(u))' \in Nat
  <2>1. \A u : IsFiniteSet(SessionsOf(u)') /\ Cardinality(SessionsOf(u)') \in Nat
    <3>1. \A u : SessionsOf(u)' \in SUBSET Session
      BY DEF SessionsOf
    <3>2. QED
      BY <3>1, FS_Subset, FS_CardinalityType
  <2>2. QED
    BY <2>1, Counts
<1> USE SessionsAssumption DEF LimitInv, OneHandled, Room, LifeInv, TypeOK, Handling, Answered, Answer,
                               OneFault, api, manager, history, bounds
<1>1. ASSUME UNCHANGED <<request, object>>, alone' => alone PROVE OneHandled' /\ Room'
  BY <1>1 DEF SessionsOf
<1>2. ASSUME \A s \in Session : object'[s] = "live" => object[s] = "live",
             UNCHANGED alone,
             \A s \in Session : request'[s] \in Handling => request[s] \in Handling,
             \A s \in Session : request'[s] = "create" => request[s] = "create"
      PROVE  OneHandled' /\ Room'
  <2>1. \A u : Cardinality(SessionsOf(u))' <= Cardinality(SessionsOf(u))
    BY <1>2, CountsFewer
  <2>2. OneHandled'
    BY <1>2
  <2>3. Room'
    BY <1>0, <1>2, <2>1
  <2>4. QED
    BY <2>2, <2>3
<1>3. ASSUME NEW s \in Session, request[s] = "create",
             NEW a \in {"secret", "ok", "error"}, request' = [request EXCEPT ![s] = a],
             object' = [object EXCEPT ![s] = "live"], UNCHANGED alone
      PROVE  OneHandled' /\ Room'
  <2>1. OneHandled'
    BY <1>3
  <2>2. /\ Cardinality(SessionsOf(UserOf[s]))' <= Cardinality(SessionsOf(UserOf[s])) + 1
        /\ \A u \in User : u # UserOf[s] => Cardinality(SessionsOf(u))' = Cardinality(SessionsOf(u))
    BY <1>3, CountsOneMore
  <2>3. ASSUME alone, MaxPerUser > 0, NEW t \in Session, request'[t] = "create" PROVE UserOf[t] # UserOf[s]
    BY <1>3, <2>3
  <2>4. Room'
    BY <1>0, <1>3, <2>2, <2>3
  <2>5. QED
    BY <2>1, <2>4
<1>4. ASSUME NEW s \in Session, Post(s) PROVE OneHandled' /\ Room'
  <2>1. OneHandled'
    BY ZenonT(30), <1>4 DEF Post
  <2>2. Room'
    BY <1>4 DEF Post, SessionsOf
  <2>3. QED
    BY <2>1, <2>2
<1>5. ASSUME NEW s \in Session, CheckLimit(s) PROVE OneHandled' /\ Room'
  <2>1. OneHandled'
    BY <1>5 DEF CheckLimit
  <2>2. \A u : Cardinality(SessionsOf(u))' = Cardinality(SessionsOf(u))
    BY <1>5 DEF CheckLimit, SessionsOf
  <2>3. MaxPerUser > 0 /\ request'[s] = "create" => Cardinality(SessionsOf(UserOf[s])) < MaxPerUser
    BY <1>0, <1>5 DEF CheckLimit
  <2>4. Room'
    BY <1>5, <2>2, <2>3 DEF CheckLimit
  <2>5. QED
    BY <2>1, <2>4
<1>6. ASSUME NEW s \in Session, CreateSession(s) PROVE OneHandled' /\ Room'
  <2>1. CASE s \in WithEnv
    BY <1>3, <1>6, <2>1 DEF CreateSession
  <2>2. CASE s \notin WithEnv
    BY <1>3, <1>6, <2>2 DEF CreateSession
  <2>3. QED
    BY <2>1, <2>2
<1>7. ASSUME NEW s \in Session, CreateEnvSecret(s) \/ Cleanup(s) \/ StartFails(s)
                                  \/ EnvFails(s) \/ CleanupFails(s) \/ AppGone(s)
      PROVE  OneHandled' /\ Room'
  BY <1>2, <1>7 DEF CreateEnvSecret, Cleanup, StartFails, EnvFails, CleanupFails, AppGone
<1>8. ASSUME NEW s \in Session, CreateLost(s) PROVE OneHandled' /\ Room'
  BY <1>3, <1>8 DEF CreateLost
<1>9. ASSUME NEW s \in Session, DeleteSession(s) \/ Kill(s) PROVE OneHandled' /\ Room'
  BY <1>2, <1>9 DEF DeleteSession, Kill
<1>10. ASSUME NEW s \in Session,
              \/ Begin(s) \/ AdoptSecret(s) \/ ReconcilePod(s) \/ StartTimer(s) \/ PassFails(s)
              \/ KillFails(s) \/ Poll(s) \/ PodRuns(s) \/ Collect(s)
       PROVE  OneHandled' /\ Room'
  BY <1>1, <1>10 DEF Begin, AdoptSecret, ReconcilePod, StartTimer, PassFails, KillFails, Poll, PodRuns, Collect
<1>11. CASE Crash \/ Tick \/ UNCHANGED vars
  BY <1>1, <1>11 DEF Crash, Tick, vars
<1>12. QED
  BY <1>4, <1>5, <1>6, <1>7, <1>8, <1>9, <1>10, <1>11 DEF Next, Handle, Pass

(* Requests of a user that come one after the other keep the limit, and    *)
(* one that fails or is lost does not use up what others are allowed.      *)
THEOREM LimitsKept == IsFiniteSet(Session) => (Spec => []LimitKeptOneByOne)
<1> SUFFICES ASSUME IsFiniteSet(Session) PROVE Spec => []LimitKeptOneByOne
  OBVIOUS
<1>1. Init /\ LifeInv => LimitInv
  <2> SUFFICES ASSUME Init PROVE OneHandled /\ Room
    BY DEF LimitInv
  <2>1. OneHandled
    BY DEF Init, OneHandled, Handling
  <2>2. \A u : SessionsOf(u) = {}
    BY DEF Init, SessionsOf
  <2>3. Room
    BY <2>2, SessionsAssumption, FS_EmptySet DEF Init, Room
  <2>4. QED
    BY <2>1, <2>3
<1>2. LimitInv /\ [Next]_vars => LimitInv'
  BY LimitStep
<1>3. LimitInv => LimitKeptOneByOne
  BY DEF LimitInv, Room, LimitKeptOneByOne, WithinSessionLimit
<1>4. QED
  BY <1>1, <1>2, <1>3, LifeInvariant, PTL DEF Spec
=============================================================================
