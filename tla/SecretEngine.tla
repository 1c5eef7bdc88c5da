---------------------------- MODULE SecretEngine ----------------------------
(***************************************************************************)
(* The secret engine of pkg/secrets/secrets_engine.go and its Kubernetes   *)
(* or vault backend, as the API requests use it that change one secret: a  *)
(* request locks the engine, reads the secret, computes its new contents,  *)
(* writes all of it back and releases the engine.                          *)
(*                                                                         *)
(* Each app replica has an engine. The engine's mutex serialises the       *)
(* requests of its replica; the lock of ConfigMapLock, taken only when the *)
(* engine knows of other replicas, is there to serialise the replicas.     *)
(* That lock has a timeout of 10 or 15 seconds, so it can lapse: another   *)
(* replica may delete it under a request that is still at work (Steal; for *)
(* how lock.go gets there, before or after the expiry, see ConfigMapLock   *)
(* and its run lock_steal). Every call to the backend is a step of its own.*)
(***************************************************************************)
EXTENDS Naturals, FiniteSets

CONSTANTS Engine,      \* app replicas
          Request,     \* API requests, each served by one replica
          EngineOf,    \* the replica that serves it
          Name, Value, None,
          Free,        \* a mutex or the remote lock that nobody has
          Ops,         \* the operations that requests may ask for
          InitTables,  \* the contents the secret may start with
          KnowsPeers,  \* replicas whose cluster configuration says replicas > 1
          Versioned,   \* the backend refuses an update of an old version
          MaxFaults,   \* bound: calls to the API server or the vault that fail
          MaxOther     \* bound: writes of the other keys of the backing secret

VARIABLES table,    \* the secret, decoded
          newest,    \* requests whose write has read the object at its present version
          mux,      \* the request that has the mutex of each engine
          remote,   \* the request that has the remote lock
          hasLock,  \* engines with a lock in s.lock
          pc, op,
          read,     \* the contents each request has read
          outcome,  \* what each request returned
          lapsed,   \* history: a request at work has lost the remote lock
          faults, other

Data == INSTANCE SecretMap

vars == <<table, newest, mux, remote, hasLock, pc, op, read, outcome, lapsed, faults, other>>
lock == <<mux, remote, hasLock, lapsed>>
bounds == <<faults, other>>

ASSUME EngineAssumption ==
    /\ EngineOf \in [Request -> Engine]
    /\ Ops \subseteq Data!Op
    /\ InitTables \subseteq Data!Table
    /\ KnowsPeers \subseteq Engine
    /\ Versioned \in BOOLEAN
    /\ MaxFaults \in Nat /\ MaxOther \in Nat
    /\ Free \notin Request /\ None \notin Value

Steps == {"lock", "acquire", "read", "get", "put", "release", "delete", "stuck", "done"}

TypeOK ==
    /\ table \in Data!Table /\ newest \subseteq Request
    /\ mux \in [Engine -> Request \cup {Free}]
    /\ remote \in Request \cup {Free}
    /\ hasLock \subseteq Engine
    /\ pc \in [Request -> Steps]
    /\ op \in [Request -> Ops]
    /\ read \in [Request -> Data!Table]
    /\ outcome \in [Request -> {"none", "ok", "refused", "error"}]
    /\ lapsed \in BOOLEAN
    /\ faults \in Nat /\ other \in Nat

Init ==
    /\ table \in InitTables /\ newest = {}
    /\ mux = [e \in Engine |-> Free]
    /\ remote = Free /\ hasLock = {}
    /\ pc = [r \in Request |-> "lock"]
    /\ op \in [Request -> Ops]
    /\ read = [r \in Request |-> table]
    /\ outcome = [r \in Request |-> "none"]
    /\ lapsed = FALSE
    /\ faults = 0 /\ other = 0

Goto(r, l) == pc' = [pc EXCEPT ![r] = l]
Return(r, what) == outcome' = [outcome EXCEPT ![r] = what]
OneFault == faults < MaxFaults /\ faults' = faults + 1 /\ other' = other

(* Between a successful Lock and Release. *)
InSection(r) == pc[r] \in {"read", "get", "put"}

(* The ConfigMap is deleted by its name, whoever it belongs to.            *)
DeleteRemote ==
    /\ remote' = Free
    /\ lapsed' = (lapsed \/ (remote # Free /\ InSection(remote)))

-----------------------------------------------------------------------------
(* Broken LockMutex: the lock is never asked for remotely. *)
LockMutexOnly(r) ==
    LET e == EngineOf[r] IN
    /\ pc[r] = "lock" /\ mux[e] = Free
    /\ mux' = [mux EXCEPT ![e] = r]
    /\ Goto(r, "read")
    /\ UNCHANGED <<table, newest, remote, lapsed, hasLock, op, read, outcome, bounds>>

(* Lock: the mutex first, then the remote lock if there are peers. *)
LockMutex(r) ==
    LET e == EngineOf[r] IN
    /\ pc[r] = "lock" /\ mux[e] = Free
    /\ mux' = [mux EXCEPT ![e] = r]
    /\ IF e \in KnowsPeers
         THEN hasLock' = hasLock \cup {e} /\ Goto(r, "acquire")
         ELSE hasLock' = hasLock /\ Goto(r, "read")
    /\ UNCHANGED <<table, newest, remote, lapsed, op, read, outcome, bounds>>

Acquire(r) ==
    /\ pc[r] = "acquire" /\ remote = Free
    /\ remote' = r
    /\ Goto(r, "read")
    /\ UNCHANGED <<table, newest, mux, hasLock, lapsed, op, read, outcome, bounds>>

(* An attempt of Acquire finds a lock stale and deletes it: one that has   *)
(* expired while its holder works or that nobody released, or the one that *)
(* has taken the place of the lock the attempt looked at.                  *)
Steal(r) ==
    /\ pc[r] = "acquire" /\ remote # Free
    /\ DeleteRemote
    /\ UNCHANGED <<table, newest, mux, hasLock, pc, op, read, outcome, bounds>>

(* The lock is created and the reply lost: the next attempt finds it held. *)
CreateLost(r) ==
    /\ pc[r] = "acquire" /\ remote = Free /\ OneFault
    /\ remote' = r
    /\ UNCHANGED <<table, newest, mux, hasLock, lapsed, pc, op, read, outcome>>

(* Acquire returns an error, because it did not find its pod or because    *)
(* its time is up (so without a bound): Lock returns it with the mutex     *)
(* locked, and the caller returns it without calling Release.              *)
AcquireFails(r) ==
    /\ pc[r] = "acquire"
    /\ Goto(r, "stuck") /\ Return(r, "error")
    /\ UNCHANGED <<table, newest, lock, op, read, bounds>>

-----------------------------------------------------------------------------
(* Broken Read: ReadSecret(name, true), served from a cache the lock does  *)
(* not cover: the contents the request knew before it had the lock.        *)
ReadCached(r) ==
    /\ pc[r] = "read"
    /\ read' = read
    /\ IF Data!Refused(op[r], read[r])
         THEN Goto(r, "release") /\ Return(r, "refused")
         ELSE Goto(r, IF Versioned THEN "get" ELSE "put") /\ UNCHANGED outcome
    /\ UNCHANGED <<table, newest, lock, op, bounds>>

(* ReadSecret(name, false), and the change computed from what it returns;  *)
(* a refused operation returns without writing.                            *)
Read(r) ==
    /\ pc[r] = "read"
    /\ read' = [read EXCEPT ![r] = table]
    /\ IF Data!Refused(op[r], table)
         THEN Goto(r, "release") /\ Return(r, "refused")
         ELSE Goto(r, IF Versioned THEN "get" ELSE "put") /\ UNCHANGED outcome
    /\ UNCHANGED <<table, newest, lock, op, bounds>>

(* WriteSecret of the Kubernetes provider reads the whole object again,    *)
(* replaces its key, and updates the object at the version just read.      *)
Get(r) ==
    /\ pc[r] = "get"
    /\ newest' = newest \cup {r}
    /\ Goto(r, "put")
    /\ UNCHANGED <<table, lock, op, read, outcome, bounds>>

Conflict(r) == Versioned /\ r \notin newest

Put(r) ==
    /\ pc[r] = "put" /\ ~Conflict(r)
    /\ table' = Data!Applied(op[r], read[r])
    /\ newest' = {}
    /\ Goto(r, "release") /\ Return(r, "ok")
    /\ UNCHANGED <<lock, op, read, bounds>>

(* The conflict is returned to the client; nothing tries again. *)
PutConflicts(r) ==
    /\ pc[r] = "put" /\ Conflict(r)
    /\ Goto(r, "release") /\ Return(r, "error")
    /\ UNCHANGED <<table, newest, lock, op, read, bounds>>

(* A call fails; a failed update may have been applied. *)
CallFails(r) ==
    /\ pc[r] \in {"read", "get", "put"} /\ OneFault
    /\ \/ UNCHANGED <<table, newest>>
       \/ /\ pc[r] = "put" /\ ~Conflict(r)
          /\ table' = Data!Applied(op[r], read[r])
          /\ newest' = {}
    /\ Goto(r, "release") /\ Return(r, "error")
    /\ UNCHANGED <<lock, op, read>>

(* Release forgets the lock and, deferred, unlocks the mutex. *)
Unlocked(r) ==
    /\ hasLock' = hasLock \ {EngineOf[r]}
    /\ mux' = [mux EXCEPT ![EngineOf[r]] = Free]
    /\ Goto(r, "done")

(* Release reads the remote lock: one that is gone, or that another pod    *)
(* has by now, is left as it is; that error is only logged.                *)
ReleaseGet(r) ==
    /\ pc[r] = "release"
    /\ IF EngineOf[r] \in hasLock /\ remote # Free /\ EngineOf[remote] = EngineOf[r]
         THEN Goto(r, "delete") /\ UNCHANGED <<mux, hasLock>>
         ELSE Unlocked(r)
    /\ UNCHANGED <<table, newest, remote, lapsed, op, read, outcome, bounds>>

ReleaseDelete(r) ==
    /\ pc[r] = "delete"
    /\ DeleteRemote /\ Unlocked(r)
    /\ UNCHANGED <<table, newest, op, read, outcome, bounds>>

(* Broken ReleaseFails: the error is returned before the mutex is unlocked.*)
ReleaseFailsLocked(r) ==
    /\ pc[r] \in {"release", "delete"} /\ EngineOf[r] \in hasLock /\ OneFault
    /\ UNCHANGED <<remote, lapsed>> \/ (pc[r] = "delete" /\ DeleteRemote)
    /\ hasLock' = hasLock \ {EngineOf[r]} /\ mux' = mux /\ Goto(r, "done")
    /\ UNCHANGED <<table, newest, op, read, outcome>>

(* The call fails, or only its reply is lost: logged, and the ConfigMap is *)
(* left until somebody finds it expired.                                   *)
ReleaseFails(r) ==
    /\ pc[r] \in {"release", "delete"} /\ EngineOf[r] \in hasLock /\ OneFault
    /\ UNCHANGED <<remote, lapsed>> \/ (pc[r] = "delete" /\ DeleteRemote)
    /\ Unlocked(r)
    /\ UNCHANGED <<table, newest, op, read, outcome>>

-----------------------------------------------------------------------------
(* Another key of the backing object is written: the JWT secret, the CA,   *)
(* the default passwd file, the state of a login.                          *)
WriteOtherKey ==
    /\ other < MaxOther
    /\ other' = other + 1
    /\ newest' = {}
    /\ UNCHANGED <<table, lock, pc, op, read, outcome, faults>>

Work(r) ==
    \/ LockMutex(r) \/ Acquire(r) \/ Steal(r)
    \/ Read(r) \/ Get(r) \/ Put(r) \/ PutConflicts(r)
    \/ ReleaseGet(r) \/ ReleaseDelete(r)

Next ==
    \/ \E r \in Request :
         Work(r) \/ CreateLost(r) \/ AcquireFails(r) \/ CallFails(r) \/ ReleaseFails(r)
    \/ WriteOtherKey

Spec == Init /\ [][Next]_vars

(* The goroutine of a request runs until it returns. Go's mutex hands over *)
(* to a waiter that starves; the remote lock does not, but it expires, and *)
(* a finite number of requests cannot starve one for ever.                 *)
FairSpec == Spec /\ \A r \in Request : WF_vars(Work(r)) /\ SF_vars(LockMutex(r))

-----------------------------------------------------------------------------
(* Two requests between Lock and Release are never of one replica, and not *)
(* of two as long as no request at work has lost the remote lock.          *)
OneAtATime ==
    \A r, s \in Request :
        InSection(r) /\ InSection(s) /\ r # s => EngineOf[r] # EngineOf[s] /\ lapsed

(* Until the remote lock lapses, every request that was told "ok" acted on *)
(* the secret at one instant: no update of one request is lost by          *)
(* another's write, a refresh token is handed out to one taker, a user is  *)
(* created once. The mutex, failing calls, orphaned locks, lost replies    *)
(* and writes of other keys do not break that.                             *)
ImplementsSecretMap == Data!Init /\ [][Data!Next \/ lapsed']_(Data!vars)

(* The only requests that never return are those of a replica where an     *)
(* Acquire has failed: any other failure unlocks the engine, and neither a *)
(* failed Acquire nor a lock that is left behind stops the other replicas. *)
ReturnsUnlessAcquireFailed ==
    \A r \in Request :
        <>(outcome[r] # "none" \/ \E s \in Request : EngineOf[s] = EngineOf[r] /\ pc[s] = "stuck")
=============================================================================
