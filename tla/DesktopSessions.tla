-------------------------- MODULE DesktopSessions --------------------------
(***************************************************************************)
(* The life of desktop sessions: the API handler that starts one (checks   *)
(* the limit of the user, creates the Session object, then the secret with *)
(* the user's environment), the session controller that makes its pod, and *)
(* the timer goroutine that ends it after the maximum session length.      *)
(* pkg/api/post_sessions.go, delete_desktop_session.go,                    *)
(* pkg/resources/desktop/reconciler.go.                                    *)
(*                                                                         *)
(* Every request is for a session of its own, so one name stands for both. *)
(* The cluster has no userdataSpec here: UserdataVolumes has one.          *)
(***************************************************************************)
EXTENDS Naturals, FiniteSets

CONSTANTS Session,     \* sessions, each asked for by one API request
          User, UserOf,
          NoOne,       \* the worker has no session
          Off,         \* no timer goroutine
          MaxPerUser,  \* desktops.sessionsPerUser, 0 for no limit
          MaxLength,   \* desktops.maxSessionLength in ticks, 0 for none
          WithEnv,     \* sessions whose template has env templates
          MaxFaults,   \* bound: calls to the API server that fail
          MaxCrashes   \* bound: crashes of the manager

ASSUME SessionsAssumption ==
    /\ UserOf \in [Session -> User]
    /\ MaxPerUser \in Nat /\ MaxLength \in Nat
    /\ WithEnv \subseteq Session
    /\ MaxFaults \in Nat /\ MaxCrashes \in Nat
    /\ NoOne \notin Session /\ Off \notin Nat

VARIABLES request,   \* where the handler of each session's request is
          object,    \* the Session object
          secret,    \* its env secret, and whether the session owns it
          pod,       \* its pod
          running,   \* sessions whose status says Running
          timer,     \* ticks since killOnSessionTimeout started
          worker,    \* the pass the controller is in
          age,       \* history: ticks since the session was reported running
          alone,     \* history: no two requests of a user have overlapped
          unkilled,  \* history: sessions whose timer failed to delete them
          lost,      \* history: sessions whose start lost a reply or a Delete
          faults, crashes

api     == <<request, object, secret>>
manager == <<running, timer, worker>>
history == <<age, alone, unkilled, lost>>
bounds  == <<faults, crashes>>
vars    == <<api, pod, manager, history, bounds>>

Handling == {"list", "create", "secret", "cleanup"}
Answered == {"ok", "refused", "error", "lost"}
MaxAge   == MaxLength * (1 + MaxCrashes) + 1

TypeOK ==
    /\ request \in [Session -> {"none"} \cup Handling \cup Answered]
    /\ object \in [Session -> {"none", "live", "gone"}]
    /\ secret \in [Session -> {"none", "free", "owned"}]
    /\ pod \in [Session -> {"none", "pending", "running"}]
    /\ running \subseteq Session
    /\ timer \in [Session -> 0..MaxLength \cup {Off}]
    /\ worker \in [at : {"idle", "secret", "pod", "report"}, on : Session \cup {NoOne}]
    /\ age \in [Session -> 0..MaxAge]
    /\ alone \in BOOLEAN /\ unkilled \subseteq Session /\ lost \subseteq Session
    /\ faults \in 0..MaxFaults /\ crashes \in 0..MaxCrashes

Idle == [at |-> "idle", on |-> NoOne]

Init ==
    /\ request = [s \in Session |-> "none"]
    /\ object = [s \in Session |-> "none"]
    /\ secret = [s \in Session |-> "none"]
    /\ pod = [s \in Session |-> "none"]
    /\ running = {} /\ worker = Idle
    /\ timer = [s \in Session |-> Off]
    /\ age = [s \in Session |-> 0] /\ alone = TRUE /\ unkilled = {} /\ lost = {}
    /\ faults = 0 /\ crashes = 0

SessionsOf(u) == {s \in Session : UserOf[s] = u /\ object[s] = "live"}
OneFault == faults < MaxFaults /\ faults' = faults + 1 /\ crashes' = crashes

-----------------------------------------------------------------------------
(* StartDesktopSession *)

Answer(s, a) == request' = [request EXCEPT ![s] = a]

Post(s) ==
    /\ request[s] = "none"
    /\ Answer(s, "list")
    /\ alone' = (alone /\ \A t \in Session : UserOf[t] = UserOf[s] => request[t] \notin Handling)
    /\ UNCHANGED <<object, secret, pod, manager, age, unkilled, lost, bounds>>

(* Broken CheckLimit: one session more than the maximum is let through.    *)
CheckLimitOffByOne(s) ==
    /\ request[s] = "list"
    /\ Answer(s, IF MaxPerUser > 0 /\ Cardinality(SessionsOf(UserOf[s])) > MaxPerUser
                   THEN "refused" ELSE "create")
    /\ UNCHANGED <<object, secret, pod, manager, history, bounds>>

(* The sessions of the user are listed and counted, if there is a limit. *)
CheckLimit(s) ==
    /\ request[s] = "list"
    /\ Answer(s, IF MaxPerUser > 0 /\ Cardinality(SessionsOf(UserOf[s])) >= MaxPerUser
                   THEN "refused" ELSE "create")
    /\ UNCHANGED <<object, secret, pod, manager, history, bounds>>

CreateSession(s) ==
    /\ request[s] = "create"
    /\ object' = [object EXCEPT ![s] = "live"]
    /\ Answer(s, IF s \in WithEnv THEN "secret" ELSE "ok")
    /\ UNCHANGED <<secret, pod, manager, history, bounds>>

CreateEnvSecret(s) ==
    /\ request[s] = "secret"
    /\ secret' = [secret EXCEPT ![s] = "free"]
    /\ Answer(s, "ok")
    /\ UNCHANGED <<object, pod, manager, history, bounds>>

(* A call fails before there is a session. *)
StartFails(s) ==
    /\ request[s] \in {"list", "create"} /\ OneFault
    /\ Answer(s, "error")
    /\ UNCHANGED <<object, secret, pod, manager, history>>

(* Create makes the session and its reply is lost: the user is answered    *)
(* with an error, and nothing cleans up.                                   *)
CreateLost(s) ==
    /\ request[s] = "create" /\ OneFault
    /\ object' = [object EXCEPT ![s] = "live"]
    /\ Answer(s, "error")
    /\ lost' = lost \cup {s}
    /\ UNCHANGED <<secret, pod, manager, age, alone, unkilled>>

(* The secret cannot be made, because a template of the environment does   *)
(* not execute or the call is refused, or it is made and the reply lost.   *)
(* The deferred function is to delete the session.                         *)
EnvFails(s) ==
    /\ request[s] = "secret"
    /\ Answer(s, "cleanup")
    /\ \/ UNCHANGED <<secret, lost, bounds>>
       \/ OneFault /\ secret' = [secret EXCEPT ![s] = "free"] /\ lost' = lost \cup {s}
    /\ UNCHANGED <<object, pod, manager, age, alone, unkilled>>

(* Broken Cleanup: the deferred function is not there. *)
CleanupForgotten(s) ==
    /\ request[s] = "cleanup"
    /\ object' = object
    /\ Answer(s, "error")
    /\ UNCHANGED <<secret, pod, manager, history, bounds>>

Cleanup(s) ==
    /\ request[s] = "cleanup"
    /\ object' = [object EXCEPT ![s] = "gone"]
    /\ Answer(s, "error")
    /\ UNCHANGED <<secret, pod, manager, history, bounds>>

(* The Delete fails, which is only logged. *)
CleanupFails(s) ==
    /\ request[s] = "cleanup" /\ OneFault
    /\ Answer(s, "error")
    /\ lost' = lost \cup {s}
    /\ UNCHANGED <<object, secret, pod, manager, age, alone, unkilled>>

(* The app process is gone, and the user has no answer. *)
AppGone(s) ==
    /\ request[s] \in Handling /\ OneFault
    /\ Answer(s, "lost")
    /\ UNCHANGED <<object, secret, pod, manager, history>>

(* DeleteDesktopSession, or kubectl. *)
DeleteSession(s) ==
    /\ object[s] = "live"
    /\ object' = [object EXCEPT ![s] = "gone"]
    /\ UNCHANGED <<request, secret, pod, manager, history, bounds>>

-----------------------------------------------------------------------------
(* The session controller *)

At(s, l) == worker.at = l /\ worker.on = s

(* A pass is begun for what has changed, again after one that failed, and  *)
(* for everything after a restart and every few hours: at any time. For a  *)
(* session that has gone there is nothing to do.                           *)
Begin(s) ==
    /\ worker = Idle /\ object[s] = "live"
    /\ worker' = [at |-> IF s \in WithEnv THEN "secret" ELSE "pod", on |-> s]
    /\ UNCHANGED <<api, pod, running, timer, history, bounds>>

Goto(l) == worker' = [worker EXCEPT !.at = l]

(* The secret is found by its label, and given its owner; until it is      *)
(* there the pass fails.                                                   *)
AdoptSecret(s) ==
    /\ At(s, "secret")
    /\ IF secret[s] = "none" THEN worker' = Idle /\ secret' = secret
       ELSE Goto("pod") /\ secret' = [secret EXCEPT ![s] = "owned"]
    /\ UNCHANGED <<request, object, pod, running, timer, history, bounds>>

(* reconcile.Pod and the wait for the pod. Unless it is there and stays,   *)
(* the pass ends and the status says not running.                          *)
ReconcilePod(s) ==
    /\ At(s, "pod")
    /\ IF pod[s] = "running" THEN Goto("report") /\ running' = running
       ELSE worker' = Idle /\ running' = running \ {s}
    /\ pod' = IF pod[s] = "none" THEN [pod EXCEPT ![s] = "pending"] ELSE pod
    /\ UNCHANGED <<api, timer, history, bounds>>

(* Broken StartTimer: the timer is started only by the pass that reports   *)
(* the session running for the first time.                                 *)
StartTimerOnce(s) ==
    /\ At(s, "report")
    /\ worker' = Idle
    /\ running' = IF object[s] = "live" THEN running \cup {s} ELSE running
    /\ timer' = IF MaxLength > 0 /\ s \notin running /\ object[s] = "live"
                  THEN [timer EXCEPT ![s] = 0] ELSE timer
    /\ UNCHANGED <<api, pod, history, bounds>>

(* Broken StartTimer: tickerRoutines is not looked at, a pass starts the   *)
(* timer of the session again.                                             *)
RestartTimer(s) ==
    /\ At(s, "report")
    /\ worker' = Idle
    /\ running' = IF object[s] = "live" THEN running \cup {s} ELSE running
    /\ timer' = IF MaxLength > 0 /\ object[s] = "live"
                  THEN [timer EXCEPT ![s] = 0] ELSE timer
    /\ UNCHANGED <<api, pod, history, bounds>>

(* The status is set, an error if the session has gone. With it goes the   *)
(* timer, unless tickerRoutines says that there is one.                    *)
StartTimer(s) ==
    /\ At(s, "report")
    /\ worker' = Idle
    /\ running' = IF object[s] = "live" THEN running \cup {s} ELSE running
    /\ timer' = IF MaxLength > 0 /\ timer[s] = Off /\ (s \in running \/ object[s] = "live")
                  THEN [timer EXCEPT ![s] = 0] ELSE timer
    /\ UNCHANGED <<api, pod, history, bounds>>

PassFails(s) ==
    /\ worker.on = s /\ OneFault
    /\ worker' = Idle
    /\ UNCHANGED <<api, pod, running, timer, history>>

(* The manager is gone and comes back: no timer is left. *)
Crash ==
    /\ crashes < MaxCrashes
    /\ crashes' = crashes + 1
    /\ worker' = Idle
    /\ timer' = [s \in Session |-> Off]
    /\ UNCHANGED <<api, pod, running, history, faults>>

-----------------------------------------------------------------------------
(* killOnSessionTimeout *)

Due(s) == timer[s] = MaxLength

Kill(s) ==
    /\ Due(s)
    /\ object' = [object EXCEPT ![s] = "gone"]
    /\ timer' = [timer EXCEPT ![s] = Off]
    /\ UNCHANGED <<request, secret, pod, running, worker, history, bounds>>

(* Delete fails: the error is logged, the goroutine returns. *)
KillFails(s) ==
    /\ Due(s) /\ object[s] = "live" /\ OneFault
    /\ timer' = [timer EXCEPT ![s] = Off]
    /\ unkilled' = unkilled \cup {s}
    /\ UNCHANGED <<api, pod, running, worker, age, alone, lost>>

(* The poll finds that the session has gone. *)
Poll(s) ==
    /\ timer[s] # Off /\ object[s] = "gone"
    /\ timer' = [timer EXCEPT ![s] = Off]
    /\ UNCHANGED <<api, pod, running, worker, history, bounds>>

-----------------------------------------------------------------------------
(* Kubernetes *)

PodRuns(s) ==
    /\ pod[s] = "pending" /\ object[s] = "live"
    /\ pod' = [pod EXCEPT ![s] = "running"]
    /\ UNCHANGED <<api, manager, history, bounds>>

(* What a session owned goes with it: the pod, and the secret if it has    *)
(* been adopted.                                                           *)
Collect(s) ==
    /\ object[s] = "gone" /\ (pod[s] # "none" \/ secret[s] = "owned")
    /\ pod' = [pod EXCEPT ![s] = "none"]
    /\ secret' = [secret EXCEPT ![s] = IF @ = "owned" THEN "none" ELSE @]
    /\ UNCHANGED <<request, object, manager, history, bounds>>

(* A tick of the clock, long against a pass of the controller and against  *)
(* a restart: no timer that is due waits for it, and no session that runs  *)
(* without a timer, but for one that a failed Delete has left.             *)
Untimed(s) == s \in running \ unkilled /\ object[s] = "live" /\ timer[s] = Off

Tick ==
    /\ MaxLength > 0
    /\ ~\E s \in Session : Due(s) \/ Untimed(s)
    /\ timer' = [s \in Session |-> IF timer[s] = Off THEN Off ELSE timer[s] + 1]
    /\ age' = [s \in Session |->
                 IF s \in running /\ object[s] = "live" /\ age[s] < MaxAge THEN age[s] + 1 ELSE age[s]]
    /\ UNCHANGED <<api, pod, running, worker, alone, unkilled, lost, bounds>>

Handle(s) == CheckLimit(s) \/ CreateSession(s) \/ CreateEnvSecret(s) \/ Cleanup(s)
Pass(s)   == AdoptSecret(s) \/ ReconcilePod(s) \/ StartTimer(s)

Next ==
    \/ \E s \in Session :
         \/ Post(s) \/ Handle(s) \/ DeleteSession(s)
         \/ StartFails(s) \/ CreateLost(s) \/ EnvFails(s) \/ CleanupFails(s) \/ AppGone(s)
         \/ Begin(s) \/ Pass(s) \/ PassFails(s)
         \/ Kill(s) \/ KillFails(s) \/ Poll(s)
         \/ PodRuns(s) \/ Collect(s)
    \/ Crash \/ Tick

Spec == Init /\ [][Next]_vars

(* Handlers and passes go on, the work queue is first in, first out and    *)
(* gets every session again, the clock runs, due timers fire, pods start.  *)
Fairness ==
    /\ \A s \in Session : /\ WF_vars(Handle(s)) /\ SF_vars(Begin(s)) /\ WF_vars(Pass(s))
                          /\ WF_vars(Kill(s)) /\ WF_vars(PodRuns(s))
    /\ WF_vars(Tick)

FairSpec == Spec /\ Fairness

-----------------------------------------------------------------------------
(* vdicluster_types.go:97: the maximum number of sessions a user can run   *)
(* at a time.                                                              *)
WithinSessionLimit ==
    MaxPerUser > 0 => \A u \in User : Cardinality(SessionsOf(u)) <= MaxPerUser

(* It is kept by requests of one user that come one after the other.       *)
LimitKeptOneByOne == alone => WithinSessionLimit

(* vdicluster_types.go:94-95: sessions are terminated when the time limit  *)
(* is reached. The timer is only in the memory of the manager: a crash     *)
(* gives a session at most one more length, and nothing else gives it more *)
(* but a Delete of the timer that fails.                                   *)
OneLengthPerCrash ==
    MaxLength > 0 => \A s \in Session \ unkilled : age[s] <= MaxLength * (1 + crashes)

(* A start that is answered with an error leaves no session and no secret  *)
(* behind, unless what it lost is the reply to a Create that was done, or  *)
(* the Delete that cleans up: then the user has a session, or the          *)
(* namespace a secret, that the answer denies.                             *)
ErrorCleansUp ==
    \A s \in Session :
        request[s] = "error" /\ s \notin lost => object[s] # "live" /\ secret[s] = "none"

(* A session is over in the end when there is a time limit, whatever fails *)
(* and crashes a finite number of times and whatever its start was         *)
(* answered, unless it waits for a secret that the app has not made and no *)
(* longer will.                                                            *)
SessionEnds ==
    MaxLength > 0 =>
      \A s \in Session :
        object[s] = "live" ~>
          \/ object[s] = "gone"
          \/ s \in WithEnv /\ secret[s] = "none" /\ request[s] \in {"error", "lost"}
=============================================================================
