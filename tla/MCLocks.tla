------------------------------ MODULE MCLocks ------------------------------
(* The two ways the lock is used, each followed on its own: for ever, by   *)
(* three goroutines, and with timeouts, by two. The second is an instance  *)
(* with constants and variables of its own.                                *)
EXTENDS MCConfigMapLock

VARIABLES followed, nowT, faultsT, deadT, cmT, pcT, deadlineT, seenT, outlivedT

T == INSTANCE ConfigMapLock
       WITH Proc <- MCTwoProc, PodOf <- MCTwoPodOf, MaxTime <- 4, MaxFaults <- 1,
            Timeout <- [p \in MCTwoProc |-> IF p = b1 THEN 2 ELSE 1],
            now <- nowT, faults <- faultsT, dead <- deadT, cm <- cmT, pc <- pcT,
            deadline <- deadlineT, seen <- seenT, outlived <- outlivedT

timedVars == <<nowT, faultsT, deadT, cmT, pcT, deadlineT, seenT, outlivedT>>
locksVars == <<vars, timedVars, followed>>

LocksInit == followed \in {"forever", "timed"} /\ Init /\ T!Init

LocksNext ==
    /\ \/ followed = "forever" /\ Next /\ UNCHANGED timedVars
       \/ followed = "timed" /\ T!Next /\ UNCHANGED vars
    /\ UNCHANGED followed

LocksSpec ==
    /\ LocksInit /\ [][LocksNext]_locksVars
    /\ followed = "forever" => Fairness
    /\ followed = "timed" => T!Fairness

(* An Acquire with a timeout returns, whatever its holder does.            *)
TimedAcquireReturns == T!AcquireReturns
=============================================================================
