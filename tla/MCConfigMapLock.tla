-------------------------- MODULE MCConfigMapLock --------------------------
(* Values for ConfigMapLock: two goroutines of one pod and one of another   *)
(* use the lock.                                                           *)
EXTENDS ConfigMapLock, TLC

CONSTANTS a1, a2, b1, A, B

MCProc == {a1, a2, b1}
MCPod == {A, B}
MCPodOf == (a1 :> A) @@ (a2 :> A) @@ (b1 :> B)

(* get_websockify.go takes its locks with the timeout -1. *)
MCForever == [p \in Proc |-> -1]

(* Timeouts of different lengths, as MFA and refresh tokens use them.      *)
MCShort == [p \in Proc |-> IF p = b1 THEN 2 ELSE 1]

(* Two goroutines in two pods. *)
MCTwoProc == {a1, b1}
MCTwoPodOf == (a1 :> A) @@ (b1 :> B)
=============================================================================
