--------------------------- MODULE ExclusiveLock ---------------------------
(***************************************************************************)
(* What the lock of pkg/util/lock promises its callers when it is taken    *)
(* without an expiry: the lock is granted to one user at a time, and only  *)
(* the user it was granted to is ever inside the section it guards.        *)
(*                                                                         *)
(* A grant and the entry of its user are separate facts: the user may be   *)
(* gone, or may never learn of its grant, while the lock is still granted. *)
(***************************************************************************)
CONSTANTS User,     \* the users of one lock
          Nobody    \* the grantee of a free lock

VARIABLES grantee,  \* the user the lock is granted to, or Nobody
          inside    \* the users inside the guarded section

vars == <<grantee, inside>>

Init == /\ grantee = Nobody
        /\ inside = {}

(* The lock is granted to u, which enters or never learns of it. *)
Grant(u) ==
    /\ grantee = Nobody
    /\ grantee' = u
    /\ inside' \in {inside, inside \cup {u}}

(* Some users leave: one at the end of its section, or all of a pod.       *)
Leave(S) ==
    /\ inside' = inside \ S
    /\ grantee' = grantee

(* The lock is freed once its grantee is not inside. *)
Free ==
    /\ grantee \notin inside
    /\ grantee' = Nobody
    /\ inside' = inside

Next == \/ \E u \in User : Grant(u)
        \/ \E S \in SUBSET User : Leave(S)
        \/ Free

Spec == Init /\ [][Next]_vars
=============================================================================
