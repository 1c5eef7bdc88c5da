----------------------------- MODULE SecretMap -----------------------------
(***************************************************************************)
(* What the callers of the secret engine expect of one secret that is a    *)
(* table: the passwd file of the local auth provider (one line per user),  *)
(* the refresh tokens (one entry per token). An operation happens at one   *)
(* instant, on the table as it is then, or is refused, or fails and then   *)
(* it may still have happened.                                             *)
(***************************************************************************)
CONSTANTS Request,  \* API requests that operate on the table
          Name,     \* names of entries
          Value,    \* what an entry holds
          None      \* no entry

(* An operation on the table. *)
Op == [kind : {"create", "update", "delete", "put", "take"}, name : Name, value : Value]

Table == [Name -> Value \cup {None}]

(* createUser refuses a name that is there; updateUser and the lookup of a *)
(* refresh token refuse a name that is not.                                *)
Refused(o, t) ==
    \/ o.kind = "create" /\ t[o.name] # None
    \/ o.kind \in {"update", "take"} /\ t[o.name] = None

(* createUser, updateUser and generateRefreshToken leave the entry,        *)
(* deleteUser and the lookup of a refresh token remove it.                 *)
Applied(o, t) ==
    [t EXCEPT ![o.name] = IF o.kind \in {"delete", "take"} THEN None ELSE o.value]

VARIABLES table,    \* the secret
          op,       \* the operation each request asks for
          outcome   \* what each request was told

vars == <<table, op, outcome>>

Init == /\ table \in Table
        /\ op \in [Request -> Op]
        /\ outcome = [r \in Request |-> "none"]

(* What one request is told, with the table it was told it about. *)
Tell(r, what) == /\ outcome[r] = "none"
                 /\ outcome' = [outcome EXCEPT ![r] = what]
                 /\ op' = op

Commit(r) == /\ ~Refused(op[r], table)
             /\ table' = Applied(op[r], table)
             /\ Tell(r, "ok")

Refuse(r) == /\ Refused(op[r], table)
             /\ table' = table
             /\ Tell(r, "refused")

Fail(r) == /\ \/ table' = table
              \/ ~Refused(op[r], table) /\ table' = Applied(op[r], table)
           /\ Tell(r, "error")

Next == \E r \in Request : Commit(r) \/ Refuse(r) \/ Fail(r)

Spec == Init /\ [][Next]_vars
=============================================================================
