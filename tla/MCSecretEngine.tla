--------------------------- MODULE MCSecretEngine ---------------------------
(* Instances of SecretEngine: two requests at the first replica and one at *)
(* the second.                                                             *)
EXTENDS SecretEngine

CONSTANTS e1, e2, r1, r2, r3, t1, t2, u, v

MCTwoEngines == {e1, e2}
MCRequests == {r1, r2, r3}
MCSplit == [r \in Request |-> IF r = r3 THEN e2 ELSE e1]

(* Two operations on an entry that is there, which may exclude each other, *)
(* and one that makes an entry and is refused the second time. A put is a  *)
(* create that nothing refuses, a delete a take that nothing refuses.      *)
MCOps ==
    {[kind |-> "update", name |-> t1, value |-> u],
     [kind |-> "take",   name |-> t1, value |-> u],
     [kind |-> "create", name |-> t2, value |-> u]}

MCTables == {[n \in Name |-> IF n = t1 THEN v ELSE None]}
=============================================================================
