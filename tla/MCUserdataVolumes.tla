------------------------- MODULE MCUserdataVolumes -------------------------
(* Instances of UserdataVolumes: the sessions of one user in one namespace. *)
EXTENDS UserdataVolumes

CONSTANTS u1, n1

MCOneUser  == [s \in Session |-> u1]
MCOneNamespace == [s \in Session |-> n1]
=============================================================================
