--------------------------- MODULE MCClusterPass ---------------------------
(* An instance of ClusterPass: a session, the role of administrators and   *)
(* the service account stand for the objects made like them.               *)
EXTENDS ClusterPass

CONSTANTS s1, adminRole, serviceAccount

MCRoles == <<adminRole>>
MCRbac == <<serviceAccount>>
MCKinds == {Secret \cup Session, {"cluster", "replicas"} \cup Thing}
=============================================================================
