------------------------- MODULE MCDesktopSessions -------------------------
(* Instances of DesktopSessions: two requests of one user.                 *)
EXTENDS DesktopSessions

CONSTANTS s1, s2, u1

MCOneUser == [s \in Session |-> u1]
=============================================================================
