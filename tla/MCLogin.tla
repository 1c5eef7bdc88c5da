------------------------------ MODULE MCLogin ------------------------------
(* An instance of Login: a browser with two tabs, and two users of whom    *)
(* one's name begins with the other's.                                     *)
EXTENDS Login, TLC

CONSTANTS b1, tab1, tab2, al, alice

MCBrowserOf == [t \in Tab |-> b1]
MCBeginsWith == [u \in User |-> IF u = alice THEN {al, alice} ELSE {al}]

MCSymmetry == Permutations({tab1, tab2})
=============================================================================
