------------------------------ MODULE MFATable ------------------------------
(***************************************************************************)
(* The table of one-time-password secrets that pkg/auth/mfa/mfa.go keeps   *)
(* in one secret: a line for each user, found by what it begins with.      *)
(***************************************************************************)
EXTENDS Naturals, Sequences

CONSTANTS User,
          BeginsWith   \* the users whose names the name of a user begins with

ASSUME MFATableAssumption ==
    /\ BeginsWith \in [User -> SUBSET User]
    /\ \A u \in User : u \in BeginsWith[u]
    /\ \A u \in User : \A v \in BeginsWith[u] : BeginsWith[v] \subseteq BeginsWith[u]

Row(u, s, v) == [name |-> u, secret |-> s, verified |-> v]

(* Broken Matches: a shorter name is taken for the user, too.              *)
MatchesEither(row, u) == u \in BeginsWith[row.name] \/ row.name \in BeginsWith[u]

(* strings.HasPrefix of the line and the name. *)
Matches(row, u) == u \in BeginsWith[row.name]
Hits(rows, u) == {i \in DOMAIN rows : Matches(rows[i], u)}

(* GetUserMFAStatus, of a user that is found: the first line that matches. *)
Found(rows, u) == Hits(rows, u) # {}
StatusOf(rows, u) == rows[CHOOSE i \in Hits(rows, u) : \A j \in Hits(rows, u) : i <= j]

(* Broken SetStatus: the new line goes to the end.                         *)
SetStatusAppends(rows, u, s, v) == Append(rows, Row(u, s, v))

(* SetUserMFAStatus: every line that matches is replaced. *)
SetStatus(rows, u, s, v) ==
    IF Found(rows, u)
      THEN [i \in DOMAIN rows |-> IF i \in Hits(rows, u) THEN Row(u, s, v) ELSE rows[i]]
      ELSE Append(rows, Row(u, s, v))

(* DeleteUserSecret: what is kept of the first lines, up to the last.      *)
DeleteRows(rows, u) ==
    LET kept[i \in 0..Len(rows)] ==
          IF i = 0 THEN <<>>
          ELSE IF Matches(rows[i], u) THEN kept[i - 1] ELSE Append(kept[i - 1], rows[i])
    IN  kept[Len(rows)]
=============================================================================
