------------------------------ MODULE Kvdictl ------------------------------
(***************************************************************************)
(* kvdictl at work on roles: each invocation logs in, fetches the role it  *)
(* is told to change, changes its copy, puts the whole copy back and logs  *)
(* out. Invocations of several people interleave between the requests, and *)
(* at the server between the Get and the Update of UpdateRole.             *)
(***************************************************************************)
EXTENDS Naturals, Sequences, SequencesExt

CONSTANTS Cli,       \* the places kvdictl runs
          Role, Rule, Key,   \* names of roles, rules that grant something, annotations
          Gone,      \* no such role, no rules given
          Idle,      \* kvdictl does not run
          MaxRuns, MaxNetFaults, MaxRules   \* bounds: invocations, faults, rules of a role

ASSUME KvdictlAssumption ==
    /\ {MaxRuns, MaxNetFaults, MaxRules} \subseteq Nat
    /\ Gone \notin Role /\ Idle \notin Role /\ Gone \notin Seq(Rule \cup {"empty"})

Empty == "empty"          \* the rule with no fields set
Flags == Rule \cup {Empty}   \* what the rule flags can say

VARIABLES roles,   \* the stored roles: rules, annotations and resource version
          cli,     \* the invocation of each place
          issued,  \* refresh tokens not revoked, one for each login
          made     \* invocations, writes and faults so far, the invocations that
                   \* failed, and those whose token a failed call has left

cliVars == <<roles, cli, issued, made>>

Op == {"create", "delete", "add", "remove", "set", "unset"}

CliInit ==
    /\ roles = [r \in Role |-> Gone]
    /\ cli = [c \in Cli |-> Idle]
    /\ issued = {}
    /\ made = [runs |-> 0, faults |-> 0, writes |-> 0, failed |-> {}, left |-> {}]

At(c, place) == cli[c] # Idle /\ cli[c].at = place
Goes(c, place) == cli' = [cli EXCEPT ![c].at = place]
Ends(c) == cli' = [cli EXCEPT ![c] = Idle]

(* A fault of the network, as long as there are some left. *)
Fault == made.faults < MaxNetFaults
Faulty == made' = [made EXCEPT !.faults = @ + 1]

(* A command that returns an error: PersistentPostRun is not called.       *)
Fails(c) == Ends(c) /\ made' = [made EXCEPT !.failed = @ \cup {cli[c].run}]
FailsFaulty(c) ==
    /\ Ends(c)
    /\ made' = [made EXCEPT !.faults = @ + 1, !.failed = @ \cup {cli[c].run}]

-----------------------------------------------------------------------------
(* The command line, and New, which authenticates: the server stores a     *)
(* refresh token. The deletion of roles takes several names.               *)
First(op) == CASE op = "create" -> "create" [] op = "delete" -> "delete" [] OTHER -> "fetch"

Run(c) ==
    \E op \in Op, names \in {<<r>> : r \in Role} \cup {<<r, s>> : r \in Role, s \in Role},
       rule \in Flags, key \in Key :
        /\ cli[c] = Idle /\ made.runs < MaxRuns
        /\ op = "delete" \/ Len(names) = 1
        /\ op \in {"create", "add", "remove"} \/ rule = Empty
        /\ op \in {"set", "unset"} \/ key = CHOOSE k \in Key : TRUE
        /\ cli' = [cli EXCEPT ![c] =
             [op |-> op, names |-> names, rule |-> rule, key |-> key, run |-> made.runs + 1,
              at |-> First(op), seen |-> Gone, sent |-> Gone, got |-> 0]]
        /\ made' = [made EXCEPT !.runs = @ + 1]
        /\ issued' = issued \cup {made.runs + 1}
        /\ UNCHANGED roles

(* The password is wrong, or the answer to the login is lost: clientErr    *)
(* stops the command before it runs.                                       *)
LoginFails(c) ==
    /\ cli[c] = Idle /\ made.runs < MaxRuns /\ Fault
    /\ \E stored \in BOOLEAN : issued' = IF stored THEN issued \cup {made.runs + 1} ELSE issued
    /\ made' = [made EXCEPT !.runs = @ + 1, !.faults = @ + 1, !.failed = @ \cup {made.runs + 1}]
    /\ UNCHANGED <<roles, cli>>

-----------------------------------------------------------------------------
(* The requests. A role without rules or annotations travels without the   *)
(* field, so the copy that is put back says Gone for its rules, unless the *)
(* command made the list anew.                                             *)
Copied(rules) == IF rules = <<>> THEN Gone ELSE rules

(* The rules that are not the one to be removed, one after the other.      *)
Without(rules, rule) ==
    LET kept[i \in 0..Len(rules)] ==
          IF i = 0 THEN <<>>
          ELSE IF rules[i] = rule THEN kept[i - 1] ELSE Append(kept[i - 1], rules[i])
    IN  kept[Len(rules)]

(* Broken Changed: annotating a role puts back the annotations alone. *)
ChangedNotes(role, cmd) ==
    CASE cmd.op = "add" -> [rules |-> Append(role.rules, cmd.rule), notes |-> role.notes]
      [] cmd.op = "remove" -> [rules |-> Without(role.rules, cmd.rule), notes |-> role.notes]
      [] cmd.op = "set" -> [rules |-> Gone, notes |-> role.notes \cup {cmd.key}]
      [] cmd.op = "unset" -> [rules |-> Copied(role.rules), notes |-> role.notes \ {cmd.key}]

(* What each command makes of the role it fetched; add appends to it. *)
Changed(role, cmd) ==
    CASE cmd.op = "add" -> [rules |-> Append(role.rules, cmd.rule), notes |-> role.notes]
      [] cmd.op = "remove" -> [rules |-> Without(role.rules, cmd.rule), notes |-> role.notes]
      [] cmd.op = "set" -> [rules |-> Copied(role.rules), notes |-> role.notes \cup {cmd.key}]
      [] cmd.op = "unset" -> [rules |-> Copied(role.rules), notes |-> role.notes \ {cmd.key}]

(* There is something to change: a rule to add, one to remove, a note.     *)
Applies(role, cmd) ==
    CASE cmd.op = "remove" -> Contains(role.rules, cmd.rule)
      [] cmd.op = "unset" -> cmd.key \in role.notes
      [] OTHER -> TRUE

(* roles rules add checks its flags before it asks for the role. *)
AddNothing(c) ==
    /\ At(c, "fetch") /\ cli[c].op = "add" /\ cli[c].rule = Empty
    /\ Fails(c)
    /\ UNCHANGED <<roles, issued>>

Fetch(c) ==
    LET role == roles[cli[c].names[1]] IN
    /\ At(c, "fetch") /\ ~(cli[c].op = "add" /\ cli[c].rule = Empty)
    /\ IF role = Gone \/ ~Applies(role, cli[c])
         THEN Fails(c)
         ELSE /\ cli' = [cli EXCEPT ![c].seen = role, ![c].at = "put",
                                    ![c].sent = Changed(role, cli[c])]
              /\ UNCHANGED made
    /\ UNCHANGED <<roles, issued>>

(* No rules at all become one rule that grants nothing (GetRules).         *)
GetRules(rules) == IF rules = Gone THEN <<Empty>> ELSE rules

(* A write of the role called name, unless ok is FALSE: the resource       *)
(* version is a new one. A lost answer makes the command fail all the same.*)
Store(c, name, ok, role) ==
    /\ roles' = IF ok THEN [roles EXCEPT ![name] = role] ELSE roles
    /\ \/ ok /\ Goes(c, "close") /\ made' = [made EXCEPT !.writes = @ + 1]
       \/ ~ok /\ Fails(c)
       \/ /\ Fault /\ ok
          /\ Ends(c)
          /\ made' = [made EXCEPT !.writes = @ + 1, !.faults = @ + 1, !.failed = @ \cup {cli[c].run}]
    /\ UNCHANGED issued

(* UpdateRole: the Get, then the Update of what the Get returned, which    *)
(* conflicts with any write in between.                                    *)
PutGet(c) ==
    LET role == roles[cli[c].names[1]] IN
    /\ At(c, "put")
    /\ IF role = Gone THEN Fails(c)
       ELSE cli' = [cli EXCEPT ![c].got = role.version, ![c].at = "update"] /\ UNCHANGED made
    /\ UNCHANGED <<roles, issued>>

PutUpdate(c) ==
    LET name == cli[c].names[1]
        same == roles[name] # Gone /\ roles[name].version = cli[c].got
        rules == GetRules(cli[c].sent.rules)
    IN
    /\ At(c, "update") /\ Len(rules) <= MaxRules
    /\ Store(c, name, same, [rules |-> rules, notes |-> cli[c].sent.notes,
                             version |-> made.writes + 1])

(* CreateRole. *)
Create(c) ==
    LET name == cli[c].names[1] IN
    /\ At(c, "create")
    /\ Store(c, name, roles[name] = Gone,
             [rules |-> GetRules(<<cli[c].rule>>), notes |-> {}, version |-> made.writes + 1])

(* DeleteRole of the next name; the first error ends the command. *)
Delete(c) ==
    LET name == Head(cli[c].names)
        found == roles[name] # Gone
        left == Tail(cli[c].names)
    IN
    /\ At(c, "delete")
    /\ roles' = [roles EXCEPT ![name] = Gone]
    /\ \/ /\ found
          /\ cli' = [cli EXCEPT ![c].names = left, ![c].at = IF left = <<>> THEN "close" ELSE "delete"]
          /\ UNCHANGED made
       \/ ~found /\ Fails(c)
       \/ Fault /\ found /\ FailsFaulty(c)
    /\ UNCHANGED issued

-----------------------------------------------------------------------------
(* Broken Close: the client closes its connections and posts nothing.      *)
CloseQuietly(c) ==
    /\ At(c, "close")
    /\ Ends(c)
    /\ UNCHANGED <<roles, issued, made>>

(* PersistentPostRun: Close posts to logout, which revokes the refresh     *)
(* token.                                                                  *)
Close(c) ==
    /\ At(c, "close")
    /\ Ends(c)
    /\ issued' = issued \ {cli[c].run}
    /\ UNCHANGED <<roles, made>>

(* The post is lost, which the client logs, or the server cannot revoke    *)
(* the token, which it logs before it answers that all is well. In either  *)
(* case the command has succeeded.                                         *)
CloseFails(c) ==
    /\ At(c, "close") /\ Fault
    /\ Ends(c)
    /\ made' = [made EXCEPT !.faults = @ + 1, !.left = @ \cup {cli[c].run}]
    /\ UNCHANGED <<roles, issued>>

CliNext ==
    \E c \in Cli : \/ Run(c) \/ LoginFails(c) \/ AddNothing(c) \/ Fetch(c) \/ PutGet(c)
                   \/ PutUpdate(c) \/ Create(c) \/ Delete(c) \/ Close(c) \/ CloseFails(c)

CliSpec == CliInit /\ [][CliNext]_cliVars

-----------------------------------------------------------------------------
Granting(rules) == {rules[i] : i \in DOMAIN rules} \ {Empty}

(* A command that changes a role changes what it was asked to and nothing  *)
(* else: the other rules that grant something and the other annotations    *)
(* are there after it as before, although the whole role is put back and   *)
(* every list missing from the request is overwritten. It does not hold of *)
(* a command that fetched the role before somebody else's change was       *)
(* written: that change is undone, and only that excuses it.               *)
EditsKeepTheRest ==
    [][\A c \in Cli : \A r \in Role :
         LET cmd == cli[c]
             old == roles[r]
             new == roles'[r]
         IN At(c, "update") /\ cli'[c] # cmd /\ new # old /\ cmd.seen = old =>
              /\ Granting(new.rules) =
                   CASE cmd.op = "add" -> Granting(old.rules) \cup {cmd.rule}
                     [] cmd.op = "remove" -> Granting(old.rules) \ {cmd.rule}
                     [] OTHER -> Granting(old.rules)
              /\ new.notes = CASE cmd.op = "set" -> old.notes \cup {cmd.key}
                               [] cmd.op = "unset" -> old.notes \ {cmd.key}
                               [] OTHER -> old.notes]_cliVars

(* The refresh token of a login is revoked when its command has ended. It  *)
(* stays valid in the table for good, which PersistentPostRun is there to  *)
(* prevent, in two cases: the command failed, so that the hook did not     *)
(* run, or the logout or the revocation behind it did, which is logged and *)
(* neither the command nor, of the latter, the client learns of.           *)
TokensRevoked ==
    \A k \in issued : k \in made.failed \cup made.left \/ \E c \in Cli : cli[c] # Idle /\ cli[c].run = k
=============================================================================
