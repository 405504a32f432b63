---------------------------------- MODULE Seed ----------------------------------
(***************************************************************************)
(* authseed apply and teardown (internal/identity/seed.go) against the     *)
(* cluster they connect to and the state file authload later reads.        *)
(*                                                                         *)
(* One command runs at a time; it can fail or be killed between any two    *)
(* RPCs, and an RPC can take effect without its answer arriving.  A        *)
(* credential (password and second factor together, they are set by one    *)
(* call) is the number of the command that generated it.                   *)
(***************************************************************************)
EXTENDS Integers, Sequences

CONSTANTS
  Clusters, Required,   \* clusters a config can point to; the guardrail's one
  UserCounts,           \* values of fixtures.userCount
  Others,               \* users without the fixtures' prefix
  MaxCommands           \* bound: commands in all

ASSUME SeedAssumption ==
  /\ Required \in Clusters
  /\ UserCounts \subseteq Nat \ {0}
  /\ \A o \in Others : o[1] # "prefix"
  /\ MaxCommands \in Nat

VARIABLES
  cred,      \* per cluster and name: the user's credential
  roles,     \* clusters in which fixtures.roles exist
  file,      \* fixtures.statePath: [st, users]
  cmd,       \* the command running
  count,     \* commands started
  last       \* how the latest command ended

vars == <<cred, roles, file, cmd, count, last>>

\* The i-th fixture's name, fixtures.userPrefix followed by i - 1.
User(i) == <<"prefix", i>>
Index == UNION {1..n : n \in UserCounts}
Names == {User(i) : i \in Index} \cup Others
HasPrefix(name) == name[1] = "prefix"

Absent == -1
NoCredential == 0      \* created, no password set; also what Others have

NoCommand == [op |-> "none", pc |-> "done", cluster |-> Required, n |-> 0,
              users |-> <<>>, todo |-> {}]

Init ==
  /\ cred = [c \in Clusters |-> [u \in Names |-> IF u \in Others THEN NoCredential
                                                                 ELSE Absent]]
  /\ roles = {}
  /\ file = [st |-> "none", users |-> <<>>]
  /\ cmd = NoCommand
  /\ count = 0
  /\ last = [op |-> "none", ok |-> TRUE, n |-> 0]

At(op, pc) == cmd.op = op /\ cmd.pc = pc

GoTo(pc) == cmd' = [cmd EXCEPT !.pc = pc]

End(ok) ==
  /\ cmd' = NoCommand
  /\ last' = [op |-> cmd.op, ok |-> ok, n |-> cmd.n]

StartCommand(op, c, n) ==
  /\ cmd.op = "none" /\ count < MaxCommands
  /\ cmd' = [NoCommand EXCEPT !.op = op, !.pc = "check", !.cluster = c, !.n = n]
  /\ count' = count + 1
  /\ last' = [op |-> op, ok |-> FALSE, n |-> n]
  /\ UNCHANGED <<cred, roles, file>>

\* The guardrail looks at nothing.
MutCheckCluster ==
  /\ cmd.pc = "check"
  /\ GoTo(IF cmd.op = "apply" THEN "roles" ELSE "list")
  /\ UNCHANGED <<cred, roles, file, count, last>>

\* CheckLiveClusterName, before anything else.
CheckCluster ==
  /\ cmd.pc = "check" /\ cmd.cluster = Required
  /\ GoTo(IF cmd.op = "apply" THEN "roles" ELSE "list")
  /\ UNCHANGED <<cred, roles, file, count, last>>

\* A refusal, an error of any call, or the end of the process.  Both commands
\* give up at the first error and undo nothing.
Fail ==
  /\ cmd.op # "none"
  /\ End(FALSE)
  /\ UNCHANGED <<cred, roles, file, count>>

-------------------------------------------------------------------------------
(* apply.  The user at hand is the one after those in cmd.users.           *)

UpsertRoles ==
  /\ At("apply", "roles")
  /\ roles' = roles \cup {cmd.cluster}
  /\ GoTo("user")
  /\ UNCHANGED <<cred, file, count, last>>

Current == User(Len(cmd.users) + 1)

\* One user too many.
MutUpsertUser ==
  /\ At("apply", "user")
  /\ cred' = [cred EXCEPT ![cmd.cluster][Current] = IF @ = Absent THEN NoCredential ELSE @]
  /\ GoTo("change")
  /\ UNCHANGED <<roles, file, count, last>>

\* UpsertUser leaves an existing user's credential alone.
UpsertUser ==
  /\ At("apply", "user") /\ Len(cmd.users) < cmd.n
  /\ cred' = [cred EXCEPT ![cmd.cluster][Current] = IF @ = Absent THEN NoCredential ELSE @]
  /\ GoTo("change")
  /\ UNCHANGED <<roles, file, count, last>>

\* Users that have a credential keep it.
MutChangeUserAuthentication ==
  /\ At("apply", "change")
  /\ cred' = [cred EXCEPT ![cmd.cluster][Current] = IF @ = NoCredential THEN count ELSE @]
  /\ cmd' = [cmd EXCEPT !.pc = "user", !.users = Append(@, count)]
  /\ UNCHANGED <<roles, file, count, last>>

\* The ceremony: reset token, device registration, then both are set at once.
ChangeUserAuthentication ==
  /\ At("apply", "change")
  /\ cred' = [cred EXCEPT ![cmd.cluster][Current] = count]
  /\ cmd' = [cmd EXCEPT !.pc = "user", !.users = Append(@, count)]
  /\ UNCHANGED <<roles, file, count, last>>

\* The file is written user by user, as the ceremony starts.
MutTruncateFile ==
  /\ At("apply", "user") /\ Len(cmd.users) < cmd.n
  /\ file' = [st |-> "full", users |-> Append(cmd.users, count)]
  /\ UNCHANGED <<cred, roles, cmd, count, last>>

\* SaveFixtureState, once every user is done: os.WriteFile truncates ...
TruncateFile ==
  /\ At("apply", "user") /\ Len(cmd.users) = cmd.n
  /\ file' = [st |-> "partial", users |-> <<>>]
  /\ GoTo("write")
  /\ UNCHANGED <<cred, roles, count, last>>

\* ... and fills the file.
WriteFile ==
  /\ At("apply", "write")
  /\ file' = [st |-> "full", users |-> cmd.users]
  /\ End(TRUE)
  /\ UNCHANGED <<cred, roles, count>>

-------------------------------------------------------------------------------
(* teardown.                                                               *)

\* The listing is not filtered.
MutListUsers ==
  /\ At("teardown", "list")
  /\ cmd' = [cmd EXCEPT !.pc = "delete",
                        !.todo = {u \in Names : cred[cmd.cluster][u] # Absent}]
  /\ UNCHANGED <<cred, roles, file, count, last>>

ListUsers ==
  /\ At("teardown", "list")
  /\ cmd' = [cmd EXCEPT !.pc = "delete",
                        !.todo = {u \in Names : cred[cmd.cluster][u] # Absent /\ HasPrefix(u)}]
  /\ UNCHANGED <<cred, roles, file, count, last>>

\* A user that cannot be deleted is skipped.
MutDeleteUser(u) ==
  /\ At("teardown", "delete") /\ u \in cmd.todo
  /\ cmd' = [cmd EXCEPT !.todo = @ \ {u}]
  /\ \/ cred' = [cred EXCEPT ![cmd.cluster][u] = Absent]
     \/ UNCHANGED cred
  /\ UNCHANGED <<roles, file, count, last>>

DeleteUser(u) ==
  /\ At("teardown", "delete") /\ u \in cmd.todo
  /\ cmd' = [cmd EXCEPT !.todo = @ \ {u}]
  /\ cred' = [cred EXCEPT ![cmd.cluster][u] = Absent]
  /\ UNCHANGED <<roles, file, count, last>>

Deleted ==
  /\ At("teardown", "delete") /\ cmd.todo = {}
  /\ End(TRUE)
  /\ UNCHANGED <<cred, roles, file, count>>

\* The call took effect; its answer was lost.
Unanswered ==
  /\ \/ /\ At("apply", "change")
        /\ cred' = [cred EXCEPT ![cmd.cluster][Current] = count]
     \/ \E u \in cmd.todo : cred' = [cred EXCEPT ![cmd.cluster][u] = Absent]
  /\ End(FALSE)
  /\ UNCHANGED <<roles, file, count>>

Next ==
  \/ \E c \in Clusters : \E n \in UserCounts : StartCommand("apply", c, n)
  \/ \E c \in Clusters : StartCommand("teardown", c, 0)
  \/ CheckCluster \/ Fail \/ Unanswered
  \/ UpsertRoles \/ UpsertUser \/ ChangeUserAuthentication \/ TruncateFile \/ WriteFile
  \/ ListUsers \/ (\E u \in Names : DeleteUser(u)) \/ Deleted

Spec == Init /\ [][Next]_vars

-------------------------------------------------------------------------------

Credentials == {Absent} \cup 0..MaxCommands

CommandRecord ==
  [op : {"none", "apply", "teardown"},
   pc : {"done", "check", "roles", "user", "change", "write", "list", "delete"},
   cluster : Clusters, n : Nat, users : Seq(1..MaxCommands), todo : SUBSET Names]

TypeOK ==
  /\ cred \in [Clusters -> [Names -> Credentials]]
  /\ roles \subseteq Clusters
  /\ file \in [st : {"none", "partial", "full"}, users : Seq(1..MaxCommands)]
  /\ cmd \in CommandRecord /\ Len(cmd.users) <= cmd.n
  /\ count \in 0..MaxCommands
  /\ last \in [op : {"none", "apply", "teardown"}, ok : BOOLEAN, n : Nat]

\* After an apply that reported success, whatever failed before it, authload
\* finds the configured number of users in the file, each with the credential
\* the cluster has.
AppliedIsUsable ==
  last.op = "apply" /\ last.ok =>
    /\ file.st = "full" /\ Len(file.users) = last.n
    /\ \A i \in DOMAIN file.users : cred[Required][User(i)] = file.users[i]
    /\ Required \in roles

\* The file is never ahead of the cluster: a credential in it was set there,
\* and is still valid unless a later command replaced or deleted it.
FileNeverAhead ==
  \A i \in DOMAIN file.users :
    LET c == cred[Required][User(i)]
    IN  c \in {Absent, NoCredential} \/ c >= file.users[i]

\* A teardown that reported success left no fixture user, however many of an
\* earlier, larger or half-done apply there were.
TornDownIsClean ==
  last.op = "teardown" /\ last.ok => \A i \in Index : cred[Required][User(i)] = Absent

\* Only the fixtures of the required cluster are ever touched.
OthersUntouched ==
  \A c \in Clusters, u \in Names :
    (c # Required \/ u \in Others) => cred[c][u] = IF u \in Others THEN NoCredential ELSE Absent

================================================================================
