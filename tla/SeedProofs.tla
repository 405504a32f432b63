------------------------------- MODULE SeedProofs -------------------------------
(***************************************************************************)
(* Proofs about Seed, for every number of users, clusters and commands.    *)
(*                                                                         *)
(* The inductive invariant says how far the running command has got: the   *)
(* users it has done have its credential in the cluster, the users still   *)
(* to delete include every fixture left.                                   *)
(***************************************************************************)
EXTENDS Seed, TLAPS

ApplyPlaces == {"check", "roles", "user", "change", "write"}
TeardownPlaces == {"check", "list", "delete"}

\* Only a command that passed the guardrail gets beyond it.
Guarded ==
  /\ cmd.op = "none" <=> cmd.pc = "done"
  /\ cmd.op = "apply" => cmd.pc \in ApplyPlaces /\ cmd.n \in UserCounts
  /\ cmd.op = "teardown" => cmd.pc \in TeardownPlaces
  /\ cmd.pc \notin {"done", "check"} => cmd.cluster = Required
  /\ cmd.op # "none" => ~last.ok

ApplyProgress ==
  /\ cmd.pc \in {"user", "change", "write"} => Required \in roles
  /\ cmd.pc \notin {"user", "change", "write"} => cmd.users = <<>>
  /\ cmd.pc = "change" => Len(cmd.users) < cmd.n
  /\ cmd.pc = "write" => Len(cmd.users) = cmd.n
  /\ \A i \in DOMAIN cmd.users : cmd.users[i] = count /\ cred[Required][User(i)] = count

TeardownProgress ==
  /\ cmd.pc = "delete" =>
       \A i \in Index : cred[Required][User(i)] # Absent => User(i) \in cmd.todo
  /\ cmd.todo \cap Others = {}
  /\ cmd.pc # "delete" => cmd.todo = {}

CountBounds ==
  /\ \A i \in DOMAIN file.users : file.users[i] <= count
  /\ cmd.op # "none" => count > 0
  /\ DOMAIN cmd.users \subseteq Index
  /\ DOMAIN file.users \subseteq Index

IInv ==
  /\ TypeOK
  /\ Guarded
  /\ ApplyProgress
  /\ TeardownProgress
  /\ CountBounds
  /\ AppliedIsUsable
  /\ FileNeverAhead
  /\ TornDownIsClean
  /\ OthersUntouched

-------------------------------------------------------------------------------
(* Names, and updating one user of one cluster.                            *)

LEMMA FixtureNames ==
  /\ Index \subseteq Nat \ {0}
  /\ \A i \in Index : User(i) \in Names /\ User(i) \notin Others /\ HasPrefix(User(i))
  /\ \A i, j \in Index : User(i) = User(j) => i = j
  /\ \A u \in Names : u \in Others \/ \E i \in Index : u = User(i)
  /\ \A u \in Others : ~HasPrefix(u)
  /\ \A n \in UserCounts : n \in Nat /\ 1..n \subseteq Index
<1>1. \A i : User(i)[1] = "prefix" /\ User(i)[2] = i
  BY DEF User
<1>2. Index \subseteq Nat \ {0} /\ \A n \in UserCounts : n \in Nat /\ 1..n \subseteq Index
  BY SeedAssumption DEF Index
<1>3. \A u \in Others : u[1] # "prefix"
  BY SeedAssumption
<1>4. \A i \in Index : User(i) \in Names
  BY DEF Names
<1>5. \A u \in Names : u \in Others \/ \E i \in Index : u = User(i)
  BY DEF Names
<1> QED BY <1>1, <1>2, <1>3, <1>4, <1>5 DEF HasPrefix

LEMMA CredUpdate ==
  ASSUME NEW f \in [Clusters -> [Names -> Credentials]], NEW u \in Names, NEW v \in Credentials
  PROVE  /\ [f EXCEPT ![Required][u] = v] \in [Clusters -> [Names -> Credentials]]
         /\ [f EXCEPT ![Required][u] = v][Required][u] = v
         /\ \A c \in Clusters, w \in Names :
              c # Required \/ w # u => [f EXCEPT ![Required][u] = v][c][w] = f[c][w]
  BY SeedAssumption

LEMMA CredentialValues ==
  /\ Absent \in Credentials /\ NoCredential \in Credentials /\ 0..MaxCommands \subseteq Credentials
  /\ Absent = -1 /\ NoCredential = 0
  BY SeedAssumption DEF Absent, NoCredential, Credentials

LEMMA InitIInv == Init => IInv
<1> SUFFICES ASSUME Init PROVE IInv
  OBVIOUS
<1>1. TypeOK
  BY SeedAssumption, CredentialValues DEF Init, TypeOK, CommandRecord, NoCommand
<1>2. Guarded /\ ApplyProgress /\ TeardownProgress /\ CountBounds
  BY DEF Init, NoCommand, Guarded, ApplyProgress, TeardownProgress, CountBounds
<1>3. AppliedIsUsable /\ FileNeverAhead /\ TornDownIsClean
  BY DEF Init, AppliedIsUsable, FileNeverAhead, TornDownIsClean
<1>4. OthersUntouched
  BY DEF Init, OthersUntouched
<1> QED BY <1>1, <1>2, <1>3, <1>4 DEF IInv

-------------------------------------------------------------------------------
(* The steps, first those that touch neither the cluster nor the file.     *)

LEMMA StartIInv ==
  ASSUME IInv, NEW op \in {"apply", "teardown"}, NEW c \in Clusters, NEW n \in Nat,
         op = "apply" => n \in UserCounts, StartCommand(op, c, n)
  PROVE  IInv'
<1> USE DEF IInv
<1>1. /\ cmd' = [op |-> op, pc |-> "check", cluster |-> c, n |-> n,
                 users |-> <<>>, todo |-> {}]
      /\ last' = [op |-> op, ok |-> FALSE, n |-> n]
      /\ count < MaxCommands /\ count' = count + 1
      /\ UNCHANGED <<cred, roles, file>>
  BY DEF StartCommand, NoCommand
<1>2. TypeOK'
  BY <1>1, SeedAssumption DEF TypeOK, CommandRecord
<1>3. Guarded' /\ ApplyProgress' /\ TeardownProgress'
  BY <1>1 DEF Guarded, ApplyProgress, TeardownProgress, ApplyPlaces, TeardownPlaces
<1>4. CountBounds'
  <2>1. \A i \in DOMAIN file.users : file.users[i] \in Nat
    <3>1. file.users \in Seq(1..MaxCommands)
      BY DEF TypeOK
    <3> QED BY <3>1, SeedAssumption
  <2> QED BY <1>1, <2>1 DEF CountBounds, TypeOK
<1>5. AppliedIsUsable' /\ FileNeverAhead' /\ TornDownIsClean' /\ OthersUntouched'
  BY <1>1 DEF AppliedIsUsable, FileNeverAhead, TornDownIsClean, OthersUntouched
<1> QED BY <1>2, <1>3, <1>4, <1>5

LEMMA NoCommandFacts ==
  /\ NoCommand \in CommandRecord /\ NoCommand.op = "none" /\ NoCommand.pc = "done"
  /\ NoCommand.users = <<>> /\ NoCommand.todo = {} /\ NoCommand.n = 0
  BY SeedAssumption DEF NoCommand, CommandRecord

LEMMA FailIInv ==
  ASSUME IInv, Fail
  PROVE  IInv'
<1> USE DEF IInv
<1>1. /\ cmd' = NoCommand /\ last' = [op |-> cmd.op, ok |-> FALSE, n |-> cmd.n]
      /\ UNCHANGED <<cred, roles, file, count>>
  BY DEF Fail, End
<1>2. TypeOK'
  BY <1>1, NoCommandFacts DEF TypeOK, CommandRecord
<1>3. Guarded' /\ ApplyProgress' /\ TeardownProgress' /\ CountBounds'
  BY <1>1, NoCommandFacts DEF Guarded, ApplyProgress, TeardownProgress, CountBounds
<1>4. AppliedIsUsable' /\ FileNeverAhead' /\ TornDownIsClean' /\ OthersUntouched'
  BY <1>1 DEF AppliedIsUsable, FileNeverAhead, TornDownIsClean, OthersUntouched
<1> QED BY <1>2, <1>3, <1>4

LEMMA ControlIInv ==
  ASSUME IInv, CheckCluster \/ UpsertRoles
  PROVE  IInv'
<1> USE DEF IInv
<1>1. /\ UNCHANGED <<cred, file, count, last>> /\ roles \subseteq roles'
      /\ cmd.cluster = Required /\ cmd.users = <<>> /\ cmd.todo = {}
      /\ \/ cmd.pc = "check" /\ cmd.op = "apply" /\ cmd' = [cmd EXCEPT !.pc = "roles"]
         \/ cmd.pc = "check" /\ cmd.op = "teardown" /\ cmd' = [cmd EXCEPT !.pc = "list"]
         \/ /\ cmd.pc = "roles" /\ cmd.op = "apply" /\ cmd' = [cmd EXCEPT !.pc = "user"]
            /\ roles' = roles \cup {Required}
  <2>1. cmd \in CommandRecord
    BY DEF TypeOK
  <2> QED BY <2>1 DEF CheckCluster, UpsertRoles, At, GoTo, Guarded, ApplyProgress,
                      TeardownProgress, CommandRecord
<1>2. cmd' \in CommandRecord /\ cmd'.users = <<>> /\ cmd'.n = cmd.n /\ cmd'.todo = {}
  BY <1>1 DEF TypeOK, CommandRecord
<1>3. roles' \subseteq Clusters
  BY <1>1, SeedAssumption DEF CheckCluster, UpsertRoles, TypeOK
<1>4. TypeOK'
  BY <1>1, <1>2, <1>3 DEF TypeOK
<1>5. cmd'.op = cmd.op /\ cmd'.cluster = Required /\ cmd'.pc \in {"roles", "list", "user"}
      /\ (cmd.op = "apply" => cmd'.pc \in {"roles", "user"})
      /\ (cmd.op = "teardown" => cmd'.pc = "list")
      /\ cmd.op \in {"apply", "teardown"}
      /\ (cmd'.pc = "user" => Required \in roles')
  BY <1>1 DEF TypeOK, CommandRecord
<1>6. Guarded' /\ ApplyProgress' /\ TeardownProgress' /\ CountBounds'
  BY <1>1, <1>2, <1>5 DEF Guarded, ApplyProgress, TeardownProgress, CountBounds,
                          ApplyPlaces, TeardownPlaces
<1>7. AppliedIsUsable' /\ FileNeverAhead' /\ TornDownIsClean' /\ OthersUntouched'
  BY <1>1 DEF AppliedIsUsable, FileNeverAhead, TornDownIsClean, OthersUntouched
<1> QED BY <1>4, <1>6, <1>7

-------------------------------------------------------------------------------
(* apply's steps.                                                          *)

\* The user at hand while there is one left.
LEMMA CurrentUser ==
  ASSUME IInv, cmd.op = "apply", cmd.pc \in {"user", "change"}, Len(cmd.users) < cmd.n
  PROVE  /\ Len(cmd.users) + 1 \in Index /\ Current \in Names /\ Current \notin Others
         /\ \A i \in DOMAIN cmd.users : User(i) # Current /\ User(i) \in Names
         /\ cmd.cluster = Required /\ Required \in roles /\ last.ok = FALSE
         /\ count \in 1..MaxCommands /\ count \in Credentials
         /\ cmd \in CommandRecord /\ cmd.todo = {}
<1> USE DEF IInv
<1>1. cmd \in CommandRecord /\ cmd.n \in UserCounts /\ cmd.n \in Nat
  BY DEF TypeOK, Guarded, CommandRecord
<1>2. Len(cmd.users) \in Nat /\ DOMAIN cmd.users = 1..Len(cmd.users)
  BY <1>1 DEF CommandRecord
<1>3. Len(cmd.users) + 1 \in Index
  BY <1>1, <1>2, FixtureNames
<1>4. Current = User(Len(cmd.users) + 1)
  BY DEF Current
<1>5. \A i \in DOMAIN cmd.users : i \in Index /\ i # Len(cmd.users) + 1
  BY <1>2 DEF CountBounds
<1>6. count \in 1..MaxCommands /\ last.ok = FALSE
  BY DEF CountBounds, TypeOK, Guarded
<1> QED BY <1>1, <1>3, <1>4, <1>5, <1>6, FixtureNames, CredentialValues
        DEF Guarded, ApplyProgress, TeardownProgress

\* What giving the user at hand a value leaves true, if it is no older than the file's.
LEMMA CurrentUpdate ==
  ASSUME IInv, cmd.op = "apply", cmd.pc \in {"user", "change"}, Len(cmd.users) < cmd.n,
         NEW v \in Credentials, v = count \/ v = NoCredential \/ v = cred[Required][Current],
         cred' = [cred EXCEPT ![Required][Current] = v]
  PROVE  /\ cred' \in [Clusters -> [Names -> Credentials]]
         /\ cred'[Required][Current] = v
         /\ \A i \in DOMAIN cmd.users : cred'[Required][User(i)] = count
         /\ \A i \in DOMAIN file.users :
              LET c == cred'[Required][User(i)]
              IN  c \in {Absent, NoCredential} \/ c >= file.users[i]
         /\ \A c \in Clusters, u \in Names :
              (c # Required \/ u \in Others) =>
                cred'[c][u] = IF u \in Others THEN NoCredential ELSE Absent
<1>1. /\ cred' \in [Clusters -> [Names -> Credentials]]
      /\ cred'[Required][Current] = v
      /\ \A c \in Clusters, w \in Names : c # Required \/ w # Current => cred'[c][w] = cred[c][w]
  <2>1. cred \in [Clusters -> [Names -> Credentials]]
    BY DEF IInv, TypeOK
  <2>2. Current \in Names
    BY CurrentUser
  <2> QED BY <2>1, <2>2, CredUpdate
<1>2. \A i \in DOMAIN cmd.users : cred'[Required][User(i)] = count
  BY <1>1, CurrentUser, SeedAssumption DEF IInv, ApplyProgress
<1>3. ASSUME NEW i \in DOMAIN file.users
      PROVE  LET c == cred'[Required][User(i)]
             IN  c \in {Absent, NoCredential} \/ c >= file.users[i]
  <2>1. User(i) \in Names /\ file.users[i] <= count
    BY FixtureNames DEF IInv, CountBounds
  <2>2. CASE User(i) = Current
    BY <2>1, <2>2, <1>1 DEF IInv, FileNeverAhead
  <2>3. CASE User(i) # Current
    BY <2>1, <2>3, <1>1, SeedAssumption DEF IInv, FileNeverAhead
  <2> QED BY <2>2, <2>3
<1>4. \A c \in Clusters, u \in Names :
        (c # Required \/ u \in Others) =>
          cred'[c][u] = IF u \in Others THEN NoCredential ELSE Absent
  BY <1>1, CurrentUser DEF IInv, OthersUntouched
<1> QED BY <1>1, <1>2, <1>3, <1>4

LEMMA UpsertUserIInv ==
  ASSUME IInv, UpsertUser
  PROVE  IInv'
<1> DEFINE v == IF cred[Required][Current] = Absent THEN NoCredential ELSE cred[Required][Current]
<1>1. cmd.op = "apply" /\ cmd.pc = "user" /\ Len(cmd.users) < cmd.n
  BY DEF UpsertUser, At
<1>2. /\ cmd' = [cmd EXCEPT !.pc = "change"] /\ UNCHANGED <<roles, file, count, last>>
      /\ cred' = [cred EXCEPT ![Required][Current] = v]
      /\ v \in Credentials /\ (v = NoCredential \/ v = cred[Required][Current])
  <2>1. cmd.cluster = Required /\ Current \in Names
    BY <1>1, CurrentUser
  <2>2. cred[Required][Current] \in Credentials
    BY <2>1, SeedAssumption DEF IInv, TypeOK
  <2> QED BY <2>1, <2>2, CredentialValues DEF UpsertUser, GoTo
<1> HIDE DEF v
<1>3. /\ cmd' \in CommandRecord /\ cmd'.pc = "change" /\ cmd'.op = cmd.op
      /\ cmd'.users = cmd.users /\ cmd'.n = cmd.n /\ cmd'.cluster = cmd.cluster
      /\ cmd'.todo = cmd.todo
  BY <1>1, <1>2, CurrentUser DEF CommandRecord
<1>4. TypeOK'
  BY <1>1, <1>2, <1>3, CurrentUpdate DEF IInv, TypeOK
<1>5. Guarded' /\ TeardownProgress' /\ CountBounds'
  BY <1>1, <1>2, <1>3, CurrentUser
  DEF IInv, Guarded, TeardownProgress, CountBounds, ApplyPlaces
<1>6. ApplyProgress'
  <2>1. \A i \in DOMAIN cmd.users : cmd.users[i] = count
    BY DEF IInv, ApplyProgress
  <2>2. \A i \in DOMAIN cmd.users : cred'[Required][User(i)] = count
    BY <1>1, <1>2, CurrentUpdate
  <2>3. Required \in roles
    BY <1>1, CurrentUser
  <2> QED BY <1>1, <1>2, <1>3, <2>1, <2>2, <2>3 DEF ApplyProgress
<1>7. FileNeverAhead' /\ OthersUntouched'
  BY <1>1, <1>2, CurrentUpdate DEF FileNeverAhead, OthersUntouched
<1>8. AppliedIsUsable' /\ TornDownIsClean'
  BY <1>1, <1>2, CurrentUser DEF AppliedIsUsable, TornDownIsClean
<1> QED BY <1>4, <1>5, <1>6, <1>7, <1>8 DEF IInv

LEMMA ChangeIInv ==
  ASSUME IInv, ChangeUserAuthentication
  PROVE  IInv'
<1>1. cmd.op = "apply" /\ cmd.pc = "change" /\ Len(cmd.users) < cmd.n
  BY DEF ChangeUserAuthentication, At, IInv, ApplyProgress
<1>2. /\ cmd' = [cmd EXCEPT !.pc = "user", !.users = Append(cmd.users, count)]
      /\ UNCHANGED <<roles, file, count, last>>
      /\ cred' = [cred EXCEPT ![Required][Current] = count]
  BY <1>1, CurrentUser DEF ChangeUserAuthentication
<1>3. /\ Append(cmd.users, count) \in Seq(1..MaxCommands)
      /\ Len(Append(cmd.users, count)) = Len(cmd.users) + 1
      /\ DOMAIN Append(cmd.users, count) = DOMAIN cmd.users \cup {Len(cmd.users) + 1}
      /\ \A i \in DOMAIN cmd.users : Append(cmd.users, count)[i] = cmd.users[i]
      /\ Append(cmd.users, count)[Len(cmd.users) + 1] = count
  BY <1>1, CurrentUser DEF CommandRecord
<1>4. /\ cmd' \in CommandRecord /\ cmd'.pc = "user" /\ cmd'.op = cmd.op
      /\ cmd'.users = Append(cmd.users, count) /\ cmd'.n = cmd.n
      /\ cmd'.cluster = cmd.cluster /\ cmd'.todo = cmd.todo
  BY <1>1, <1>2, <1>3, CurrentUser DEF CommandRecord
<1>5. TypeOK'
  <2>1. Len(cmd.users) + 1 <= cmd.n
    BY <1>1, CurrentUser DEF CommandRecord
  <2> QED BY <1>1, <1>2, <1>3, <1>4, <2>1, CurrentUser, CurrentUpdate DEF IInv, TypeOK
<1>6. Guarded' /\ TeardownProgress' /\ CountBounds'
  BY <1>1, <1>2, <1>3, <1>4, CurrentUser
  DEF IInv, Guarded, TeardownProgress, CountBounds, ApplyPlaces
<1>7. ApplyProgress'
  <2>1. \A i \in DOMAIN cmd'.users : cmd'.users[i] = count /\ cred'[Required][User(i)] = count
    <3>1. \A i \in DOMAIN cmd.users : cmd.users[i] = count
      BY DEF IInv, ApplyProgress
    <3>2. count \in Credentials
      BY <1>1, CurrentUser
    <3>3. /\ \A i \in DOMAIN cmd.users : cred'[Required][User(i)] = count
          /\ cred'[Required][Current] = count
      BY <1>1, <1>2, <3>2, CurrentUpdate
    <3>4. Current = User(Len(cmd.users) + 1)
      BY DEF Current
    <3> QED BY <3>1, <3>3, <3>4, <1>2, <1>3, <1>4
  <2> QED BY <2>1, <1>1, <1>2, <1>4, CurrentUser DEF ApplyProgress
<1>8. FileNeverAhead' /\ OthersUntouched'
  BY <1>1, <1>2, CurrentUser, CurrentUpdate DEF FileNeverAhead, OthersUntouched
<1>9. AppliedIsUsable' /\ TornDownIsClean'
  BY <1>1, <1>2, CurrentUser DEF AppliedIsUsable, TornDownIsClean
<1> QED BY <1>5, <1>6, <1>7, <1>8, <1>9 DEF IInv

LEMMA TruncateIInv ==
  ASSUME IInv, TruncateFile
  PROVE  IInv'
<1> USE DEF IInv
<1>1. /\ cmd.op = "apply" /\ cmd.pc = "user" /\ Len(cmd.users) = cmd.n
      /\ cmd \in CommandRecord /\ cmd' = [cmd EXCEPT !.pc = "write"]
      /\ file' = [st |-> "partial", users |-> <<>>]
      /\ UNCHANGED <<cred, roles, count, last>>
  BY DEF TruncateFile, At, GoTo, TypeOK
<1>2. /\ cmd' \in CommandRecord /\ cmd'.pc = "write" /\ cmd'.op = cmd.op
      /\ cmd'.users = cmd.users /\ cmd'.n = cmd.n /\ cmd'.cluster = cmd.cluster
      /\ cmd'.todo = cmd.todo
  BY <1>1 DEF CommandRecord
<1>3. TypeOK'
  BY <1>1, <1>2 DEF TypeOK
<1>4. Guarded' /\ ApplyProgress' /\ TeardownProgress' /\ CountBounds'
  BY <1>1, <1>2 DEF Guarded, ApplyProgress, TeardownProgress, CountBounds, ApplyPlaces
<1>5. AppliedIsUsable' /\ FileNeverAhead' /\ TornDownIsClean' /\ OthersUntouched'
  BY <1>1 DEF Guarded, AppliedIsUsable, FileNeverAhead, TornDownIsClean, OthersUntouched
<1> QED BY <1>3, <1>4, <1>5

LEMMA WriteIInv ==
  ASSUME IInv, WriteFile
  PROVE  IInv'
<1> USE DEF IInv
<1>1. /\ cmd.op = "apply" /\ cmd.pc = "write" /\ Len(cmd.users) = cmd.n
      /\ cmd \in CommandRecord /\ cmd' = NoCommand
      /\ file' = [st |-> "full", users |-> cmd.users]
      /\ last' = [op |-> cmd.op, ok |-> TRUE, n |-> cmd.n]
      /\ UNCHANGED <<cred, roles, count>>
  BY DEF WriteFile, At, End, TypeOK, ApplyProgress
<1>2. /\ Required \in roles /\ count \in Nat
      /\ \A i \in DOMAIN cmd.users : cmd.users[i] = count /\ cred[Required][User(i)] = count
  BY <1>1 DEF ApplyProgress, TypeOK
<1>3. TypeOK'
  BY <1>1, NoCommandFacts DEF TypeOK, CommandRecord
<1>4. Guarded' /\ ApplyProgress' /\ TeardownProgress' /\ CountBounds'
  BY <1>1, <1>2, NoCommandFacts DEF Guarded, ApplyProgress, TeardownProgress, CountBounds
<1>5. AppliedIsUsable' /\ TornDownIsClean' /\ OthersUntouched'
  BY <1>1, <1>2 DEF AppliedIsUsable, TornDownIsClean, OthersUntouched
<1>6. FileNeverAhead'
  BY <1>1, <1>2 DEF FileNeverAhead
<1> QED BY <1>3, <1>4, <1>5, <1>6

-------------------------------------------------------------------------------
(* teardown's steps, and a call whose answer is lost.                      *)

LEMMA ListIInv ==
  ASSUME IInv, ListUsers
  PROVE  IInv'
<1> USE DEF IInv
<1> DEFINE todo == {u \in Names : cred[Required][u] # Absent /\ HasPrefix(u)}
<1>1. /\ cmd.op = "teardown" /\ cmd.pc = "list" /\ cmd.cluster = Required
      /\ cmd \in CommandRecord /\ cmd' = [cmd EXCEPT !.pc = "delete", !.todo = todo]
      /\ UNCHANGED <<cred, roles, file, count, last>>
  BY DEF ListUsers, At, TypeOK, Guarded
<1>2. /\ cmd' \in CommandRecord /\ cmd'.pc = "delete" /\ cmd'.op = cmd.op
      /\ cmd'.users = cmd.users /\ cmd'.n = cmd.n /\ cmd'.cluster = cmd.cluster
      /\ cmd'.todo = todo
  BY <1>1 DEF CommandRecord
<1>3. TypeOK'
  BY <1>1, <1>2 DEF TypeOK
<1>4. TeardownProgress'
  BY <1>1, <1>2, FixtureNames DEF TeardownProgress
<1>5. Guarded' /\ ApplyProgress' /\ CountBounds'
  BY <1>1, <1>2 DEF Guarded, ApplyProgress, CountBounds, TeardownPlaces
<1>6. AppliedIsUsable' /\ FileNeverAhead' /\ TornDownIsClean' /\ OthersUntouched'
  BY <1>1 DEF AppliedIsUsable, FileNeverAhead, TornDownIsClean, OthersUntouched
<1> QED BY <1>3, <1>4, <1>5, <1>6

\* What deleting a listed user leaves true.
LEMMA Deletion ==
  ASSUME IInv, cmd.pc = "delete", NEW u \in cmd.todo,
         cred' = [cred EXCEPT ![Required][u] = Absent]
  PROVE  /\ cred' \in [Clusters -> [Names -> Credentials]]
         /\ cred'[Required][u] = Absent
         /\ \A i \in Index : cred'[Required][User(i)] # Absent => User(i) \in cmd.todo \ {u}
         /\ \A i \in DOMAIN file.users :
              LET c == cred'[Required][User(i)]
              IN  c \in {Absent, NoCredential} \/ c >= file.users[i]
         /\ \A c \in Clusters, w \in Names :
              (c # Required \/ w \in Others) =>
                cred'[c][w] = IF w \in Others THEN NoCredential ELSE Absent
<1>1. u \in Names /\ u \notin Others
  BY DEF IInv, TypeOK, CommandRecord, TeardownProgress
<1>2. /\ cred' \in [Clusters -> [Names -> Credentials]]
      /\ cred'[Required][u] = Absent
      /\ \A c \in Clusters, w \in Names : c # Required \/ w # u => cred'[c][w] = cred[c][w]
  <2>1. cred \in [Clusters -> [Names -> Credentials]]
    BY DEF IInv, TypeOK
  <2> QED BY <2>1, <1>1, CredUpdate, CredentialValues
<1>3. \A i \in Index : cred'[Required][User(i)] # Absent => User(i) \in cmd.todo \ {u}
  BY <1>2, FixtureNames, SeedAssumption DEF IInv, TeardownProgress
<1>4. ASSUME NEW i \in DOMAIN file.users
      PROVE  LET c == cred'[Required][User(i)]
             IN  c \in {Absent, NoCredential} \/ c >= file.users[i]
  <2>1. User(i) \in Names
    BY FixtureNames DEF IInv, CountBounds
  <2>2. cred'[Required][User(i)] \in {Absent, cred[Required][User(i)]}
    BY <2>1, <1>2, SeedAssumption
  <2> QED BY <2>2 DEF IInv, FileNeverAhead
<1>5. \A c \in Clusters, w \in Names :
        (c # Required \/ w \in Others) =>
          cred'[c][w] = IF w \in Others THEN NoCredential ELSE Absent
  BY <1>1, <1>2 DEF IInv, OthersUntouched
<1> QED BY <1>2, <1>3, <1>4, <1>5

LEMMA DeleteIInv ==
  ASSUME IInv, NEW u \in Names, DeleteUser(u)
  PROVE  IInv'
<1>1. /\ cmd.op = "teardown" /\ cmd.pc = "delete" /\ cmd.cluster = Required
      /\ last.ok = FALSE /\ u \in cmd.todo
      /\ cmd \in CommandRecord /\ cmd' = [cmd EXCEPT !.todo = cmd.todo \ {u}]
      /\ cred' = [cred EXCEPT ![Required][u] = Absent]
      /\ UNCHANGED <<roles, file, count, last>>
  BY DEF DeleteUser, At, IInv, TypeOK, Guarded
<1>2. /\ cmd' \in CommandRecord /\ cmd'.pc = cmd.pc /\ cmd'.op = cmd.op
      /\ cmd'.users = cmd.users /\ cmd'.n = cmd.n /\ cmd'.cluster = cmd.cluster
      /\ cmd'.todo = cmd.todo \ {u}
  BY <1>1 DEF CommandRecord
<1>3. cred' \in [Clusters -> [Names -> Credentials]]
  BY <1>1, Deletion
<1>4. TypeOK'
  BY <1>1, <1>2, <1>3 DEF IInv, TypeOK
<1>5. TeardownProgress'
  <2>1. \A i \in Index : cred'[Required][User(i)] # Absent => User(i) \in cmd.todo \ {u}
    BY <1>1, Deletion
  <2> QED BY <2>1, <1>1, <1>2 DEF IInv, TeardownProgress
<1>6. ApplyProgress'
  <2>1. cmd.users = <<>>
    BY <1>1 DEF IInv, ApplyProgress
  <2> QED BY <2>1, <1>1, <1>2 DEF ApplyProgress
<1>7. Guarded' /\ CountBounds'
  BY <1>1, <1>2 DEF IInv, Guarded, CountBounds
<1>8. FileNeverAhead' /\ OthersUntouched'
  BY <1>1, Deletion DEF FileNeverAhead, OthersUntouched
<1>9. AppliedIsUsable' /\ TornDownIsClean'
  BY <1>1 DEF AppliedIsUsable, TornDownIsClean
<1> QED BY <1>4, <1>5, <1>6, <1>7, <1>8, <1>9 DEF IInv

LEMMA DeletedIInv ==
  ASSUME IInv, Deleted
  PROVE  IInv'
<1> USE DEF IInv
<1>1. /\ cmd.op = "teardown" /\ cmd.pc = "delete" /\ cmd.todo = {}
      /\ cmd \in CommandRecord /\ cmd' = NoCommand
      /\ last' = [op |-> "teardown", ok |-> TRUE, n |-> cmd.n]
      /\ UNCHANGED <<cred, roles, file, count>>
  BY DEF Deleted, At, End, TypeOK
<1>2. \A i \in Index : cred[Required][User(i)] = Absent
  BY <1>1 DEF TeardownProgress
<1>3. TypeOK'
  BY <1>1, NoCommandFacts DEF TypeOK, CommandRecord
<1>4. Guarded' /\ ApplyProgress' /\ TeardownProgress' /\ CountBounds'
  BY <1>1, NoCommandFacts DEF Guarded, ApplyProgress, TeardownProgress, CountBounds
<1>5. AppliedIsUsable' /\ FileNeverAhead' /\ TornDownIsClean' /\ OthersUntouched'
  BY <1>1, <1>2 DEF AppliedIsUsable, FileNeverAhead, TornDownIsClean, OthersUntouched
<1> QED BY <1>3, <1>4, <1>5

LEMMA UnansweredIInv ==
  ASSUME IInv, Unanswered
  PROVE  IInv'
<1>1. /\ cmd' = NoCommand /\ last' = [op |-> cmd.op, ok |-> FALSE, n |-> cmd.n]
      /\ UNCHANGED <<roles, file, count>> /\ cmd \in CommandRecord
  BY DEF Unanswered, End, IInv, TypeOK
<1>2. /\ cred' \in [Clusters -> [Names -> Credentials]]
      /\ FileNeverAhead' /\ OthersUntouched'
  <2>1. CASE At("apply", "change") /\ cred' = [cred EXCEPT ![cmd.cluster][Current] = count]
    <3>1. cmd.op = "apply" /\ cmd.pc = "change" /\ Len(cmd.users) < cmd.n
      BY <2>1 DEF At, IInv, ApplyProgress
    <3>2. count \in Credentials /\ cred' = [cred EXCEPT ![Required][Current] = count]
      BY <2>1, <3>1, CurrentUser
    <3> QED BY <3>1, <3>2, <1>1, CurrentUpdate DEF FileNeverAhead, OthersUntouched
  <2>2. ASSUME NEW u \in cmd.todo, cred' = [cred EXCEPT ![cmd.cluster][u] = Absent]
        PROVE  /\ cred' \in [Clusters -> [Names -> Credentials]]
               /\ FileNeverAhead' /\ OthersUntouched'
    <3>1. cmd.pc = "delete" /\ cmd.cluster = Required
      BY <2>2 DEF IInv, TeardownProgress, Guarded
    <3> QED BY <2>2, <3>1, <1>1, Deletion DEF FileNeverAhead, OthersUntouched
  <2> QED BY <2>1, <2>2 DEF Unanswered
<1>3. TypeOK'
  BY <1>1, <1>2, NoCommandFacts DEF IInv, TypeOK, CommandRecord
<1>4. Guarded' /\ ApplyProgress' /\ TeardownProgress' /\ CountBounds'
  BY <1>1, NoCommandFacts DEF IInv, Guarded, ApplyProgress, TeardownProgress, CountBounds
<1>5. AppliedIsUsable' /\ TornDownIsClean'
  BY <1>1 DEF AppliedIsUsable, TornDownIsClean
<1> QED BY <1>2, <1>3, <1>4, <1>5 DEF IInv

LEMMA NextIInv == IInv /\ [Next]_vars => IInv'
<1> SUFFICES ASSUME IInv, [Next]_vars PROVE IInv'
  OBVIOUS
<1>1. CASE UNCHANGED vars
  BY <1>1 DEF vars, IInv, TypeOK, Guarded, ApplyProgress, TeardownProgress, CountBounds,
              AppliedIsUsable, FileNeverAhead, TornDownIsClean, OthersUntouched
<1>2. ASSUME NEW c \in Clusters, NEW n \in UserCounts, StartCommand("apply", c, n)
      PROVE  IInv'
  BY <1>2, StartIInv, SeedAssumption
<1>3. ASSUME NEW c \in Clusters, StartCommand("teardown", c, 0)
      PROVE  IInv'
  BY <1>3, StartIInv
<1>4. CASE CheckCluster \/ UpsertRoles
  BY <1>4, ControlIInv
<1>5. CASE Fail \/ Unanswered
  BY <1>5, FailIInv, UnansweredIInv
<1>6. CASE UpsertUser \/ ChangeUserAuthentication \/ TruncateFile \/ WriteFile
  BY <1>6, UpsertUserIInv, ChangeIInv, TruncateIInv, WriteIInv
<1>7. CASE ListUsers \/ (\E u \in Names : DeleteUser(u)) \/ Deleted
  BY <1>7, ListIInv, DeleteIInv, DeletedIInv
<1> QED BY <1>1, <1>2, <1>3, <1>4, <1>5, <1>6, <1>7 DEF Next

-------------------------------------------------------------------------------
(* The theorems.                                                           *)

LEMMA Invariance == Spec => []IInv
<1> QED BY InitIInv, NextIInv, PTL DEF Spec

\* Types of the cluster's, the file's and the running command's state (seed.go).
THEOREM TypeCorrect == Spec => []TypeOK
<1>1. IInv => TypeOK
  BY DEF IInv
<1> QED BY <1>1, Invariance, PTL

\* Whatever failed in earlier commands, an apply that reports success leaves a
\* file and a cluster that agree on every user (seed.go:41-91).
THEOREM Convergence == Spec => []AppliedIsUsable
<1>1. IInv => AppliedIsUsable
  BY DEF IInv
<1> QED BY <1>1, Invariance, PTL

\* The state file is saved last, so it never names a credential the cluster
\* has not had (seed.go:53-88).
THEOREM SavedLast == Spec => []FileNeverAhead
<1>1. IInv => FileNeverAhead
  BY DEF IInv
<1> QED BY <1>1, Invariance, PTL

\* A teardown that reports success leaves no fixture user (seed.go:97-119).
THEOREM TeardownComplete == Spec => []TornDownIsClean
<1>1. IInv => TornDownIsClean
  BY DEF IInv
<1> QED BY <1>1, Invariance, PTL

\* No command touches a user without the prefix, or another cluster than the
\* required one (seed.go:42, 98, 110).
THEOREM Scoped == Spec => []OthersUntouched
<1>1. IInv => OthersUntouched
  BY DEF IInv
<1> QED BY <1>1, Invariance, PTL

================================================================================
