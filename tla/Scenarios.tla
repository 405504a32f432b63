-------------------------------- MODULE Scenarios -------------------------------
(***************************************************************************)
(* The workloads of a sharded authload run (cmd/authload/main.go's runLoad *)
(* and internal/scenario): every pod takes its shard of the fixtures, sets *)
(* its scenario or its blend up, makes calls as the driver's goroutines do *)
(* -- any number at a time -- and tears everything down.                   *)
(*                                                                         *)
(* The cluster is external.  It accepts a TOTP code once, counts a user's  *)
(* failed logins in a row and locks the user at MaxFailed; it may also     *)
(* limit, fail, or never answer.  The clock counts 30 s: the period of a   *)
(* code, and the timeout of the login scenarios' HTTP clients.             *)
(* bot-join-renew, which shares nothing with these, is BotRenew's.         *)
(***************************************************************************)
EXTENDS Config, Classify, Fixtures, Functions

CONSTANTS
  ShardCount,   \* pods; shard indices are 0 .. ShardCount-1
  Configs,      \* configuration files, valid or not: [scenario, weights, route]
  FixtureFiles, \* state files: [factor, users, keys]: the login the devices are for, and counts
  MaxUsers,     \* bound: users in a state file
  MaxFailed,    \* failed logins in a row after which a user is locked
  MaxCalls,     \* bound: calls of one pod
  MaxInFlight,  \* bound: calls in flight at a time
  MaxClock      \* bound: the last period

ASSUME ScenariosAssumption ==
  /\ ShardCount \in Nat \ {0}
  /\ MaxUsers \in Nat /\ MaxFailed \in Nat \ {0}
  /\ MaxCalls \in Nat /\ MaxInFlight \in Nat /\ MaxClock \in Nat
  /\ FixtureFiles \subseteq [factor : Logins, users : 0..MaxUsers, keys : Nat]
  /\ \A c \in Configs : Valid(c) => Workload(c) \subseteq Logins \cup Certs
  \* Weights are floats in the code; here, whole numbers of a common unit.
  /\ \A c \in Configs : \A n \in DOMAIN c.weights : c.weights[n] \in Nat

VARIABLES
  fixtures,  \* the state file, the same for every pod
  config,    \* the configuration file, the same for every pod
  pods,      \* per pod: [st, todo, current, children, next]
  clients,   \* per pod and scenario: the identities bootstrapped, [user, key, open]
  calls,     \* Execute calls in flight
  clock,     \* the current 30 s period
  used,      \* per user: the login whose code was accepted last
  failed,    \* per user: failed logins in a row, as the cluster counts
  counted    \* per user: refusals reported as client errors since the last success

files == <<fixtures, config>>
server_vars == <<used, failed, counted>>
vars == <<files, pods, clients, calls, clock, server_vars>>

Pods == 0..ShardCount - 1

Names == Logins \cup Certs

Users == 1..MaxUsers

NoLogin == [code |-> 0, pod |-> 0, idx |-> 0]

\* todo are the scenarios still to set up, current the one being bootstrapped.
\* The admin client is open while st is "setup" and at no other time.
NewPod ==
  [st |-> "new", todo |-> {}, current |-> "none", children |-> <<>>,
   next |-> [n \in Names |-> 0]]

NoClients == [n \in Names |-> <<>>]

Init ==
  /\ fixtures \in FixtureFiles
  /\ config \in Configs
  /\ pods = [p \in Pods |-> NewPod]
  /\ clients = [p \in Pods |-> NoClients]
  /\ calls = {}
  /\ clock = 1
  /\ used = [u \in Users |-> NoLogin]
  /\ failed = [u \in Users |-> 0]
  /\ counted = [u \in Users |-> 0]

-------------------------------------------------------------------------------
(* What a pod has to work with.                                            *)

ShardUsers(p) == Shard([i \in 1..fixtures.users |-> i], p, ShardCount)

ShardKeys(p) == Shard([i \in 1..fixtures.keys |-> i], p, ShardCount)

\* Every pod logs in with every user of the file.
MutLoginUsers(p, n) == [i \in 1..fixtures.users |-> i]

\* The pod's users, if they have a device of the kind the scenario logs in with.
LoginUsers(p, n) == IF n = fixtures.factor THEN ShardUsers(p) ELSE <<>>

\* One identity per user, however many keys.
MutIdentities(p) == Len(ShardUsers(p))

\* n := min(users, keys): no key is used for two identities.
Identities(p) ==
  IF Len(ShardKeys(p)) < Len(ShardUsers(p)) THEN Len(ShardKeys(p)) ELSE Len(ShardUsers(p))

\* What Setup refuses to do without.
Supplied(p, n) ==
  /\ ShardKeys(p) # <<>>
  /\ n \in Logins => LoginUsers(p, n) # <<>>
  /\ n \in Certs => ShardUsers(p) # <<>>

-------------------------------------------------------------------------------
(* Setup.                                                                  *)

\* runLoad up to Setup: the files are read and the cluster's name checked.
Load(p) ==
  /\ pods[p].st = "new"
  /\ Valid(config)
  /\ pods' = [pods EXCEPT ![p].st = "setup", ![p].todo = Workload(config)]
  /\ UNCHANGED <<files, clients, calls, clock, server_vars>>

\* The pod after the Setup of n returned.
WithChild(pod, n) ==
  [pod EXCEPT !.todo = @ \ {n}, !.current = "none", !.children = Append(@, n)]

\* Setup of one scenario begins; a blend's are taken in the random order of a
\* map.  A login has nothing to bootstrap.
SetUp(p, n) ==
  /\ pods[p].st = "setup" /\ pods[p].current = "none"
  /\ n \in pods[p].todo
  /\ Supplied(p, n)
  /\ pods' = [pods EXCEPT ![p] =
       IF n \in Logins THEN WithChild(@, n) ELSE [@ EXCEPT !.current = n]]
  /\ UNCHANGED <<files, clients, calls, clock, server_vars>>

\* The admin client signs the next identity's first certificate, and a client
\* of that identity's own is opened.
Bootstrap(p) ==
  LET n == pods[p].current
      i == Len(clients[p][n])
  IN  /\ pods[p].st = "setup" /\ n # "none"
      /\ clients' = [clients EXCEPT ![p][n] =
           Append(@, [user |-> At(ShardUsers(p), i), key |-> At(ShardKeys(p), i), open |-> TRUE])]
      /\ pods' = [pods EXCEPT ![p] = IF i + 1 = Identities(p) THEN WithChild(@, n) ELSE @]
      /\ UNCHANGED <<files, calls, clock, server_vars>>

\* A file is missing or refused, the cluster is another one, Setup lacks
\* something or the cluster refuses a bootstrap: the process exits.
Fail(p) ==
  /\ pods[p].st \in {"new", "setup"}
  /\ pods' = [pods EXCEPT ![p] = [NewPod EXCEPT !.st = "failed"]]
  /\ clients' = [clients EXCEPT ![p] = NoClients]
  /\ UNCHANGED <<files, calls, clock, server_vars>>

\* Setup returned nil: the admin client is closed and the driver starts.
Run(p) ==
  /\ pods[p].st = "setup" /\ pods[p].current = "none" /\ pods[p].todo = {}
  /\ pods' = [pods EXCEPT ![p].st = "running"]
  /\ UNCHANGED <<files, clients, calls, clock, server_vars>>

-------------------------------------------------------------------------------
(* Picking a scenario: Single has one child, Mixed draws one by weight.    *)

Weight(n) == IF config.scenario = "mixed" THEN config.weights[n] ELSE 1

\* newWeightedPicker: the running sums of the children's weights.
Cumulative(children) ==
  LET sum[i \in 0..Len(children)] == IF i = 0 THEN 0 ELSE sum[i - 1] + Weight(children[i])
  IN  sum

\* r <= cum
MutPicks(children, r, i) ==
  LET sum == Cumulative(children)
  IN  r <= sum[i] /\ \A j \in 1..i - 1 : sum[j] < r

\* pick: the first child whose running sum is above the draw.  A draw is one of
\* as many equally likely numbers as the weights add up to.
Picks(children, r, i) ==
  LET sum == Cumulative(children)
  IN  r < sum[i] /\ \A j \in 1..i - 1 : sum[j] <= r

Draws(children) == 0..Cumulative(children)[Len(children)] - 1

-------------------------------------------------------------------------------
(* Execute: begin, a challenge solved in place, finish; or one request for *)
(* a certificate.  sent is when the request in flight left, code the TOTP  *)
(* code it carries, if any.                                                *)

InFlight(p) == {c \in calls : c.pod = p}

\* Advanced first, then read: not the call's own number.
MutCall(p, n) ==
  LET idx == pods[p].next[n] - 1
  IN  [pod |-> p, child |-> n, idx |-> idx,
       user |-> IF n \in Logins THEN At(LoginUsers(p, n), idx) ELSE At(clients[p][n], idx).user,
       key |-> At(ShardKeys(p), idx),
       st |-> IF n \in Logins THEN "begin" ELSE "issue",
       sent |-> clock, code |-> 0]

\* The next call of scenario n: the counter is fetched and advanced in one step.
Call(p, n) ==
  LET idx == pods[p].next[n]
  IN  [pod |-> p, child |-> n, idx |-> idx,
       user |-> IF n \in Logins THEN At(LoginUsers(p, n), idx) ELSE At(clients[p][n], idx).user,
       key |-> At(ShardKeys(p), idx),
       st |-> IF n \in Logins THEN "begin" ELSE "issue",
       sent |-> clock, code |-> 0]

Execute(p) ==
  /\ pods[p].st = "running"
  /\ clock <= MaxClock - 2                  \* bound: leaves time for the timeouts
  /\ SumFunction(pods[p].next) < MaxCalls  \* bound
  /\ Cardinality(calls) < MaxInFlight      \* bound
  /\ \E r \in Draws(pods[p].children), i \in DOMAIN pods[p].children :
       LET n == pods[p].children[i]
       IN  /\ Picks(pods[p].children, r, i)
           /\ calls' = calls \cup {Call(p, n)}
           /\ pods' = [pods EXCEPT ![p].next[n] = @ + 1]
  /\ UNCHANGED <<files, clients, clock, server_vars>>

Locked(u) == failed[u] >= MaxFailed

\* The client's timeout, one for each request: begin and finish.
MutTimesOut(c) == c.st = "begin" /\ c.sent < clock

TimesOut(c) == c.child \in Logins /\ c.sent < clock

\* The password is right: a challenge comes back, is solved with the device,
\* a TOTP one with the code of this period, and finish is sent.
Challenge(c) ==
  /\ c.st = "begin" /\ ~Locked(c.user)
  /\ calls' = (calls \ {c}) \cup
       {[c EXCEPT !.st = "finish", !.sent = clock,
                  !.code = IF c.child = "local-login-totp" THEN clock ELSE 0]}
  /\ UNCHANGED <<files, pods, clients, clock, server_vars>>

\* The cluster's answer reaches the call, which returns, or gets lost.
Answer(c, lost) ==
  calls' = IF lost THEN (calls \ {c}) \cup {[c EXCEPT !.st = "silent"]} ELSE calls \ {c}

\* The user's counters after a call that returned err.
Count(c, err, lost) ==
  counted' = IF ~lost /\ ClassifyError(err) = "client-error"
             THEN [counted EXCEPT ![c.user] = @ + 1] ELSE counted

Denied(lockout) == [timedOut |-> FALSE, kind |-> "access-denied", lockoutText |-> lockout]

Replays(c) == c.code # 0 /\ c.code = used[c.user].code

\* The login succeeds: a code is spent, and the failures before it forgiven.
Accept(c, lost) ==
  /\ c.st = "finish" /\ ~Locked(c.user) /\ ~Replays(c)
  /\ used' = IF c.code = 0 THEN used
             ELSE [used EXCEPT ![c.user] = [code |-> c.code, pod |-> c.pod, idx |-> c.idx]]
  /\ failed' = [failed EXCEPT ![c.user] = 0]
  /\ counted' = [counted EXCEPT ![c.user] = 0]
  /\ Answer(c, lost)
  /\ UNCHANGED <<files, pods, clients, clock>>

\* The code was spent by an earlier login: one more failure.
Replay(c, lost) ==
  /\ c.st = "finish" /\ ~Locked(c.user) /\ Replays(c)
  /\ failed' = [failed EXCEPT ![c.user] = @ + 1]
  /\ Count(c, Denied(FALSE), lost)
  /\ Answer(c, lost)
  /\ UNCHANGED <<files, pods, clients, clock, used>>

\* A locked user is refused whatever the request carries.
LockedOut(c, lost) ==
  /\ c.st \in {"begin", "finish"} /\ Locked(c.user)
  /\ Count(c, Denied(TRUE), lost)
  /\ Answer(c, lost)
  /\ UNCHANGED <<files, pods, clients, clock, used, failed>>

\* The cluster limits or fails a request, or signs the certificate asked for;
\* a challenge of the wrong kind ends a login too.
Return(c) ==
  /\ c.st \in {"begin", "finish", "issue"}
  /\ Answer(c, FALSE)
  /\ UNCHANGED <<files, pods, clients, clock, server_vars>>

\* http.Client gives the request up.
Expire(c) ==
  /\ TimesOut(c)
  /\ Answer(c, FALSE)
  /\ UNCHANGED <<files, pods, clients, clock, server_vars>>

\* A period passes.  Timers fire in time.
Tick ==
  /\ clock < MaxClock                       \* bound
  /\ \A c \in calls : ~TimesOut(c)
  /\ clock' = clock + 1
  /\ UNCHANGED <<files, pods, clients, calls, server_vars>>

-------------------------------------------------------------------------------
(* Teardown, deferred until the driver has waited for every call.          *)

Closed(identities) == [i \in DOMAIN identities |-> [identities[i] EXCEPT !.open = FALSE]]

\* Without the driver's wait.
MutTeardown(p) ==
  /\ pods[p].st = "running"
  /\ pods' = [pods EXCEPT ![p].st = "over"]
  /\ clients' = [clients EXCEPT ![p] = [n \in Names |-> Closed(@[n])]]
  /\ UNCHANGED <<files, calls, clock, server_vars>>

\* Every client of every child is closed, whichever of them reports an error.
Teardown(p) ==
  /\ pods[p].st = "running" /\ InFlight(p) = {}
  /\ pods' = [pods EXCEPT ![p].st = "over"]
  /\ clients' = [clients EXCEPT ![p] = [n \in Names |-> Closed(@[n])]]
  /\ UNCHANGED <<files, calls, clock, server_vars>>

Respond(c) ==
  \/ Challenge(c)
  \/ \E lost \in BOOLEAN : Accept(c, lost) \/ Replay(c, lost) \/ LockedOut(c, lost)
  \/ Return(c)

Next ==
  \/ \E p \in Pods :
       \/ Load(p) \/ Bootstrap(p) \/ Fail(p) \/ Run(p) \/ Execute(p) \/ Teardown(p)
       \/ \E n \in Names : SetUp(p, n)
  \/ \E c \in calls : Respond(c) \/ Expire(c)
  \/ Tick

Spec == Init /\ [][Next]_vars

\* Time passes, and the timers of net/http fire.
FairSpec == Spec /\ WF_vars(Tick) /\ WF_vars(\E c \in calls : Expire(c))

-------------------------------------------------------------------------------

Identity == [user : Users, key : Nat, open : BOOLEAN]

Pod == [st : {"new", "setup", "running", "over", "failed"}, todo : SUBSET Names,
        current : Certs \cup {"none"}, children : Seq(Names), next : [Names -> Nat]]

Calls == [pod : Pods, child : Names, idx : Nat, user : Users, key : Nat,
          st : {"begin", "finish", "silent", "issue"}, sent : Nat, code : Nat]

\* The types of the variables.
TypeOK ==
  /\ fixtures \in FixtureFiles /\ config \in Configs
  /\ pods \in [Pods -> Pod]
  /\ clients \in [Pods -> [Names -> Seq(Identity)]]
  /\ calls \subseteq Calls
  /\ clock \in Nat
  /\ used \in [Users -> [code : Nat, pod : Nat, idx : Nat]]
  /\ failed \in [Users -> Nat] /\ counted \in [Users -> Nat]

\* The identities of a pod, and with what each of its calls in flight works.
Holds(p) == {c \in calls : c.pod = p} \cup
            UNION {{clients[p][n][i] : i \in DOMAIN clients[p][n]} : n \in Names}

\* Two pods never work with one user or one key, and no scenario bootstraps a
\* user or a key twice, however unequal the pool and the users are
\* (fixtures.go:147, keypool.go:142, the loops of the certificate scenarios).
ShardsApart ==
  /\ \A p, q \in Pods : p # q =>
       \A x \in Holds(p), y \in Holds(q) : x.user # y.user /\ x.key # y.key
  /\ \A p \in Pods, n \in Names : \A i, j \in DOMAIN clients[p][n] : i # j =>
       /\ clients[p][n][i].user # clients[p][n][j].user
       /\ clients[p][n][i].key # clients[p][n][j].key

\* A login is refused for a spent code only when a whole rotation of its own
\* pod's users lies between it and the login that spent the code: no other pod
\* and no neighbour in the rotation can spend it (locallogintotp.go:77).
ReplayIsARotationApart ==
  \A c \in calls : c.st = "finish" /\ Replays(c) =>
    LET spent == used[c.user]
        n     == Len(LoginUsers(c.pod, c.child))
    IN  /\ spent.pod = c.pod
        /\ spent.idx + n <= c.idx \/ c.idx + n <= spent.idx

\* So a user is locked only after its pod went through all of its users more
\* often than the cluster forgives a failure (locallogintotp.go:77-78).
LockNeedsRotations ==
  \A u \in Users : Locked(u) =>
    \E p \in Pods : LET mine == LoginUsers(p, "local-login-totp")
                    IN  /\ \E i \in DOMAIN mine : mine[i] = u
                        /\ pods[p].next["local-login-totp"] > MaxFailed * Len(mine)

\* A blend gives every scenario its configured share of the draws, in whatever
\* order the map was walked (mixed.go:69-85, 121-143).
PickedByWeight ==
  \A p \in Pods : pods[p].st = "running" =>
    LET children == pods[p].children
    IN  \A i \in DOMAIN children :
          Cardinality({r \in Draws(children) : Picks(children, r, i)}) = Weight(children[i])

\* Refusals of one user stop being reported as client errors, which abort a run,
\* as soon as the user is locked: the lock itself is a lockout
\* (classify.go:53-59).
ErrorsStopAtTheLock == \A u \in Users : counted[u] <= MaxFailed

\* The clients a certificate scenario opened live exactly as long as they are
\* needed: none is closed under a call, none is left open at the end
\* (mixed.go:103, certrenewal.go:162, main.go:232).
ClientsOutliveCalls ==
  /\ \A c \in calls : c.child \in Certs =>
       \E i \in DOMAIN clients[c.pod][c.child] :
         clients[c.pod][c.child][i].user = c.user /\ clients[c.pod][c.child][i].open
  /\ \A p \in Pods : pods[p].st = "over" =>
       \A n \in Names : \A i \in DOMAIN clients[p][n] : ~clients[p][n][i].open

\* Every login ends, though the cluster never answer: a request of each kind has
\* a timeout (locallogin.go:72-77, locallogintotp.go:62-68).  A pod runs at most
\* one login scenario: the devices of a state file are all of one kind.
LoginsEnd ==
  \A p \in Pods, i \in 0..MaxCalls - 1 :
    LET InFlightAt(idx) == \E c \in InFlight(p) : c.child \in Logins /\ c.idx = idx
    IN  InFlightAt(i) ~> ~InFlightAt(i)

===============================================================================
