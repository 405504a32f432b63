-------------------------------- MODULE BotRenew --------------------------------
(***************************************************************************)
(* The bot-join-renew scenario (internal/scenario/botjoinrenew.go): each   *)
(* pod's Setup joins a set of bots with single-use tokens, concurrent      *)
(* Execute calls renew their certificates, Teardown closes the clients.    *)
(*                                                                         *)
(* The auth server is external.  As the scenario's comments describe it: a *)
(* token lets one join through and is then gone; every join starts a bot   *)
(* instance whose generation is 1; a renewal must come over a connection   *)
(* whose certificate has the instance's current generation, which it       *)
(* increments, and any other renewal locks the bot.                        *)
(***************************************************************************)
EXTENDS Integers

CONSTANTS
  Pods,         \* pods running the scenario, each from its own Setup
  BotCount,     \* bots a pod provisions: n in Setup
  Calls,        \* Execute calls a pod has in flight at a time
  MaxExecutes   \* bound: Execute calls of a pod in all

ASSUME BotAssumption == BotCount \in Nat \ {0} /\ MaxExecutes \in Nat

VARIABLES
  tokens,    \* server: bots whose join token exists
  gen,       \* server: generation of the instance of each pod's bot, 0 if none
  locked,    \* server: bots locked as suspected clones
  pods,      \* per pod: [st, bot, next]
  client,    \* per pod and bot: generation of id.client's certificate, 0 if none
  conns,     \* open connections <<pod, bot, generation>>
  calls,     \* per pod and call: [st, bot, cert]; cert is that of the connection it
             \* renews over, then the one it was issued
  mishaps    \* history: bots that lost a renewal's reply or could not reconnect

vars == <<tokens, gen, locked, pods, client, conns, calls, mishaps>>

\* Names come from the bot's index alone, so every pod uses the same ones.
Bots == 0..BotCount - 1

Idle == [st |-> "idle", bot |-> 0, cert |-> 0]

Init ==
  /\ tokens = {}
  /\ gen = [p \in Pods |-> [b \in Bots |-> 0]]
  /\ locked = {}
  /\ pods = [p \in Pods |-> [st |-> "provision", bot |-> 0, next |-> 0]]
  /\ client = [p \in Pods |-> [b \in Bots |-> 0]]
  /\ conns = {}
  /\ calls = [p \in Pods |-> [c \in Calls |-> Idle]]
  /\ mishaps = {}

-------------------------------------------------------------------------------
(* Setup, bot by bot.                                                      *)

\* UpsertBot and UpsertToken: both converge on the same resources.
Provision(p) ==
  /\ pods[p].st = "provision"
  /\ tokens' = tokens \cup {pods[p].bot}
  /\ pods' = [pods EXCEPT ![p].st = "join"]
  /\ UNCHANGED <<gen, locked, client, conns, calls, mishaps>>

Join(p) ==
  /\ pods[p].st = "join"
  /\ pods[p].bot \in tokens
  /\ tokens' = tokens \ {pods[p].bot}
  /\ gen' = [gen EXCEPT ![p][pods[p].bot] = 1]
  /\ pods' = [pods EXCEPT ![p].st = "dial"]
  /\ UNCHANGED <<locked, client, conns, calls, mishaps>>

\* The token is gone: Setup fails, and the run with it.
JoinRefused(p) ==
  /\ pods[p].st = "join"
  /\ pods[p].bot \notin tokens
  /\ pods' = [pods EXCEPT ![p].st = "refused"]
  /\ UNCHANGED <<tokens, gen, locked, client, conns, calls, mishaps>>

\* One bot too many.
MutDial(p) ==
  /\ pods[p].st = "dial"
  /\ LET b == pods[p].bot
     IN  /\ client' = [client EXCEPT ![p][b] = 1]
         /\ conns' = conns \cup {<<p, b, 1>>}
         /\ pods' = [pods EXCEPT ![p].st = IF b = BotCount THEN "ready" ELSE "provision",
                                 ![p].bot = IF b = BotCount THEN b ELSE b + 1]
  /\ UNCHANGED <<tokens, gen, locked, calls, mishaps>>

Dial(p) ==
  /\ pods[p].st = "dial"
  /\ LET b == pods[p].bot
     IN  /\ client' = [client EXCEPT ![p][b] = 1]
         /\ conns' = conns \cup {<<p, b, 1>>}
         /\ pods' = [pods EXCEPT ![p].st = IF b + 1 = BotCount THEN "ready" ELSE "provision",
                                 ![p].bot = IF b + 1 = BotCount THEN b ELSE b + 1]
  /\ UNCHANGED <<tokens, gen, locked, calls, mishaps>>

\* Any RPC of Setup may fail for reasons of its own.
SetupFails(p) ==
  /\ pods[p].st \in {"provision", "join", "dial"}
  /\ pods' = [pods EXCEPT ![p].st = "failed"]
  /\ UNCHANGED <<tokens, gen, locked, client, conns, calls, mishaps>>

-------------------------------------------------------------------------------
(* Execute: call c of pod p.                                               *)

InCall(p, c, st) == calls[p][c].st = st

\* Round robin, by an atomic counter.
Start(p, c) ==
  /\ pods[p].st = "ready" /\ pods[p].next < MaxExecutes
  /\ InCall(p, c, "idle")
  /\ calls' = [calls EXCEPT ![p][c] = [Idle EXCEPT !.st = "lock",
                                                   !.bot = pods[p].next % BotCount]]
  /\ pods' = [pods EXCEPT ![p].next = @ + 1]
  /\ UNCHANGED <<tokens, gen, locked, client, conns, mishaps>>

\* id.mu, held until Execute returns.
Holders(p, b) == {c \in Calls : calls[p][c].bot = b /\ calls[p][c].st \in {"renew", "dial"}}

\* No mutex: two calls may renew the same bot over one connection.
MutLock(p, c) ==
  /\ InCall(p, c, "lock")
  /\ calls' = [calls EXCEPT ![p][c].st = "renew", ![p][c].cert = client[p][calls[p][c].bot]]
  /\ UNCHANGED <<tokens, gen, locked, pods, client, conns, mishaps>>

Lock(p, c) ==
  /\ InCall(p, c, "lock")
  /\ Holders(p, calls[p][c].bot) = {}
  /\ calls' = [calls EXCEPT ![p][c].st = "renew", ![p][c].cert = client[p][calls[p][c].bot]]
  /\ UNCHANGED <<tokens, gen, locked, pods, client, conns, mishaps>>

Return(p, c) == calls' = [calls EXCEPT ![p][c] = Idle]

\* GenerateUserCerts over id.client, answered with a new certificate ...
Renew(p, c) ==
  /\ InCall(p, c, "renew")
  /\ LET b == calls[p][c].bot
     IN  /\ b \notin locked
         /\ calls[p][c].cert = gen[p][b]
         /\ gen' = [gen EXCEPT ![p][b] = @ + 1]
         /\ \/ /\ calls' = [calls EXCEPT ![p][c].st = "dial", ![p][c].cert = gen[p][b] + 1]
               /\ UNCHANGED mishaps
            \/ /\ Return(p, c)           \* ... or the answer never arrives
               /\ mishaps' = mishaps \cup {b}
  /\ UNCHANGED <<tokens, locked, pods, client, conns>>

\* A certificate of another generation than the server's locks the bot.
RenewStale(p, c) ==
  /\ InCall(p, c, "renew")
  /\ calls[p][c].cert # gen[p][calls[p][c].bot]
  /\ locked' = locked \cup {calls[p][c].bot}
  /\ Return(p, c)
  /\ UNCHANGED <<tokens, gen, pods, client, conns, mishaps>>

\* The bot is locked, or the request never reached the server.
RenewFails(p, c) ==
  /\ InCall(p, c, "renew")
  /\ Return(p, c)
  /\ UNCHANGED <<tokens, gen, locked, pods, client, conns, mishaps>>

\* The new client is used without closing the old one.
MutReconnect(p, c) ==
  /\ InCall(p, c, "dial")
  /\ LET call == calls[p][c]
     IN  /\ conns' = conns \cup {<<p, call.bot, call.cert>>}
         /\ client' = [client EXCEPT ![p][call.bot] = call.cert]
  /\ Return(p, c)
  /\ UNCHANGED <<tokens, gen, locked, pods, mishaps>>

\* The new certificate is thrown away and the connection kept.
MutKeepClient(p, c) ==
  /\ InCall(p, c, "dial")
  /\ Return(p, c)
  /\ UNCHANGED <<tokens, gen, locked, pods, client, conns, mishaps>>

\* dialWithFreshCerts, then the swap of id.client.
Reconnect(p, c) ==
  /\ InCall(p, c, "dial")
  /\ LET call == calls[p][c]
     IN  /\ conns' = (conns \ {<<p, call.bot, client[p][call.bot]>>})
                       \cup {<<p, call.bot, call.cert>>}
         /\ client' = [client EXCEPT ![p][call.bot] = call.cert]
  /\ Return(p, c)
  /\ UNCHANGED <<tokens, gen, locked, pods, mishaps>>

\* id.client keeps the superseded certificate.
ReconnectFails(p, c) ==
  /\ InCall(p, c, "dial")
  /\ Return(p, c)
  /\ mishaps' = mishaps \cup {calls[p][c].bot}
  /\ UNCHANGED <<tokens, gen, locked, pods, client, conns>>

Execute(p, c) ==
  \/ Start(p, c) \/ Lock(p, c)
  \/ Renew(p, c) \/ RenewStale(p, c) \/ RenewFails(p, c)
  \/ Reconnect(p, c) \/ ReconnectFails(p, c)

-------------------------------------------------------------------------------

\* Deferred by runLoad: the ramp is over, so every call has returned.
Teardown(p) ==
  /\ pods[p].st = "ready"
  /\ \A c \in Calls : InCall(p, c, "idle")
  /\ conns' = conns \ {<<p, b, client[p][b]>> : b \in Bots}
  /\ pods' = [pods EXCEPT ![p].st = "down"]
  /\ UNCHANGED <<tokens, gen, locked, client, calls, mishaps>>

Next ==
  \E p \in Pods :
    \/ Provision(p) \/ Join(p) \/ JoinRefused(p) \/ Dial(p) \/ SetupFails(p)
    \/ \E c \in Calls : Execute(p, c)
    \/ Teardown(p)

Spec == Init /\ [][Next]_vars

-------------------------------------------------------------------------------

CallRecord ==
  [st : {"idle", "lock", "renew", "dial"}, bot : Bots, cert : Nat]

PodRecord ==
  [st : {"provision", "join", "dial", "ready", "refused", "failed", "down"},
   bot : Bots, next : Nat]

TypeOK ==
  /\ tokens \subseteq Bots
  /\ gen \in [Pods -> [Bots -> Nat]]
  /\ locked \subseteq Bots
  /\ pods \in [Pods -> PodRecord]
  /\ client \in [Pods -> [Bots -> Nat]]
  /\ conns \subseteq Pods \X Bots \X Nat
  /\ calls \in [Pods -> [Calls -> CallRecord]]
  /\ mishaps \subseteq Bots

\* The scenario locks a bot only if the network failed it between a renewal
\* and the reconnect: concurrent calls on one bot, or other pods using the
\* same bot name, do not.
LockedOnlyAfterMishap == locked \subseteq mishaps

\* A renewal in progress uses a connection nobody has closed.
NeverUsesClosed ==
  \A p \in Pods, c \in Calls :
    InCall(p, c, "renew") =>
      <<p, calls[p][c].bot, calls[p][c].cert>> \in conns

\* However often it reconnected, a pod that has been torn down holds no
\* connection any more.
NothingLeftOpen ==
  \A p \in Pods : pods[p].st = "down" => \A k \in conns : k[1] # p

-------------------------------------------------------------------------------

\* methodology.md:318-322: every pod's bootstrap runs independently and needs
\* no coordination with the other pods'.
SetupIsIndependent == \A p \in Pods : pods[p].st # "refused"

================================================================================
