---------------------------- MODULE BotRenewProofs ----------------------------
(***************************************************************************)
(* Proofs about BotRenew, for every number of pods, bots and calls.        *)
(*                                                                         *)
(* The inductive invariant says which certificate a bot's client has: that *)
(* of the server's generation, unless a join or a renewal that has already *)
(* been answered is about to replace it, or a mishap prevented that.       *)
(***************************************************************************)
EXTENDS BotRenew, TLAPS

SettingUp == {"provision", "join", "dial"}

Holds(p, c, b) == calls[p][c].bot = b /\ calls[p][c].st \in {"renew", "dial"}

\* id.mu: no two calls hold the same bot.
MutexHeld ==
  \A p \in Pods, b \in Bots, c, d \in Calls : Holds(p, c, b) /\ Holds(p, d, b) => c = d

\* Setup and Teardown run while no call does.
QuietOutsideLoad ==
  \A p \in Pods, c \in Calls : pods[p].st # "ready" => InCall(p, c, "idle")

\* A renewal's answer carries the generation the server now has.
AnswerIsCurrent ==
  \A p \in Pods, c \in Calls :
    InCall(p, c, "dial") =>
      calls[p][c].cert > 0 /\ calls[p][c].cert = gen[p][calls[p][c].bot]

\* A renewal runs over the client, which nobody replaces meanwhile.
RenewsOverClient ==
  \A p \in Pods, c \in Calls :
    InCall(p, c, "renew") => calls[p][c].cert = client[p][calls[p][c].bot]

\* Bots Setup has not joined or not dialled yet have no client.
ClientAfterDial ==
  \A p \in Pods, b \in Bots :
    /\ pods[p].st \in SettingUp /\ b >= pods[p].bot => client[p][b] = 0
    /\ pods[p].st \in {"provision", "join"} /\ b >= pods[p].bot => gen[p][b] = 0
    /\ pods[p].st = "dial" /\ b > pods[p].bot => gen[p][b] = 0
    /\ pods[p].st = "dial" /\ b = pods[p].bot => gen[p][b] = 1

\* ... and those it has dialled keep up with the server.
ClientKeepsUp ==
  \A p \in Pods, b \in Bots :
    \/ client[p][b] = gen[p][b]
    \/ b \in mishaps
    \/ pods[p].st \in {"refused", "failed"}
    \/ pods[p].st = "dial" /\ pods[p].bot = b
    \/ \E c \in Calls : InCall(p, c, "dial") /\ calls[p][c].bot = b

\* The open connections are those of the clients.
ConnsAreClients ==
  /\ \A k \in conns : k[3] > 0 /\ k[3] = client[k[1]][k[2]] /\ pods[k[1]].st # "down"
  /\ \A p \in Pods, b \in Bots :
       /\ client[p][b] > 0 /\ pods[p].st # "down" => <<p, b, client[p][b]>> \in conns
       /\ pods[p].st \in SettingUp /\ b < pods[p].bot => client[p][b] > 0
       /\ pods[p].st = "ready" => client[p][b] > 0

IInv ==
  /\ TypeOK
  /\ MutexHeld
  /\ QuietOutsideLoad
  /\ AnswerIsCurrent
  /\ RenewsOverClient
  /\ ClientAfterDial
  /\ ClientKeepsUp
  /\ ConnsAreClients
  /\ LockedOnlyAfterMishap

-------------------------------------------------------------------------------
(* Updating one entry of a function of functions.                          *)

LEMMA NestedUpdate ==
  ASSUME NEW S, NEW T, NEW V, NEW f \in [S -> [T -> V]],
         NEW s \in S, NEW t \in T, NEW v \in V
  PROVE  /\ [f EXCEPT ![s][t] = v] \in [S -> [T -> V]]
         /\ [f EXCEPT ![s][t] = v][s][t] = v
         /\ \A x \in S, y \in T :
              x # s \/ y # t => [f EXCEPT ![s][t] = v][x][y] = f[x][y]
  OBVIOUS

LEMMA BotsInRange == 0 \in Bots /\ \A b \in Bots : b \in Nat /\ b < BotCount
  BY BotAssumption DEF Bots

LEMMA InitIInv == Init => IInv
<1> SUFFICES ASSUME Init PROVE IInv
  OBVIOUS
<1>1. TypeOK
  BY BotsInRange DEF Init, TypeOK, PodRecord, CallRecord, Idle
<1>2. MutexHeld /\ QuietOutsideLoad /\ AnswerIsCurrent /\ RenewsOverClient
  BY DEF Init, MutexHeld, QuietOutsideLoad, AnswerIsCurrent, RenewsOverClient, Holds, InCall, Idle
<1>3. ClientAfterDial /\ ClientKeepsUp
  BY DEF Init, ClientAfterDial, ClientKeepsUp, SettingUp
<1>4. ConnsAreClients /\ LockedOnlyAfterMishap
  BY BotsInRange DEF Init, ConnsAreClients, LockedOnlyAfterMishap, SettingUp
<1> QED BY <1>1, <1>2, <1>3, <1>4 DEF IInv

-------------------------------------------------------------------------------
(* Setup keeps the invariant.                                              *)

LEMMA ProvisionIInv ==
  ASSUME IInv, NEW p \in Pods, Provision(p) \/ JoinRefused(p) \/ SetupFails(p)
  PROVE  IInv'
<1> USE DEF IInv
<1>1. /\ UNCHANGED <<gen, locked, client, conns, calls, mishaps>>
      /\ pods[p].st \in SettingUp
      /\ \A q \in Pods : q # p => pods'[q] = pods[q]
      /\ pods'[p].bot = pods[p].bot
      /\ \/ pods'[p].st \in {"refused", "failed"}
         \/ pods[p].st = "provision" /\ pods'[p].st = "join"
  BY DEF Provision, JoinRefused, SetupFails, TypeOK, PodRecord, SettingUp
<1>2. TypeOK'
  <2>1. PICK s \in {"join", "refused", "failed"} : pods' = [pods EXCEPT ![p].st = s]
    BY DEF Provision, JoinRefused, SetupFails
  <2>2. pods \in [Pods -> PodRecord]
    BY DEF TypeOK
  <2>3. pods' \in [Pods -> PodRecord]
    BY <2>1, <2>2 DEF PodRecord
  <2>4. tokens' \subseteq Bots
    BY <2>2 DEF Provision, JoinRefused, SetupFails, TypeOK, PodRecord
  <2> QED BY <1>1, <2>3, <2>4 DEF TypeOK
<1>3. MutexHeld' /\ AnswerIsCurrent' /\ RenewsOverClient' /\ LockedOnlyAfterMishap'
  BY <1>1 DEF MutexHeld, AnswerIsCurrent, RenewsOverClient, LockedOnlyAfterMishap, Holds, InCall
<1>4. QuietOutsideLoad'
  BY <1>1 DEF QuietOutsideLoad, InCall, SettingUp
<1>5. ClientAfterDial'
  <2> SUFFICES ASSUME NEW q \in Pods, NEW b \in Bots PROVE ClientAfterDial!(q, b)'
    BY DEF ClientAfterDial
  <2> QED BY <1>1 DEF ClientAfterDial, SettingUp
<1>6. ClientKeepsUp'
  BY <1>1 DEF ClientKeepsUp, InCall
<1>7. ConnsAreClients'
  BY <1>1 DEF ConnsAreClients, SettingUp, TypeOK
<1> QED BY <1>2, <1>3, <1>4, <1>5, <1>6, <1>7

LEMMA JoinIInv ==
  ASSUME IInv, NEW p \in Pods, Join(p)
  PROVE  IInv'
<1> USE DEF IInv
<1> DEFINE bot == pods[p].bot
<1>1. /\ UNCHANGED <<locked, client, conns, calls, mishaps>>
      /\ bot \in Bots /\ pods[p].st = "join"
      /\ \A q \in Pods : q # p => pods'[q] = pods[q]
      /\ pods'[p].bot = bot /\ pods'[p].st = "dial"
  BY DEF Join, TypeOK, PodRecord
<1>2. /\ gen' \in [Pods -> [Bots -> Nat]]
      /\ gen'[p][bot] = 1
      /\ \A q \in Pods, b \in Bots : q # p \/ b # bot => gen'[q][b] = gen[q][b]
  <2>1. gen \in [Pods -> [Bots -> Nat]] /\ gen' = [gen EXCEPT ![p][bot] = 1]
    BY DEF Join, TypeOK
  <2> QED BY <2>1, <1>1, NestedUpdate
<1>3. TypeOK'
  <2>1. pods' \in [Pods -> PodRecord]
    BY DEF Join, TypeOK, PodRecord
  <2> QED BY <1>1, <1>2, <2>1 DEF Join, TypeOK
<1>4. MutexHeld' /\ RenewsOverClient' /\ LockedOnlyAfterMishap'
  BY <1>1 DEF MutexHeld, RenewsOverClient, LockedOnlyAfterMishap, Holds, InCall
<1>5. QuietOutsideLoad'
  BY <1>1 DEF QuietOutsideLoad, InCall
<1>6. AnswerIsCurrent'
  <2> SUFFICES ASSUME NEW q \in Pods, NEW d \in Calls, calls[q][d].st = "dial"
               PROVE  calls[q][d].cert > 0 /\ calls[q][d].cert = gen'[q][calls[q][d].bot]
    BY <1>1 DEF AnswerIsCurrent, InCall
  <2>1. q # p
    BY <1>1 DEF QuietOutsideLoad, InCall
  <2>2. calls[q][d].bot \in Bots
    BY DEF TypeOK, CallRecord
  <2> QED BY <2>1, <2>2, <1>2 DEF AnswerIsCurrent, InCall
<1>7. ClientAfterDial'
  <2> SUFFICES ASSUME NEW q \in Pods, NEW b \in Bots PROVE ClientAfterDial!(q, b)'
    BY DEF ClientAfterDial
  <2> QED BY <1>1, <1>2, BotsInRange DEF ClientAfterDial, SettingUp
<1>8. ClientKeepsUp'
  BY <1>1, <1>2 DEF ClientKeepsUp, InCall
<1>9. ConnsAreClients'
  BY <1>1 DEF ConnsAreClients, SettingUp, TypeOK
<1> QED BY <1>3, <1>4, <1>5, <1>6, <1>7, <1>8, <1>9

LEMMA DialIInv ==
  ASSUME IInv, NEW p \in Pods, Dial(p)
  PROVE  IInv'
<1> USE DEF IInv
<1> DEFINE bot == pods[p].bot
<1>1. /\ UNCHANGED <<tokens, gen, locked, calls, mishaps>>
      /\ bot \in Bots /\ pods[p].st = "dial"
      /\ \A q \in Pods : q # p => pods'[q] = pods[q]
      /\ pods' \in [Pods -> PodRecord]
      /\ \/ pods'[p].st = "ready" /\ pods'[p].bot = bot /\ bot + 1 = BotCount
         \/ pods'[p].st = "provision" /\ pods'[p].bot = bot + 1
      /\ conns' = conns \cup {<<p, bot, 1>>}
  <2>1. pods \in [Pods -> PodRecord] /\ bot \in Bots
    BY DEF TypeOK, PodRecord
  <2>2. bot + 1 \in Bots \/ bot + 1 = BotCount
    BY <2>1, BotAssumption DEF Bots
  <2>3. CASE bot + 1 = BotCount
    BY <2>1, <2>3 DEF Dial, PodRecord
  <2>4. CASE bot + 1 # BotCount
    BY <2>1, <2>2, <2>4 DEF Dial, PodRecord
  <2> QED BY <2>3, <2>4
<1>2. /\ client' \in [Pods -> [Bots -> Nat]]
      /\ client'[p][bot] = 1
      /\ \A q \in Pods, b \in Bots : q # p \/ b # bot => client'[q][b] = client[q][b]
  <2>1. client \in [Pods -> [Bots -> Nat]] /\ client' = [client EXCEPT ![p][bot] = 1]
    BY DEF Dial, TypeOK
  <2> QED BY <2>1, <1>1, NestedUpdate
<1>3. gen[p][bot] = 1 /\ client[p][bot] = 0
  BY <1>1, BotsInRange DEF ClientAfterDial, SettingUp
<1>4. TypeOK'
  BY <1>1, <1>2 DEF TypeOK
<1>5. MutexHeld' /\ AnswerIsCurrent' /\ RenewsOverClient' /\ LockedOnlyAfterMishap'
  <2>1. MutexHeld' /\ AnswerIsCurrent' /\ LockedOnlyAfterMishap'
    BY <1>1 DEF MutexHeld, AnswerIsCurrent, LockedOnlyAfterMishap, Holds, InCall
  <2>2. ASSUME NEW q \in Pods, NEW d \in Calls, calls[q][d].st = "renew"
        PROVE  calls[q][d].cert = client'[q][calls[q][d].bot]
    <3>1. q # p
      BY <2>2, <1>1 DEF QuietOutsideLoad, InCall
    <3>2. calls[q][d].bot \in Bots
      BY DEF TypeOK, CallRecord
    <3> QED BY <2>2, <3>1, <3>2, <1>2 DEF RenewsOverClient, InCall
  <2> QED BY <2>1, <2>2, <1>1 DEF RenewsOverClient, InCall
<1>6. QuietOutsideLoad'
  BY <1>1 DEF QuietOutsideLoad, InCall
<1>7. ClientAfterDial'
  <2> SUFFICES ASSUME NEW q \in Pods, NEW b \in Bots PROVE ClientAfterDial!(q, b)'
    BY DEF ClientAfterDial
  <2> QED BY <1>1, <1>2, BotsInRange DEF ClientAfterDial, SettingUp
<1>8. ClientKeepsUp'
  BY <1>1, <1>2, <1>3 DEF ClientKeepsUp, InCall
<1>9. ConnsAreClients'
  <2>1. \A k \in conns : k \in Pods \X Bots \X Nat /\ (k[1] = p => k[2] # bot)
    BY <1>3 DEF ConnsAreClients, TypeOK
  <2>2. ASSUME NEW k \in conns'
        PROVE  k[3] > 0 /\ k[3] = client'[k[1]][k[2]] /\ pods'[k[1]].st # "down"
    BY <2>1, <1>1, <1>2 DEF ConnsAreClients
  <2>3. ASSUME NEW q \in Pods, NEW b \in Bots
        PROVE  /\ client'[q][b] > 0 /\ pods'[q].st # "down" => <<q, b, client'[q][b]>> \in conns'
               /\ pods'[q].st \in SettingUp /\ b < pods'[q].bot => client'[q][b] > 0
               /\ pods'[q].st = "ready" => client'[q][b] > 0
    <3>1. CASE q # p
      BY <3>1, <1>1, <1>2 DEF ConnsAreClients
    <3>2. CASE q = p /\ b # bot
      <4>1. b \in Nat /\ bot \in Nat /\ b < BotCount
        BY <1>1, BotsInRange
      <4>2. b < pods'[p].bot \/ pods'[p].st = "ready" => b < bot
        BY <4>1, <3>2, <1>1
      <4> QED BY <4>2, <3>2, <1>1, <1>2 DEF ConnsAreClients, SettingUp
    <3>3. CASE q = p /\ b = bot
      BY <3>3, <1>1, <1>2
    <3> QED BY <3>1, <3>2, <3>3
  <2> QED BY <2>2, <2>3 DEF ConnsAreClients
<1> QED BY <1>4, <1>5, <1>6, <1>7, <1>8, <1>9

-------------------------------------------------------------------------------
(* Execute and Teardown keep the invariant.                                *)

\* What a step of a call leaves of the invariant to prove, when the server's
\* generations and the clients are not touched: every call but its own is as
\* it was, and its own holds a bot only if it did before, or alone.
LEMMA QuietCallStep ==
  ASSUME IInv, NEW p \in Pods, NEW c \in Calls, NEW r \in CallRecord,
         calls' = [calls EXCEPT ![p][c] = r],
         UNCHANGED <<tokens, gen, client, conns>>,
         pods' \in [Pods -> PodRecord],
         \A q \in Pods : pods'[q].st = pods[q].st /\ pods'[q].bot = pods[q].bot,
         pods[p].st = "ready",
         mishaps' \subseteq Bots /\ mishaps \subseteq mishaps',
         r.st = "renew" => r.cert = client[p][r.bot] /\ \A d \in Calls : ~Holds(p, d, r.bot),
         r.st # "dial",
         calls[p][c].st = "dial" => calls[p][c].bot \in mishaps',
         locked' \subseteq mishaps'
  PROVE  IInv'
<1> USE DEF IInv
<1>1. /\ calls' \in [Pods -> [Calls -> CallRecord]]
      /\ calls'[p][c] = r
      /\ \A q \in Pods, d \in Calls : q # p \/ d # c => calls'[q][d] = calls[q][d]
  <2>1. calls \in [Pods -> [Calls -> CallRecord]]
    BY DEF TypeOK
  <2> QED BY <2>1, NestedUpdate
<1>2. TypeOK'
  BY <1>1 DEF TypeOK
<1>3. MutexHeld'
  BY <1>1 DEF MutexHeld, Holds
<1>4. QuietOutsideLoad'
  BY <1>1 DEF QuietOutsideLoad, InCall
<1>5. AnswerIsCurrent' /\ RenewsOverClient'
  BY <1>1 DEF AnswerIsCurrent, RenewsOverClient, InCall
<1>6. ClientAfterDial'
  BY DEF ClientAfterDial
<1>7. ClientKeepsUp'
  BY <1>1 DEF ClientKeepsUp, InCall
<1>8. ConnsAreClients'
  <2>1. \A k \in conns : k[1] \in Pods
    BY DEF TypeOK
  <2> QED BY <2>1 DEF ConnsAreClients
<1>9. LockedOnlyAfterMishap'
  BY DEF LockedOnlyAfterMishap
<1> QED BY <1>2, <1>3, <1>4, <1>5, <1>6, <1>7, <1>8, <1>9

\* A call that is not idle runs under load.
LEMMA BusyUnderLoad ==
  ASSUME IInv, NEW p \in Pods, NEW c \in Calls, calls[p][c].st # "idle"
  PROVE  /\ pods[p].st = "ready"
         /\ calls[p][c] \in CallRecord /\ calls[p][c].bot \in Bots
         /\ pods \in [Pods -> PodRecord]
  BY DEF IInv, QuietOutsideLoad, InCall, TypeOK, CallRecord

LEMMA IdleRecord == Idle \in CallRecord /\ Idle.st = "idle"
  BY BotsInRange DEF Idle, CallRecord

LEMMA RenewingCall ==
  ASSUME NEW call \in CallRecord, NEW n \in Nat
  PROVE  /\ [call EXCEPT !.st = "renew", !.cert = n] \in CallRecord
         /\ [call EXCEPT !.st = "renew", !.cert = n].st = "renew"
         /\ [call EXCEPT !.st = "renew", !.cert = n].bot = call.bot
         /\ [call EXCEPT !.st = "renew", !.cert = n].cert = n
  BY DEF CallRecord

LEMMA AnsweredCall ==
  ASSUME NEW call \in CallRecord, NEW n \in Nat
  PROVE  /\ [call EXCEPT !.st = "dial", !.cert = n] \in CallRecord
         /\ [call EXCEPT !.st = "dial", !.cert = n].st = "dial"
         /\ [call EXCEPT !.st = "dial", !.cert = n].bot = call.bot
         /\ [call EXCEPT !.st = "dial", !.cert = n].cert = n
  BY DEF CallRecord

LEMMA StartIInv ==
  ASSUME IInv, NEW p \in Pods, NEW c \in Calls, Start(p, c)
  PROVE  IInv'
<1> DEFINE b == pods[p].next % BotCount
           r == [Idle EXCEPT !.st = "lock", !.bot = b]
<1>1. pods \in [Pods -> PodRecord] /\ pods[p].next \in Nat
  BY DEF IInv, TypeOK, PodRecord
<1>2. b \in Bots
  BY <1>1, BotAssumption DEF Bots
<1>3. r \in CallRecord /\ r.st = "lock"
  BY <1>2, IdleRecord DEF CallRecord
<1>4. /\ pods' \in [Pods -> PodRecord]
      /\ \A q \in Pods : pods'[q].st = pods[q].st /\ pods'[q].bot = pods[q].bot
  BY <1>1 DEF Start, PodRecord
<1>5. /\ calls' = [calls EXCEPT ![p][c] = r] /\ calls[p][c].st = "idle"
      /\ pods[p].st = "ready"
      /\ UNCHANGED <<tokens, gen, locked, client, conns, mishaps>>
  BY DEF Start, InCall
<1>6. mishaps' \subseteq Bots /\ locked' \subseteq mishaps'
  BY <1>5 DEF IInv, TypeOK, LockedOnlyAfterMishap
<1> HIDE DEF b, r
<1> QED BY <1>3, <1>4, <1>5, <1>6, QuietCallStep

LEMMA LockIInv ==
  ASSUME IInv, NEW p \in Pods, NEW c \in Calls, Lock(p, c)
  PROVE  IInv'
<1> DEFINE old == client[p][calls[p][c].bot]
           r == [calls[p][c] EXCEPT !.st = "renew", !.cert = old]
<1>1. calls[p][c].st = "lock"
  BY DEF Lock, InCall
<1>2. /\ pods[p].st = "ready" /\ calls[p][c] \in CallRecord
      /\ pods \in [Pods -> PodRecord]
  BY <1>1, BusyUnderLoad
<1>3. r \in CallRecord /\ r.st = "renew" /\ r.bot = calls[p][c].bot /\ r.cert = old
  <2>1. calls[p][c].bot \in Bots /\ client \in [Pods -> [Bots -> Nat]]
    BY <1>2 DEF CallRecord, IInv, TypeOK
  <2>2. old \in Nat
    BY <2>1
  <2> QED BY <1>2, <2>2, RenewingCall
<1>4. /\ calls' = [calls EXCEPT ![p][c] = r]
      /\ UNCHANGED <<tokens, gen, locked, pods, client, conns, mishaps>>
  BY DEF Lock
<1>5. r.cert = client[p][r.bot] /\ \A d \in Calls : ~Holds(p, d, r.bot)
  BY <1>3 DEF Lock, Holders, Holds
<1>6. mishaps' \subseteq Bots /\ locked' \subseteq mishaps'
  BY <1>4 DEF IInv, TypeOK, LockedOnlyAfterMishap
<1> HIDE DEF r
<1> QED BY <1>1, <1>2, <1>3, <1>4, <1>5, <1>6, QuietCallStep

\* The client's certificate is stale only after a mishap: this call holds the
\* mutex, so no other call is about to replace the client.
LEMMA StaleAfterMishap ==
  ASSUME IInv, NEW p \in Pods, NEW c \in Calls, InCall(p, c, "renew"),
         calls[p][c].cert # gen[p][calls[p][c].bot]
  PROVE  calls[p][c].bot \in mishaps
<1>1. pods[p].st = "ready" /\ calls[p][c].bot \in Bots
  BY BusyUnderLoad DEF InCall
<1>2. ASSUME NEW d \in Calls, InCall(p, d, "dial"), calls[p][d].bot = calls[p][c].bot
      PROVE  FALSE
  <2>1. Holds(p, c, calls[p][c].bot) /\ Holds(p, d, calls[p][c].bot)
    BY <1>2 DEF Holds, InCall
  <2>2. c = d
    BY <2>1, <1>1 DEF IInv, MutexHeld
  <2> QED BY <2>2, <1>2 DEF InCall
<1>3. client[p][calls[p][c].bot] # gen[p][calls[p][c].bot]
  BY DEF IInv, RenewsOverClient
<1> QED BY <1>1, <1>2, <1>3 DEF IInv, ClientKeepsUp

LEMMA FailedCallIInv ==
  ASSUME IInv, NEW p \in Pods, NEW c \in Calls,
         RenewStale(p, c) \/ RenewFails(p, c) \/ ReconnectFails(p, c)
  PROVE  IInv'
<1>1. calls[p][c].st \in {"renew", "dial"}
  BY DEF RenewStale, RenewFails, ReconnectFails, InCall
<1>2. /\ pods[p].st = "ready" /\ calls[p][c].bot \in Bots
      /\ pods \in [Pods -> PodRecord]
  BY <1>1, BusyUnderLoad
<1>3. /\ calls' = [calls EXCEPT ![p][c] = Idle]
      /\ UNCHANGED <<tokens, gen, pods, client, conns>>
  BY DEF RenewStale, RenewFails, ReconnectFails, Return
<1>4. /\ mishaps' \subseteq Bots /\ mishaps \subseteq mishaps'
      /\ calls[p][c].st = "dial" => calls[p][c].bot \in mishaps'
  BY <1>2 DEF RenewStale, RenewFails, ReconnectFails, InCall, IInv, TypeOK
<1>5. locked' \subseteq mishaps'
  BY StaleAfterMishap DEF RenewStale, RenewFails, ReconnectFails, IInv, LockedOnlyAfterMishap
<1> QED BY <1>2, <1>3, <1>4, <1>5, IdleRecord, QuietCallStep

LEMMA RenewIInv ==
  ASSUME IInv, NEW p \in Pods, NEW c \in Calls, Renew(p, c)
  PROVE  IInv'
<1> USE DEF IInv
<1> DEFINE b == calls[p][c].bot
<1>1. calls[p][c].st = "renew"
  BY DEF Renew, InCall
<1>2. pods[p].st = "ready" /\ calls[p][c] \in CallRecord /\ b \in Bots
  BY <1>1, BusyUnderLoad
<1>3. UNCHANGED <<tokens, locked, pods, client, conns>>
  BY DEF Renew
<1>4. gen[p][b] \in Nat /\ client[p][b] = gen[p][b] /\ gen[p][b] > 0
  BY <1>1, <1>2 DEF Renew, TypeOK, ConnsAreClients, RenewsOverClient, InCall
<1>5. /\ gen' \in [Pods -> [Bots -> Nat]]
      /\ gen'[p][b] = gen[p][b] + 1
      /\ \A q \in Pods, d \in Bots : q # p \/ d # b => gen'[q][d] = gen[q][d]
  <2>1. gen \in [Pods -> [Bots -> Nat]]
    BY DEF TypeOK
  <2>2. gen' = [gen EXCEPT ![p][b] = gen[p][b] + 1] /\ gen[p][b] + 1 \in Nat
    BY <1>4 DEF Renew
  <2> QED BY <1>2, <2>1, <2>2, NestedUpdate
<1>6. PICK r \in CallRecord :
        /\ calls' = [calls EXCEPT ![p][c] = r]
        /\ \/ /\ r.st = "dial" /\ r.bot = b /\ r.cert = gen[p][b] + 1
              /\ mishaps' = mishaps
           \/ r.st = "idle" /\ mishaps' = mishaps \cup {b}
  <2>1. CASE Return(p, c) /\ mishaps' = mishaps \cup {b}
    BY <2>1, IdleRecord DEF Return
  <2>2. CASE /\ calls' = [calls EXCEPT ![p][c].st = "dial", ![p][c].cert = gen[p][b] + 1]
             /\ UNCHANGED mishaps
    <3> DEFINE r == [calls[p][c] EXCEPT !.st = "dial", !.cert = gen[p][b] + 1]
    <3>1. r \in CallRecord /\ r.st = "dial" /\ r.bot = b /\ r.cert = gen[p][b] + 1
      <4>1. gen[p][b] + 1 \in Nat
        BY <1>4
      <4> QED BY <4>1, <1>2, AnsweredCall
    <3>2. calls' = [calls EXCEPT ![p][c] = r]
      BY <2>2, <1>2 DEF TypeOK, CallRecord
    <3> QED BY <3>1, <3>2, <2>2
  <2> QED BY <2>1, <2>2 DEF Renew
<1>7. /\ calls' \in [Pods -> [Calls -> CallRecord]]
      /\ calls'[p][c] = r
      /\ \A q \in Pods, d \in Calls : q # p \/ d # c => calls'[q][d] = calls[q][d]
  <2>1. calls \in [Pods -> [Calls -> CallRecord]]
    BY DEF TypeOK
  <2> QED BY <2>1, <1>6, NestedUpdate
<1>8. TypeOK'
  BY <1>2, <1>3, <1>5, <1>6, <1>7 DEF TypeOK
<1>9. MutexHeld' /\ RenewsOverClient'
  BY <1>1, <1>3, <1>6, <1>7 DEF MutexHeld, RenewsOverClient, Holds, InCall
<1>10. QuietOutsideLoad'
  BY <1>2, <1>3, <1>7 DEF QuietOutsideLoad, InCall
<1>11. AnswerIsCurrent'
  <2> SUFFICES ASSUME NEW q \in Pods, NEW d \in Calls, calls'[q][d].st = "dial"
               PROVE  /\ calls'[q][d].cert > 0
                      /\ calls'[q][d].cert = gen'[q][calls'[q][d].bot]
    BY DEF AnswerIsCurrent, InCall
  <2>1. CASE q = p /\ d = c
    BY <2>1, <1>4, <1>5, <1>6, <1>7
  <2>2. CASE q # p \/ d # c
    <3>1. calls'[q][d] = calls[q][d] /\ calls[q][d].bot \in Bots
      BY <2>2, <1>7 DEF TypeOK, CallRecord
    <3>2. q # p \/ calls[q][d].bot # b
      BY <2>2, <3>1, <1>1, <1>2 DEF MutexHeld, Holds
    <3> QED BY <3>1, <3>2, <1>5 DEF AnswerIsCurrent, InCall
  <2> QED BY <2>1, <2>2
<1>12. ClientAfterDial'
  BY <1>2, <1>3, <1>5 DEF ClientAfterDial, SettingUp
<1>13. ClientKeepsUp'
  <2> SUFFICES ASSUME NEW q \in Pods, NEW e \in Bots
               PROVE  \/ client[q][e] = gen'[q][e]
                      \/ e \in mishaps'
                      \/ pods[q].st \in {"refused", "failed"}
                      \/ pods[q].st = "dial" /\ pods[q].bot = e
                      \/ \E d \in Calls : calls'[q][d].st = "dial" /\ calls'[q][d].bot = e
    BY <1>3 DEF ClientKeepsUp, InCall
  <2>1. CASE q = p /\ e = b
    BY <2>1, <1>6, <1>7
  <2>2. CASE q # p \/ e # b
    <3>1. gen'[q][e] = gen[q][e] /\ mishaps \subseteq mishaps'
      BY <2>2, <1>5, <1>6
    <3>2. ASSUME NEW d \in Calls, InCall(q, d, "dial"), calls[q][d].bot = e
          PROVE  calls'[q][d].st = "dial" /\ calls'[q][d].bot = e
      BY <2>2, <3>2, <1>1, <1>7 DEF InCall
    <3> QED BY <3>1, <3>2 DEF ClientKeepsUp
  <2> QED BY <2>1, <2>2
<1>14. ConnsAreClients'
  <2>1. \A k \in conns : k[1] \in Pods
    BY DEF TypeOK
  <2> QED BY <2>1, <1>3 DEF ConnsAreClients
<1>15. LockedOnlyAfterMishap'
  BY <1>3, <1>6 DEF LockedOnlyAfterMishap
<1> QED BY <1>8, <1>9, <1>10, <1>11, <1>12, <1>13, <1>14, <1>15

LEMMA ReconnectIInv ==
  ASSUME IInv, NEW p \in Pods, NEW c \in Calls, Reconnect(p, c)
  PROVE  IInv'
<1> USE DEF IInv
<1> DEFINE b == calls[p][c].bot
<1>1. calls[p][c].st = "dial"
  BY DEF Reconnect, InCall
<1>2. pods[p].st = "ready" /\ calls[p][c] \in CallRecord /\ b \in Bots
  BY <1>1, BusyUnderLoad
<1>3. /\ UNCHANGED <<tokens, gen, locked, pods, mishaps>>
      /\ conns' = (conns \ {<<p, b, client[p][b]>>}) \cup {<<p, b, calls[p][c].cert>>}
      /\ calls' = [calls EXCEPT ![p][c] = Idle]
  BY DEF Reconnect, Return
<1>4. /\ calls[p][c].cert \in Nat /\ calls[p][c].cert > 0
      /\ calls[p][c].cert = gen[p][b]
  BY <1>1, <1>2 DEF AnswerIsCurrent, InCall, CallRecord
<1>5. /\ client' \in [Pods -> [Bots -> Nat]]
      /\ client'[p][b] = calls[p][c].cert
      /\ \A q \in Pods, d \in Bots : q # p \/ d # b => client'[q][d] = client[q][d]
  <2>1. client \in [Pods -> [Bots -> Nat]]
    BY DEF TypeOK
  <2>2. client' = [client EXCEPT ![p][b] = calls[p][c].cert]
    BY DEF Reconnect
  <2> QED BY <1>2, <1>4, <2>1, <2>2, NestedUpdate
<1>6. /\ calls' \in [Pods -> [Calls -> CallRecord]]
      /\ calls'[p][c] = Idle
      /\ \A q \in Pods, d \in Calls : q # p \/ d # c => calls'[q][d] = calls[q][d]
  <2>1. calls \in [Pods -> [Calls -> CallRecord]]
    BY DEF TypeOK
  <2> QED BY <2>1, <1>3, IdleRecord, NestedUpdate
<1>7. TypeOK'
  <2>1. conns' \subseteq Pods \X Bots \X Nat
    BY <1>2, <1>3, <1>4 DEF TypeOK
  <2> QED BY <2>1, <1>3, <1>5, <1>6 DEF TypeOK
<1>8. MutexHeld' /\ AnswerIsCurrent' /\ LockedOnlyAfterMishap'
  BY <1>3, <1>6, IdleRecord DEF MutexHeld, AnswerIsCurrent, LockedOnlyAfterMishap, Holds, InCall
<1>9. QuietOutsideLoad' /\ RenewsOverClient'
  <2>1. QuietOutsideLoad'
    BY <1>2, <1>3, <1>6 DEF QuietOutsideLoad, InCall
  <2>2. ASSUME NEW q \in Pods, NEW d \in Calls, calls'[q][d].st = "renew"
        PROVE  calls'[q][d].cert = client'[q][calls'[q][d].bot]
    <3>1. (q # p \/ d # c) /\ calls'[q][d] = calls[q][d]
      BY <2>2, <1>6, IdleRecord
    <3>2. calls[q][d].bot \in Bots
      BY DEF TypeOK, CallRecord
    <3>3. q # p \/ calls[q][d].bot # b
      BY <2>2, <3>1, <1>1, <1>2 DEF MutexHeld, Holds
    <3> QED BY <2>2, <3>1, <3>2, <3>3, <1>5 DEF RenewsOverClient, InCall
  <2> QED BY <2>1, <2>2 DEF RenewsOverClient, InCall
<1>10. ClientAfterDial'
  BY <1>2, <1>3, <1>5 DEF ClientAfterDial, SettingUp
<1>11. ClientKeepsUp'
  <2> SUFFICES ASSUME NEW q \in Pods, NEW e \in Bots
               PROVE  \/ client'[q][e] = gen[q][e]
                      \/ e \in mishaps
                      \/ pods[q].st \in {"refused", "failed"}
                      \/ pods[q].st = "dial" /\ pods[q].bot = e
                      \/ \E d \in Calls : calls'[q][d].st = "dial" /\ calls'[q][d].bot = e
    BY <1>3 DEF ClientKeepsUp, InCall
  <2>1. CASE q = p /\ e = b
    BY <2>1, <1>4, <1>5
  <2>2. CASE q # p \/ e # b
    <3>1. client'[q][e] = client[q][e]
      BY <2>2, <1>5
    <3>2. ASSUME NEW d \in Calls, InCall(q, d, "dial"), calls[q][d].bot = e
          PROVE  calls'[q][d].st = "dial" /\ calls'[q][d].bot = e
      BY <2>2, <3>2, <1>6 DEF InCall
    <3> QED BY <3>1, <3>2 DEF ClientKeepsUp
  <2> QED BY <2>1, <2>2
<1>12. ConnsAreClients'
  <2>1. ASSUME NEW k \in conns'
        PROVE  k[3] > 0 /\ k[3] = client'[k[1]][k[2]] /\ pods'[k[1]].st # "down"
    <3>1. CASE k = <<p, b, calls[p][c].cert>>
      BY <3>1, <1>2, <1>3, <1>4, <1>5
    <3>2. CASE k \in conns /\ k # <<p, b, client[p][b]>>
      <4>1. k = <<k[1], k[2], k[3]>> /\ k[1] \in Pods /\ k[2] \in Bots
        BY <3>2 DEF TypeOK
      <4>2. k[1] # p \/ k[2] # b
        BY <3>2, <4>1 DEF ConnsAreClients
      <4> QED BY <3>2, <4>1, <4>2, <1>3, <1>5 DEF ConnsAreClients
    <3> QED BY <3>1, <3>2, <2>1, <1>3
  <2>2. ASSUME NEW q \in Pods, NEW e \in Bots
        PROVE  /\ client'[q][e] > 0 /\ pods'[q].st # "down" => <<q, e, client'[q][e]>> \in conns'
               /\ pods'[q].st \in SettingUp /\ e < pods'[q].bot => client'[q][e] > 0
               /\ pods'[q].st = "ready" => client'[q][e] > 0
    <3>1. CASE q = p /\ e = b
      BY <3>1, <1>3, <1>4, <1>5
    <3>2. CASE q # p \/ e # b
      <4>1. client'[q][e] = client[q][e]
        BY <3>2, <1>5
      <4> QED BY <3>2, <4>1, <1>3 DEF ConnsAreClients
    <3> QED BY <3>1, <3>2
  <2> QED BY <2>1, <2>2 DEF ConnsAreClients
<1> QED BY <1>7, <1>8, <1>9, <1>10, <1>11, <1>12

LEMMA TeardownIInv ==
  ASSUME IInv, NEW p \in Pods, Teardown(p)
  PROVE  IInv'
<1> USE DEF IInv
<1>1. /\ UNCHANGED <<tokens, gen, locked, client, calls, mishaps>>
      /\ pods[p].st = "ready" /\ \A c \in Calls : InCall(p, c, "idle")
      /\ conns' = conns \ {<<p, b, client[p][b]>> : b \in Bots}
      /\ pods' = [pods EXCEPT ![p].st = "down"] /\ pods \in [Pods -> PodRecord]
  BY DEF Teardown, TypeOK
<1>2. /\ pods' \in [Pods -> PodRecord] /\ pods'[p].st = "down"
      /\ \A q \in Pods : q # p => pods'[q] = pods[q]
  BY <1>1 DEF PodRecord
<1>3. TypeOK'
  BY <1>1, <1>2 DEF TypeOK
<1>4. MutexHeld' /\ AnswerIsCurrent' /\ RenewsOverClient' /\ LockedOnlyAfterMishap'
  BY <1>1 DEF MutexHeld, AnswerIsCurrent, RenewsOverClient, LockedOnlyAfterMishap, Holds, InCall
<1>5. QuietOutsideLoad'
  BY <1>1, <1>2 DEF QuietOutsideLoad, InCall
<1>6. ClientAfterDial'
  BY <1>1, <1>2 DEF ClientAfterDial, SettingUp
<1>7. ClientKeepsUp'
  BY <1>1, <1>2 DEF ClientKeepsUp, InCall
<1>8. ConnsAreClients'
  <2>1. ASSUME NEW k \in conns'
        PROVE  k \in conns /\ k[1] \in Pods /\ k[2] \in Bots /\ k[1] # p
    <3>1. k \in conns /\ k = <<k[1], k[2], k[3]>> /\ k[1] \in Pods /\ k[2] \in Bots
      BY <1>1, <2>1 DEF TypeOK
    <3>2. k[3] = client[k[1]][k[2]]
      BY <3>1 DEF ConnsAreClients
    <3> QED BY <3>1, <3>2, <1>1, <2>1
  <2>2. ASSUME NEW q \in Pods, NEW b \in Bots, q # p, <<q, b, client[q][b]>> \in conns
        PROVE  <<q, b, client[q][b]>> \in conns'
    BY <2>2, <1>1
  <2> QED BY <2>1, <2>2, <1>1, <1>2 DEF ConnsAreClients, SettingUp
<1> QED BY <1>3, <1>4, <1>5, <1>6, <1>7, <1>8

LEMMA NextIInv == IInv /\ [Next]_vars => IInv'
<1> SUFFICES ASSUME IInv, [Next]_vars PROVE IInv'
  OBVIOUS
<1>1. CASE UNCHANGED vars
  BY <1>1 DEF vars, IInv, TypeOK, MutexHeld, QuietOutsideLoad, AnswerIsCurrent, RenewsOverClient, ClientAfterDial,
              ClientKeepsUp, ConnsAreClients, LockedOnlyAfterMishap, Holds, InCall
<1>2. CASE Next
  <2>1. PICK p \in Pods :
          \/ Provision(p) \/ Join(p) \/ JoinRefused(p) \/ Dial(p) \/ SetupFails(p)
          \/ \E c \in Calls : Execute(p, c)
          \/ Teardown(p)
    BY <1>2 DEF Next
  <2>2. CASE Provision(p) \/ JoinRefused(p) \/ SetupFails(p)
    BY <2>2, ProvisionIInv
  <2>3. CASE Join(p)
    BY <2>3, JoinIInv
  <2>4. CASE Dial(p)
    BY <2>4, DialIInv
  <2>5. ASSUME NEW c \in Calls, Execute(p, c) PROVE IInv'
    BY <2>5, StartIInv, LockIInv, RenewIInv, FailedCallIInv, ReconnectIInv DEF Execute
  <2>6. CASE Teardown(p)
    BY <2>6, TeardownIInv
  <2> QED BY <2>1, <2>2, <2>3, <2>4, <2>5, <2>6
<1> QED BY <1>1, <1>2

-------------------------------------------------------------------------------
(* The theorems.                                                           *)

LEMMA Invariance == Spec => []IInv
<1> QED BY InitIInv, NextIInv, PTL DEF Spec

\* Types of the server's, the pods' and the calls' state (botjoinrenew.go).
THEOREM TypeCorrect == Spec => []TypeOK
<1>1. IInv => TypeOK
  BY DEF IInv
<1> QED BY <1>1, Invariance, PTL

\* However many pods and concurrent calls use the same bots, the scenario gets
\* a bot locked only after the network failed it: the mutex and the reconnect
\* of Execute (botjoinrenew.go:185-230) keep every renewal's certificate current.
THEOREM NoSelfInflictedLock == Spec => []LockedOnlyAfterMishap
<1>1. IInv => LockedOnlyAfterMishap
  BY DEF IInv
<1> QED BY <1>1, Invariance, PTL

\* Execute closes the connection it replaces, but never under a renewal.
THEOREM RenewsOnOpenConnection == Spec => []NeverUsesClosed
<1>1. IInv => NeverUsesClosed
  <2> SUFFICES ASSUME IInv, NEW p \in Pods, NEW c \in Calls, InCall(p, c, "renew")
               PROVE  <<p, calls[p][c].bot, calls[p][c].cert>> \in conns
    BY DEF NeverUsesClosed
  <2>1. pods[p].st = "ready" /\ calls[p][c].bot \in Bots
    BY BusyUnderLoad DEF InCall
  <2> QED BY <2>1 DEF IInv, ConnsAreClients, RenewsOverClient
<1> QED BY <1>1, Invariance, PTL

\* After Teardown (botjoinrenew.go:232-242) a pod has no connection left.
THEOREM CleanTeardown == Spec => []NothingLeftOpen
<1>1. IInv => NothingLeftOpen
  BY DEF IInv, ConnsAreClients, NothingLeftOpen
<1> QED BY <1>1, Invariance, PTL

-------------------------------------------------------------------------------
(* Why a join can be refused.                                              *)

\* Another pod joined the bot this pod is setting up.
TakenByOther(p) == \E q \in Pods \ {p} : gen[q][pods[p].bot] > 0

TakenBeforeRefused ==
  \A p \in Pods :
    /\ pods[p].st = "join" => pods[p].bot \in tokens \/ TakenByOther(p)
    /\ pods[p].st = "refused" => TakenByOther(p)

\* Generations only grow: a bot that was joined stays joined.
LEMMA JoinedStaysJoined ==
  ASSUME IInv, Next
  PROVE  \A q \in Pods, b \in Bots : gen[q][b] > 0 => gen'[q][b] > 0
<1> USE DEF IInv
<1>1. PICK p \in Pods :
        \/ Provision(p) \/ Join(p) \/ JoinRefused(p) \/ Dial(p) \/ SetupFails(p)
        \/ \E c \in Calls : Execute(p, c)
        \/ Teardown(p)
  BY DEF Next
<1>2. CASE Join(p)
  <2>1. pods[p].bot \in Bots
    BY DEF TypeOK, PodRecord
  <2> QED BY <1>2, <2>1 DEF Join, TypeOK
<1>3. ASSUME NEW c \in Calls, Renew(p, c)
      PROVE  \A q \in Pods, b \in Bots : gen[q][b] > 0 => gen'[q][b] > 0
  <2>1. PICK b \in Bots : b = calls[p][c].bot
    BY DEF TypeOK, CallRecord
  <2>2. gen' = [gen EXCEPT ![p][b] = @ + 1]
    BY <1>3, <2>1 DEF Renew
  <2>3. gen \in [Pods -> [Bots -> Nat]]
    BY DEF TypeOK
  <2> QED BY <2>2, <2>3
<1>4. CASE UNCHANGED gen
  BY <1>4
<1> QED
  BY <1>1, <1>2, <1>3, <1>4 DEF Provision, JoinRefused, Dial, SetupFails, Execute, Start, Lock,
     RenewStale, RenewFails, Reconnect, ReconnectFails, Teardown

LEMMA NextTaken ==
  ASSUME IInv, TakenBeforeRefused, [Next]_vars
  PROVE  TakenBeforeRefused'
<1> USE DEF IInv
<1> DEFINE Keeps(p) ==
      /\ pods[p].st = "join" => pods[p].bot \in tokens \/ TakenByOther(p)
      /\ pods[p].st = "refused" => TakenByOther(p)
<1>1. CASE UNCHANGED vars
  BY <1>1 DEF vars, TakenBeforeRefused, TakenByOther
<1>2. CASE Next
  <2>1. PICK p \in Pods :
          \/ Provision(p) \/ Join(p) \/ JoinRefused(p) \/ Dial(p) \/ SetupFails(p)
          \/ \E c \in Calls : Execute(p, c)
          \/ Teardown(p)
    BY <1>2 DEF Next
  <2>2. \A q \in Pods : pods[q] \in PodRecord
    BY DEF TypeOK
  <2>3. ASSUME NEW q \in Pods, TakenByOther(q), pods'[q].bot = pods[q].bot
        PROVE  TakenByOther(q)'
    BY <1>2, <2>2, <2>3, JoinedStaysJoined DEF TakenByOther, PodRecord
  <2>4. CASE Join(p)
    <3>1. /\ pods' = [pods EXCEPT ![p].st = "dial"]
          /\ tokens' = tokens \ {pods[p].bot}
          /\ gen' = [gen EXCEPT ![p][pods[p].bot] = 1]
      BY <2>4 DEF Join
    <3>2. pods'[p].st = "dial"
      BY <3>1 DEF TypeOK, PodRecord
    <3>3. ASSUME NEW q \in Pods, q # p PROVE Keeps(q)'
      <4>1. pods'[q] = pods[q]
        BY <3>1, <3>3 DEF TypeOK
      <4>2. CASE pods[q].bot = pods[p].bot
        <5>1. gen'[p][pods[p].bot] = 1
          BY <2>2, <3>1 DEF TypeOK, PodRecord
        <5>2. TakenByOther(q)'
          BY <3>3, <4>1, <4>2, <5>1 DEF TakenByOther
        <5> QED BY <5>2
      <4>3. CASE pods[q].bot # pods[p].bot
        BY <2>3, <3>1, <4>1, <4>3 DEF TakenBeforeRefused
      <4> QED BY <4>2, <4>3
    <3> QED BY <3>2, <3>3 DEF TakenBeforeRefused
  <2>5. CASE Provision(p) \/ JoinRefused(p) \/ Dial(p) \/ SetupFails(p) \/ Teardown(p)
    <3>1. /\ tokens \subseteq tokens'
          /\ \A q \in Pods : q # p => pods'[q] = pods[q]
      BY <2>5 DEF Provision, JoinRefused, Dial, SetupFails, Teardown, TypeOK
    <3>2. ASSUME NEW q \in Pods, q # p PROVE Keeps(q)'
      BY <2>3, <3>1, <3>2 DEF TakenBeforeRefused
    <3>3. CASE Provision(p)
      <4>1. pods'[p].bot \in tokens' /\ pods'[p].st = "join"
        BY <3>3 DEF Provision, TypeOK, PodRecord
      <4> QED BY <3>2, <4>1 DEF TakenBeforeRefused
    <3>4. CASE JoinRefused(p)
      <4>1. pods'[p].bot = pods[p].bot /\ pods'[p].st = "refused"
        BY <3>4 DEF JoinRefused, TypeOK, PodRecord
      <4>2. TakenByOther(p)
        BY <3>4 DEF JoinRefused, TakenBeforeRefused
      <4> QED BY <2>3, <3>2, <4>1, <4>2 DEF TakenBeforeRefused
    <3>5. CASE Dial(p)
      <4>1. pods'[p].st \in {"ready", "provision"}
        <5>1. PICK b \in Bots : b = pods[p].bot
          BY <2>2 DEF PodRecord
        <5>2. pods' = [pods EXCEPT ![p].st = IF b + 1 = BotCount THEN "ready" ELSE "provision",
                                   ![p].bot = IF b + 1 = BotCount THEN b ELSE b + 1]
          BY <3>5, <5>1 DEF Dial
        <5> QED BY <2>2, <5>2 DEF TypeOK, PodRecord
      <4> QED BY <3>2, <4>1 DEF TakenBeforeRefused
    <3>6. CASE SetupFails(p) \/ Teardown(p)
      <4>1. pods'[p].st \in {"failed", "down"}
        BY <3>6 DEF SetupFails, Teardown, TypeOK, PodRecord
      <4> QED BY <3>2, <4>1 DEF TakenBeforeRefused
    <3> QED BY <2>5, <3>3, <3>4, <3>5, <3>6
  <2>6. ASSUME NEW c \in Calls, Execute(p, c) PROVE TakenBeforeRefused'
    <3>1. /\ UNCHANGED tokens
          /\ \A q \in Pods : pods'[q].st = pods[q].st /\ pods'[q].bot = pods[q].bot
      <4>1. \/ UNCHANGED <<tokens, pods>>
            \/ UNCHANGED tokens /\ pods' = [pods EXCEPT ![p].next = @ + 1]
        <5>1. CASE Start(p, c)
          BY <5>1 DEF Start
        <5>2. CASE Lock(p, c) \/ Renew(p, c) \/ RenewStale(p, c) \/ RenewFails(p, c)
          BY <5>2 DEF Lock, Renew, RenewStale, RenewFails
        <5>3. CASE Reconnect(p, c) \/ ReconnectFails(p, c)
          BY <5>3 DEF Reconnect, ReconnectFails
        <5> QED BY <2>6, <5>1, <5>2, <5>3 DEF Execute
      <4>2. ASSUME NEW q \in Pods PROVE pods'[q].st = pods[q].st /\ pods'[q].bot = pods[q].bot
        <5>1. pods \in [Pods -> PodRecord]
          BY DEF TypeOK
        <5>2. CASE pods' = [pods EXCEPT ![p].next = @ + 1]
          BY <5>1, <5>2 DEF PodRecord
        <5> QED BY <4>1, <5>2
      <4> QED BY <4>1, <4>2
    <3>2. ASSUME NEW q \in Pods PROVE Keeps(q)'
      BY <2>3, <3>1 DEF TakenBeforeRefused
    <3> QED BY <3>2 DEF TakenBeforeRefused
  <2> QED BY <2>1, <2>4, <2>5, <2>6
<1> QED BY <1>1, <1>2

\* Setup is refused a join only because another pod joined the same bot name:
\* names come from the bot's index alone (botjoinrenew.go:128-129), so every pod
\* provisions and consumes the same tokens.  There is no other way to lose one.
THEOREM RefusedOnlyByOthers ==
  Spec => [](\A p \in Pods : pods[p].st = "refused" => TakenByOther(p))
<1>1. Init => TakenBeforeRefused
  <2> SUFFICES ASSUME Init, NEW p \in Pods PROVE pods[p].st = "provision"
    BY DEF TakenBeforeRefused
  <2> QED BY DEF Init
<1>2. IInv /\ TakenBeforeRefused /\ [Next]_vars => TakenBeforeRefused'
  BY NextTaken
<1>3. TakenBeforeRefused => \A p \in Pods : pods[p].st = "refused" => TakenByOther(p)
  BY DEF TakenBeforeRefused
<1> QED BY <1>1, <1>2, <1>3, Invariance, PTL DEF Spec

\* With a single pod, as in an unsharded run, Setup does run independently of
\* the others, as methodology.md:318-322 has it: SetupIsIndependent holds.
THEOREM LonePodIsIndependent ==
  ASSUME \A p, q \in Pods : p = q
  PROVE  Spec => []SetupIsIndependent
<1>1. (\A p \in Pods : pods[p].st = "refused" => TakenByOther(p)) => SetupIsIndependent
  BY DEF TakenByOther, SetupIsIndependent
<1> QED BY <1>1, RefusedOnlyByOthers, PTL

================================================================================
