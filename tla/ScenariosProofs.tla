----------------------------- MODULE ScenariosProofs -----------------------------
(***************************************************************************)
(* Proofs about Scenarios, for any number of pods, users, keys and calls   *)
(* and any configuration files.                                            *)
(*                                                                         *)
(* The argument: shards are disjoint and without repetition, so a user     *)
(* tells the pod and the place in its rotation; the k-th identity of a     *)
(* scenario is the k-th user with the k-th key; every call works with what *)
(* its number says; and a spent code remembers the call that spent it.     *)
(* Calls are then counted: a user's failed answers by the rotations they   *)
(* took, a scenario's picks by the draws of its interval.                  *)
(***************************************************************************)
EXTENDS Scenarios, FiniteSetTheorems, SequenceTheorems, WellFoundedInduction, TLAPS

(* Sharding.                                                               *)

LEMMA Euclid ==
  ASSUME NEW n \in Nat \ {0}, NEW i \in Nat, NEW j \in Nat,
         NEW r \in 0..n - 1, NEW s \in 0..n - 1, i * n + r = j * n + s
  PROVE  i = j /\ r = s
<1>1. \A a, b \in Nat : a < b => a * n + n <= b * n
  OBVIOUS
<1>2. ~(i < j)
  BY <1>1
<1>3. ~(j < i)
  BY <1>1
<1> QED BY <1>2, <1>3

LEMMA DivMod ==
  ASSUME NEW n \in Nat \ {0}, NEW a \in Nat
  PROVE  /\ a \div n \in Nat /\ a % n \in 0..n - 1
         /\ a = (a \div n) * n + (a % n)
  OBVIOUS

LEMMA DivModWitness ==
  ASSUME NEW n \in Nat \ {0}, NEW a \in Nat
  PROVE  \E q \in Nat, r \in Nat : a = q * n + r /\ r = a % n
<1>1. a \div n \in Nat /\ a % n \in Nat
  BY DivMod
<1>2. a = (a \div n) * n + (a % n)
  BY DivMod
<1> QED BY <1>1, <1>2

LEMMA Rotations ==
  ASSUME NEW n \in Nat \ {0}, NEW a \in Nat, NEW b \in Nat, NEW r \in Nat, a # b
  PROVE  a * n + r + n <= b * n + r \/ b * n + r + n <= a * n + r
<1>1. \A c, d \in Nat : c < d => c * n + n <= d * n
  OBVIOUS
<1>2. a * n \in Nat /\ b * n \in Nat
  OBVIOUS
<1> QED BY <1>1, <1>2

\* Two calls of one user are whole rotations apart.
LEMMA RotationApart ==
  ASSUME NEW n \in Nat \ {0}, NEW i \in Nat, NEW j \in Nat, i # j, i % n = j % n
  PROVE  i + n <= j \/ j + n <= i
<1>1. PICK a \in Nat, r \in Nat : i = a * n + r /\ r = i % n
  BY DivModWitness
<1>2. PICK b \in Nat, s \in Nat : j = b * n + s /\ s = j % n
  BY DivModWitness
<1>3. r = s
  BY <1>1, <1>2
<1>4. a # b
  BY <1>1, <1>2, <1>3
<1>5. a * n + r + n <= b * n + r \/ b * n + r + n <= a * n + r
  BY <1>4, Rotations
<1> QED BY <1>1, <1>2, <1>3, <1>5

LEMMA DivBound ==
  ASSUME NEW n \in Nat \ {0}, NEW a \in Nat
  PROVE  /\ a \div n \in Nat
         /\ \A k \in 0..a \div n : k * n \in Nat /\ k * n <= a
<1>1. a \div n \in Nat /\ a % n \in Nat
  BY DivMod
<1>2. a = (a \div n) * n + (a % n)
  BY DivMod
<1> DEFINE q == a \div n
           r == a % n
<1>3. q \in Nat /\ r \in Nat /\ a = q * n + r
  BY <1>1, <1>2
<1> HIDE DEF q, r
<1>4. q * n \in Nat /\ q * n <= a
  BY <1>3
<1>5. \A k \in 0..q : k * n \in Nat /\ k * n <= q * n
  BY <1>3
<1>6. \A k \in 0..q : k * n \in Nat /\ k * n <= a
  BY <1>4, <1>5
<1> QED BY <1>3, <1>6 DEF q

\* What a shard of the numbers 1 .. n is.
LEMMA ShardOf ==
  ASSUME NEW n \in Nat, NEW p \in Pods, NEW s, s = Shard([i \in 1..n |-> i], p, ShardCount)
  PROVE  /\ s \in Seq(1..n)
         /\ \A k \in 1..Len(s) : s[k] = p + (k - 1) * ShardCount + 1
<1>1. ShardCount \in Nat \ {0} /\ p \in 0..ShardCount - 1
  BY ScenariosAssumption DEF Pods
<1>2. CASE ShardCount <= 1
  <2>1. ShardCount = 1 /\ p = 0 /\ s = [i \in 1..n |-> i]
    BY <1>1, <1>2 DEF Shard
  <2>2. s \in Seq(1..n) /\ Len(s) = n
    BY <2>1
  <2> QED BY <2>1, <2>2
<1>3. CASE ShardCount > 1
  <2> DEFINE q == (n - 1 - p) \div ShardCount
             m == ShardLen(n, p, ShardCount)
             t == [i \in 1..n |-> i]
  <2>1. Len(t) = n
    OBVIOUS
  <2>2. s = [k \in 1..m |-> t[p + (k - 1) * ShardCount + 1]]
    BY <1>1, <1>3, <2>1 DEF Shard
  <2>3. m \in Nat /\ \A k \in 1..m : p + (k - 1) * ShardCount + 1 \in 1..n
    <3>1. CASE p >= n
      BY <1>1, <3>1 DEF ShardLen
    <3>2. CASE p < n
      <4>1. n - 1 - p \in Nat
        BY <1>1, <3>2
      <4>2. q \in Nat /\ \A k \in 0..q : k * ShardCount \in Nat /\ k * ShardCount <= n - 1 - p
        BY <1>1, <4>1, DivBound
      <4>3. m = q + 1
        BY <1>1, <3>2 DEF ShardLen
      <4> HIDE DEF q, m
      <4>4. m \in Nat /\ \A k \in 1..m : k - 1 \in 0..q
        BY <4>2, <4>3
      <4>5. ASSUME NEW k \in 1..m PROVE p + (k - 1) * ShardCount + 1 \in 1..n
        <5>1. (k - 1) * ShardCount \in Nat /\ (k - 1) * ShardCount <= n - 1 - p
          BY <4>2, <4>4
        <5> DEFINE d == (k - 1) * ShardCount
        <5>2. d \in Nat /\ d <= n - 1 - p
          BY <5>1
        <5> HIDE DEF d
        <5>3. p + d + 1 \in 1..n
          BY <1>1, <5>2
        <5> QED BY <5>3 DEF d
      <4> QED BY <4>4, <4>5
    <3> QED BY <1>1, <3>1, <3>2
  <2> HIDE DEF m
  <2>4. s = [k \in 1..m |-> p + (k - 1) * ShardCount + 1]
    BY <2>2, <2>3
  <2>5. s \in Seq(1..n) /\ Len(s) = m
    BY <2>3, <2>4
  <2> QED BY <2>3, <2>4, <2>5
<1> QED BY <1>1, <1>2, <1>3

\* Shards are disjoint, and none repeats an element.
LEMMA ShardsDisjoint ==
  ASSUME NEW n \in Nat, NEW p \in Pods, NEW q \in Pods,
         NEW s, s = Shard([i \in 1..n |-> i], p, ShardCount),
         NEW t, t = Shard([i \in 1..n |-> i], q, ShardCount),
         NEW i \in 1..Len(s), NEW j \in 1..Len(t), s[i] = t[j]
  PROVE  p = q /\ i = j
<1>1. ShardCount \in Nat \ {0} /\ p \in 0..ShardCount - 1 /\ q \in 0..ShardCount - 1
  BY ScenariosAssumption DEF Pods
<1>2. s \in Seq(1..n) /\ s[i] = p + (i - 1) * ShardCount + 1
  BY ShardOf
<1>3. t \in Seq(1..n) /\ t[j] = q + (j - 1) * ShardCount + 1
  BY ShardOf
<1>4. i - 1 \in Nat /\ j - 1 \in Nat /\ i \in Nat /\ j \in Nat
  BY <1>2, <1>3
<1>5. (i - 1) * ShardCount + p = (j - 1) * ShardCount + q
  <2>1. (i - 1) * ShardCount \in Nat /\ (j - 1) * ShardCount \in Nat
    BY <1>1, <1>4
  <2> QED BY <1>1, <1>2, <1>3, <2>1
<1>6. i - 1 = j - 1 /\ p = q
  BY <1>1, <1>4, <1>5, Euclid
<1> QED BY <1>4, <1>6

LEMMA AtFacts ==
  ASSUME NEW S, NEW s \in Seq(S), s # <<>>, NEW i \in Nat
  PROVE  /\ i % Len(s) \in 0..Len(s) - 1
         /\ At(s, i) = s[(i % Len(s)) + 1] /\ At(s, i) \in S
         /\ \E k \in 1..Len(s) : k = (i % Len(s)) + 1 /\ At(s, i) = s[k]
         /\ i < Len(s) => At(s, i) = s[i + 1]
<1>1. Len(s) \in Nat \ {0}
  OBVIOUS
<1>2. i % Len(s) \in 0..Len(s) - 1
  BY <1>1, DivMod
<1>3. i < Len(s) => i % Len(s) = i
  BY <1>1
<1>4. (i % Len(s)) + 1 \in 1..Len(s)
  BY <1>1, <1>2
<1> QED BY <1>1, <1>2, <1>3, <1>4 DEF At

-------------------------------------------------------------------------------
(* The inductive invariant.                                                *)

Totp == "local-login-totp"

\* The i-th identity is the i-th user with the i-th key.
Matched(p) ==
  \A n \in Names :
    /\ Len(clients[p][n]) <= Identities(p)
    /\ \A i \in DOMAIN clients[p][n] :
         clients[p][n][i].user = ShardUsers(p)[i] /\ clients[p][n][i].key = ShardKeys(p)[i]

\* How far the Setup of the pod has got.
SettingUp(p) ==
  /\ pods[p].st = "new" => clients[p] = NoClients
  /\ pods[p].st # "setup" => pods[p].current = "none"
  /\ pods[p].st \in {"new", "setup"} => pods[p].next = [n \in Names |-> 0]
  /\ \A n \in pods[p].todo : n # pods[p].current => clients[p][n] = <<>>
  /\ pods[p].current # "none" =>
       /\ pods[p].current \in pods[p].todo
       /\ Supplied(p, pods[p].current)
       /\ Len(clients[p][pods[p].current]) < Identities(p)

\* A child has what its calls need.
Ready(p) ==
  \A i \in DOMAIN pods[p].children :
    LET n == pods[p].children[i]
    IN  Supplied(p, n) /\ (n \in Certs => clients[p][n] # <<>>)

OpenUntilOver(p) ==
  \A n \in Names : \A i \in DOMAIN clients[p][n] :
    /\ pods[p].st \in {"setup", "running"} => clients[p][n][i].open
    /\ pods[p].st = "over" => ~clients[p][n][i].open

PodIsWell(p) == Matched(p) /\ SettingUp(p) /\ Ready(p) /\ OpenUntilOver(p)

\* A call works with the user and the key its number picks.
CallIsOwn(c) ==
  /\ pods[c.pod].st = "running"
  /\ Supplied(c.pod, c.child)
  /\ c.idx < pods[c.pod].next[c.child]
  /\ c.key = At(ShardKeys(c.pod), c.idx)
  /\ c.child \in Logins => c.user = At(LoginUsers(c.pod, c.child), c.idx)
  /\ c.child \in Certs =>
       /\ clients[c.pod][c.child] # <<>>
       /\ c.user = At(clients[c.pod][c.child], c.idx).user
       /\ c.st = "issue"
  /\ c.code # 0 => c.child = Totp

CallsOwn == \A c \in calls : CallIsOwn(c)

OneCallPerIndex ==
  \A c, d \in calls : c.pod = d.pod /\ c.child = d.child /\ c.idx = d.idx => c = d

\* The call that spent the user's code is over, but for the answer it waits for.
SpentWell(u) ==
  /\ used[u].pod \in Pods
  /\ LoginUsers(used[u].pod, Totp) # <<>>
  /\ u = At(LoginUsers(used[u].pod, Totp), used[u].idx)
  /\ used[u].idx < pods[used[u].pod].next[Totp]
  /\ \A c \in calls :
       c.pod = used[u].pod /\ c.child = Totp /\ c.idx = used[u].idx => c.st = "silent"

Spent == \A u \in Users : used[u].code # 0 => SpentWell(u)

Counters == \A u \in Users : counted[u] <= failed[u] /\ failed[u] <= MaxFailed

IInv ==
  /\ TypeOK
  /\ \A p \in Pods : PodIsWell(p)
  /\ CallsOwn
  /\ OneCallPerIndex
  /\ Spent
  /\ Counters

-------------------------------------------------------------------------------
(* What the pods have of the fixtures.                                     *)

LEMMA SeqWiden ==
  ASSUME NEW S, NEW T, S \subseteq T, NEW s \in Seq(S)
  PROVE  s \in Seq(T)
<1>1. Len(s) \in Nat /\ s \in [1..Len(s) -> T]
  OBVIOUS
<1> QED BY <1>1

LEMMA ShardFacts ==
  ASSUME fixtures \in FixtureFiles, NEW p \in Pods
  PROVE  /\ ShardUsers(p) \in Seq(Users) /\ ShardKeys(p) \in Seq(Nat)
         /\ \A n : LoginUsers(p, n) \in Seq(Users)
         /\ \A n : LoginUsers(p, n) # <<>> => LoginUsers(p, n) = ShardUsers(p)
         /\ Identities(p) \in Nat
         /\ Identities(p) <= Len(ShardUsers(p)) /\ Identities(p) <= Len(ShardKeys(p))
         /\ \A n \in Certs : Supplied(p, n) => Identities(p) > 0
<1>1. fixtures.users \in Nat /\ fixtures.users <= MaxUsers /\ fixtures.keys \in Nat
  BY ScenariosAssumption
<1>2. ShardUsers(p) \in Seq(1..fixtures.users)
  BY <1>1, ShardOf DEF ShardUsers
<1>3. ShardKeys(p) \in Seq(1..fixtures.keys)
  BY <1>1, ShardOf DEF ShardKeys
<1>4. 1..fixtures.users \subseteq Users /\ 1..fixtures.keys \subseteq Nat
  BY <1>1, ScenariosAssumption DEF Users
<1>5. ShardUsers(p) \in Seq(Users) /\ ShardKeys(p) \in Seq(Nat)
  BY <1>2, <1>3, <1>4, SeqWiden
<1>6. \A n : LoginUsers(p, n) \in Seq(Users) /\ (LoginUsers(p, n) # <<>> => LoginUsers(p, n) = ShardUsers(p))
  BY <1>5 DEF LoginUsers
<1>7. /\ Identities(p) \in Nat
      /\ Identities(p) <= Len(ShardUsers(p)) /\ Identities(p) <= Len(ShardKeys(p))
  BY <1>5 DEF Identities
<1>8. \A n \in Certs : Supplied(p, n) => Identities(p) > 0
  BY <1>5 DEF Supplied, Identities
<1> QED BY <1>5, <1>6, <1>7, <1>8

\* An element tells the pod and the place it stands at.
LEMMA OneOwner ==
  ASSUME fixtures \in FixtureFiles, NEW p \in Pods, NEW q \in Pods
  PROVE  /\ \A i \in 1..Len(ShardUsers(p)), j \in 1..Len(ShardUsers(q)) :
              ShardUsers(p)[i] = ShardUsers(q)[j] => p = q /\ i = j
         /\ \A i \in 1..Len(ShardKeys(p)), j \in 1..Len(ShardKeys(q)) :
              ShardKeys(p)[i] = ShardKeys(q)[j] => p = q /\ i = j
<1>1. fixtures.users \in Nat /\ fixtures.keys \in Nat
  BY ScenariosAssumption
<1>2. ASSUME NEW i \in 1..Len(ShardUsers(p)), NEW j \in 1..Len(ShardUsers(q)),
             ShardUsers(p)[i] = ShardUsers(q)[j]
      PROVE  p = q /\ i = j
  BY <1>1, <1>2, ShardsDisjoint DEF ShardUsers
<1>3. ASSUME NEW i \in 1..Len(ShardKeys(p)), NEW j \in 1..Len(ShardKeys(q)),
             ShardKeys(p)[i] = ShardKeys(q)[j]
      PROVE  p = q /\ i = j
  BY <1>1, <1>3, ShardsDisjoint DEF ShardKeys
<1> QED BY <1>2, <1>3

LEMMA FixturesKept ==
  ASSUME UNCHANGED files
  PROVE  /\ \A p : ShardUsers(p)' = ShardUsers(p) /\ ShardKeys(p)' = ShardKeys(p)
         /\ \A p : Identities(p)' = Identities(p)
         /\ \A p, n : LoginUsers(p, n)' = LoginUsers(p, n) /\ (Supplied(p, n)' <=> Supplied(p, n))
  BY DEF files, ShardUsers, ShardKeys, Identities, LoginUsers, Supplied

LEMMA WorkloadNames ==
  ASSUME config \in Configs, Valid(config)
  PROVE  Workload(config) \subseteq Names
  BY ScenariosAssumption DEF Names

LEMMA CallFields ==
  ASSUME NEW c \in Calls
  PROVE  /\ c.pod \in Pods /\ c.child \in Names /\ c.idx \in Nat /\ c.user \in Users
         /\ c.key \in Nat /\ c.st \in {"begin", "finish", "silent", "issue"}
         /\ c.sent \in Nat /\ c.code \in Nat
  BY DEF Calls

LEMMA NameFacts ==
  /\ Logins \cap Certs = {} /\ Totp \in Logins /\ "none" \notin Names
  /\ \A n \in Names : n \in Logins \/ n \in Certs
  BY DEF Logins, Certs, Names, Totp

-------------------------------------------------------------------------------
(* Safety from the invariant.                                              *)

LEMMA HeldFacts ==
  ASSUME IInv, NEW p \in Pods, NEW x \in Holds(p)
  PROVE  /\ \E i \in 1..Len(ShardUsers(p)) : x.user = ShardUsers(p)[i]
         /\ \E i \in 1..Len(ShardKeys(p)) : x.key = ShardKeys(p)[i]
<1> USE DEF IInv
<1>0. fixtures \in FixtureFiles
  BY DEF TypeOK
<1>1. ShardUsers(p) \in Seq(Users) /\ ShardKeys(p) \in Seq(Nat)
  BY <1>0, ShardFacts
<1>2. ASSUME NEW n \in Names, NEW i \in DOMAIN clients[p][n]
      PROVE  /\ i \in 1..Len(ShardUsers(p)) /\ clients[p][n][i].user = ShardUsers(p)[i]
             /\ i \in 1..Len(ShardKeys(p)) /\ clients[p][n][i].key = ShardKeys(p)[i]
  <2>1. clients[p][n] \in Seq(Identity) /\ Len(clients[p][n]) <= Identities(p)
    BY DEF TypeOK, Matched, PodIsWell
  <2>2. Identities(p) \in Nat /\ Identities(p) <= Len(ShardUsers(p)) /\ Identities(p) <= Len(ShardKeys(p))
    BY <1>0, ShardFacts
  <2> QED BY <1>1, <2>1, <2>2 DEF Matched, PodIsWell
<1>3. CASE x \in calls /\ x.pod = p
  <2>1. x \in Calls /\ CallIsOwn(x)
    BY <1>3 DEF TypeOK, CallsOwn
  <2>2. x.idx \in Nat /\ x.child \in Names
    BY <2>1, CallFields
  <2>3. \E i \in 1..Len(ShardKeys(p)) : x.key = ShardKeys(p)[i]
    <3>1. ShardKeys(p) # <<>> /\ x.key = At(ShardKeys(p), x.idx)
      BY <1>3, <2>1 DEF CallIsOwn, Supplied
    <3>2. x.idx % Len(ShardKeys(p)) \in 0..Len(ShardKeys(p)) - 1 /\ x.key = ShardKeys(p)[(x.idx % Len(ShardKeys(p))) + 1]
      BY <1>1, <2>2, <3>1, AtFacts
    <3>3. (x.idx % Len(ShardKeys(p))) + 1 \in 1..Len(ShardKeys(p))
      BY <1>1, <3>2
    <3> QED BY <3>2, <3>3
  <2>4. CASE x.child \in Logins
    <3>1. LoginUsers(p, x.child) = ShardUsers(p) /\ ShardUsers(p) # <<>>
      BY <1>0, <1>3, <2>1, <2>4, ShardFacts DEF CallIsOwn, Supplied
    <3>2. x.idx % Len(ShardUsers(p)) \in 0..Len(ShardUsers(p)) - 1 /\ x.user = ShardUsers(p)[(x.idx % Len(ShardUsers(p))) + 1]
      BY <1>1, <1>3, <2>1, <2>2, <2>4, <3>1, AtFacts DEF CallIsOwn
    <3>3. (x.idx % Len(ShardUsers(p))) + 1 \in 1..Len(ShardUsers(p))
      BY <1>1, <3>2
    <3> QED BY <2>3, <3>2, <3>3
  <2>5. CASE x.child \in Certs
    <3> DEFINE ids == clients[p][x.child]
    <3>1. ids \in Seq(Identity) /\ ids # <<>> /\ x.user = At(ids, x.idx).user
      BY <1>3, <2>1, <2>2, <2>5 DEF CallIsOwn, TypeOK
    <3>2. x.idx % Len(ids) \in 0..Len(ids) - 1 /\ x.user = ids[(x.idx % Len(ids)) + 1].user
      BY <2>2, <3>1, AtFacts
    <3>3. (x.idx % Len(ids)) + 1 \in DOMAIN ids
      BY <3>1, <3>2
    <3>4. PICK i \in DOMAIN ids : x.user = ids[i].user
      BY <3>2, <3>3
    <3> QED BY <1>2, <2>2, <2>3, <3>4
  <2> QED BY <2>2, <2>4, <2>5, NameFacts
<1>4. CASE \E n \in Names : \E i \in DOMAIN clients[p][n] : x = clients[p][n][i]
  BY <1>2, <1>4
<1> QED BY <1>3, <1>4 DEF Holds

LEMMA ShardsApartHolds == IInv => ShardsApart
<1> SUFFICES ASSUME IInv PROVE ShardsApart
  OBVIOUS
<1>0. fixtures \in FixtureFiles
  BY DEF IInv, TypeOK
<1>1. ASSUME NEW p \in Pods, NEW q \in Pods, p # q, NEW x \in Holds(p), NEW y \in Holds(q)
      PROVE  x.user # y.user /\ x.key # y.key
  BY <1>0, <1>1, HeldFacts, OneOwner
<1>2. ASSUME NEW p \in Pods, NEW n \in Names, NEW i \in DOMAIN clients[p][n],
             NEW j \in DOMAIN clients[p][n], i # j
      PROVE  clients[p][n][i].user # clients[p][n][j].user /\ clients[p][n][i].key # clients[p][n][j].key
  <2>1. clients[p][n] \in Seq(Identity) /\ Len(clients[p][n]) <= Identities(p)
    BY DEF IInv, TypeOK, Matched, PodIsWell
  <2>2. /\ Identities(p) \in Nat /\ ShardUsers(p) \in Seq(Users) /\ ShardKeys(p) \in Seq(Nat)
        /\ Identities(p) <= Len(ShardUsers(p)) /\ Identities(p) <= Len(ShardKeys(p))
    BY <1>0, ShardFacts
  <2>6. DOMAIN clients[p][n] = 1..Len(clients[p][n]) /\ Len(clients[p][n]) \in Nat
    BY <2>1
  <2>7. i \in 1..Identities(p) /\ j \in 1..Identities(p)
    BY <2>1, <2>2, <2>6
  <2>8. Len(ShardUsers(p)) \in Nat /\ Len(ShardKeys(p)) \in Nat
    BY <2>2
  <2>3. i \in 1..Len(ShardUsers(p)) /\ j \in 1..Len(ShardUsers(p))
    BY <2>2, <2>7, <2>8
  <2>4. i \in 1..Len(ShardKeys(p)) /\ j \in 1..Len(ShardKeys(p))
    BY <2>2, <2>7, <2>8
  <2>5. /\ clients[p][n][i].user = ShardUsers(p)[i] /\ clients[p][n][i].key = ShardKeys(p)[i]
        /\ clients[p][n][j].user = ShardUsers(p)[j] /\ clients[p][n][j].key = ShardKeys(p)[j]
    BY DEF IInv, Matched, PodIsWell
  <2> QED BY <1>0, <1>2, <2>3, <2>4, <2>5, OneOwner
<1> QED BY <1>1, <1>2 DEF ShardsApart

LEMMA RotationHolds == IInv => ReplayIsARotationApart
<1> SUFFICES ASSUME IInv, NEW c \in calls, c.st = "finish", Replays(c)
             PROVE  /\ used[c.user].pod = c.pod
                    /\ \/ used[c.user].idx + Len(LoginUsers(c.pod, c.child)) <= c.idx
                       \/ c.idx + Len(LoginUsers(c.pod, c.child)) <= used[c.user].idx
  BY DEF ReplayIsARotationApart
<1> DEFINE u == c.user
           q == used[u].pod
           k == used[u].idx
           mine == ShardUsers(c.pod)
           its == ShardUsers(q)
<1>1. /\ fixtures \in FixtureFiles /\ c \in Calls /\ CallIsOwn(c)
      /\ used \in [Users -> [code : Nat, pod : Nat, idx : Nat]]
  BY DEF IInv, TypeOK, CallsOwn
<1>2. /\ c.pod \in Pods /\ c.idx \in Nat /\ u \in Users /\ k \in Nat
      /\ c.code # 0 /\ used[u].code # 0 /\ c.child = Totp
  BY <1>1, CallFields DEF CallIsOwn, Replays
<1>3. /\ mine \in Seq(Users) /\ mine # <<>> /\ LoginUsers(c.pod, c.child) = mine
      /\ u = At(mine, c.idx)
  BY <1>1, <1>2, ShardFacts, NameFacts DEF CallIsOwn, Supplied
<1>4. q \in Pods /\ LoginUsers(q, Totp) # <<>> /\ u = At(LoginUsers(q, Totp), k)
  BY <1>2 DEF IInv, Spent, SpentWell
<1>5. its \in Seq(Users) /\ its # <<>> /\ u = At(its, k)
  BY <1>1, <1>4, ShardFacts
<1> HIDE DEF mine, its, u, q, k
<1>6. /\ c.idx % Len(mine) \in 0..Len(mine) - 1
      /\ k % Len(its) \in 0..Len(its) - 1
  BY <1>2, <1>3, <1>5, AtFacts
<1>7. PICK i \in 1..Len(mine) : i = (c.idx % Len(mine)) + 1 /\ u = mine[i]
  BY <1>2, <1>3, AtFacts
<1>8. PICK j \in 1..Len(its) : j = (k % Len(its)) + 1 /\ u = its[j]
  BY <1>2, <1>5, AtFacts
<1>9. q = c.pod /\ i = j
  <2>1. /\ i \in 1..Len(ShardUsers(c.pod)) /\ j \in 1..Len(ShardUsers(q))
        /\ ShardUsers(c.pod)[i] = ShardUsers(q)[j]
    BY <1>7, <1>8 DEF mine, its
  <2> QED BY <1>1, <1>2, <1>4, <2>1, OneOwner
<1>10. c.idx % Len(mine) = k % Len(mine) /\ Len(mine) \in Nat \ {0}
  <2>1. mine = its
    BY <1>9 DEF mine, its
  <2> QED BY <1>3, <1>6, <1>7, <1>8, <1>9, <2>1
<1>11. c.idx # k
  BY <1>2, <1>9 DEF IInv, Spent, SpentWell, k, u, q
<1>12. c.idx + Len(mine) <= k \/ k + Len(mine) <= c.idx
  BY <1>2, <1>10, <1>11, RotationApart
<1> QED BY <1>3, <1>9, <1>12 DEF k, u, q

LEMMA ErrorsStopHolds == IInv => ErrorsStopAtTheLock
  BY ScenariosAssumption DEF IInv, TypeOK, Counters, ErrorsStopAtTheLock

LEMMA ClientsHolds == IInv => ClientsOutliveCalls
<1> SUFFICES ASSUME IInv PROVE ClientsOutliveCalls
  OBVIOUS
<1>1. ASSUME NEW c \in calls, c.child \in Certs
      PROVE  \E i \in DOMAIN clients[c.pod][c.child] :
               clients[c.pod][c.child][i].user = c.user /\ clients[c.pod][c.child][i].open
  <2> DEFINE ids == clients[c.pod][c.child]
  <2>1. c \in Calls /\ CallIsOwn(c)
    BY DEF IInv, TypeOK, CallsOwn
  <2>2. /\ c.pod \in Pods /\ c.child \in Names /\ c.idx \in Nat /\ pods[c.pod].st = "running"
        /\ ids # <<>> /\ c.user = At(ids, c.idx).user
    BY <1>1, <2>1, CallFields DEF CallIsOwn
  <2>3. ids \in Seq(Identity)
    BY <2>2 DEF IInv, TypeOK
  <2>4. c.idx % Len(ids) \in 0..Len(ids) - 1 /\ c.user = ids[(c.idx % Len(ids)) + 1].user
    BY <2>2, <2>3, AtFacts
  <2>5. (c.idx % Len(ids)) + 1 \in DOMAIN ids
    BY <2>3, <2>4
  <2>6. \A i \in DOMAIN ids : ids[i].open
    BY <2>2 DEF IInv, OpenUntilOver, PodIsWell
  <2> QED BY <2>4, <2>5, <2>6
<1>2. ASSUME NEW p \in Pods, pods[p].st = "over", NEW n \in Names, NEW i \in DOMAIN clients[p][n]
      PROVE  ~clients[p][n][i].open
  BY <1>2 DEF IInv, OpenUntilOver, PodIsWell
<1> QED BY <1>1, <1>2 DEF ClientsOutliveCalls

-------------------------------------------------------------------------------
(* The steps of one pod that has no call in flight.                        *)

LEMMA InitIInv == Init => IInv
<1> SUFFICES ASSUME Init PROVE IInv
  OBVIOUS
<1> USE DEF Init
<1>1. TypeOK
  <2>1. NewPod \in Pod /\ NoClients \in [Names -> Seq(Identity)]
    BY DEF NewPod, Pod, NoClients
  <2>2. NoLogin \in [code : Nat, pod : Nat, idx : Nat]
    BY DEF NoLogin
  <2> QED BY <2>1, <2>2 DEF TypeOK
<1>2. ASSUME NEW p \in Pods PROVE PodIsWell(p)
  <2>1. fixtures \in FixtureFiles /\ Identities(p) \in Nat
    BY ShardFacts
  <2>2. pods[p] = NewPod /\ clients[p] = NoClients /\ \A n \in Names : clients[p][n] = <<>>
    BY DEF NoClients
  <2>3. Matched(p)
    BY <2>1, <2>2 DEF Matched
  <2>4. SettingUp(p)
    BY <2>2 DEF SettingUp, NewPod
  <2>5. Ready(p)
    BY <2>2 DEF Ready, NewPod
  <2>6. OpenUntilOver(p)
    BY <2>2 DEF OpenUntilOver
  <2> QED BY <2>3, <2>4, <2>5, <2>6 DEF PodIsWell
<1>3. CallsOwn /\ OneCallPerIndex
  BY DEF CallsOwn, OneCallPerIndex
<1>4. Spent
  BY DEF Spent, SpentWell, NoLogin
<1>5. Counters
  BY ScenariosAssumption DEF Counters
<1> QED BY <1>1, <1>2, <1>3, <1>4, <1>5 DEF IInv

LEMMA OtherPodsWell ==
  ASSUME UNCHANGED files, NEW q \in Pods, pods'[q] = pods[q], clients'[q] = clients[q], PodIsWell(q)
  PROVE  PodIsWell(q)'
<1>1. /\ Matched(q)' /\ OpenUntilOver(q)'
  BY FixturesKept DEF PodIsWell, Matched, OpenUntilOver
<1>2. SettingUp(q)'
  BY FixturesKept DEF PodIsWell, SettingUp
<1>3. Ready(q)'
  BY FixturesKept DEF PodIsWell, Ready
<1> QED BY <1>1, <1>2, <1>3 DEF PodIsWell

LEMMA QuietPodStep ==
  ASSUME IInv, NEW p \in Pods, UNCHANGED <<files, calls, server_vars>>, InFlight(p) = {},
         \A q \in Pods : q # p => pods'[q] = pods[q] /\ clients'[q] = clients[q],
         pods'[p].next = pods[p].next,
         TypeOK', PodIsWell(p)'
  PROVE  IInv'
<1>1. \A q \in Pods : PodIsWell(q)'
  BY OtherPodsWell DEF IInv
<1>2. UNCHANGED files /\ UNCHANGED <<calls, used, failed, counted>>
  BY DEF server_vars
<1>3. ASSUME NEW c \in calls PROVE CallIsOwn(c)'
  <2>1. c.pod \in Pods /\ c.pod # p
    BY CallFields DEF IInv, TypeOK, InFlight
  <2>2. pods'[c.pod] = pods[c.pod] /\ clients'[c.pod] = clients[c.pod] /\ CallIsOwn(c)
    BY <2>1 DEF IInv, CallsOwn
  <2> QED BY <1>2, <2>2, FixturesKept DEF CallIsOwn
<1>4. CallsOwn' /\ OneCallPerIndex'
  BY <1>2, <1>3 DEF CallsOwn, OneCallPerIndex, IInv
<1>5. \A q \in Pods : pods'[q].next = pods[q].next
  OBVIOUS
<1>6. Spent'
  BY <1>2, <1>5, FixturesKept DEF Spent, SpentWell, IInv
<1>7. Counters'
  BY <1>2 DEF Counters, IInv
<1> QED BY <1>1, <1>4, <1>6, <1>7 DEF IInv

\* Only a running pod has calls in flight.
LEMMA NotRunning ==
  ASSUME IInv, NEW p \in Pods, pods[p].st # "running"
  PROVE  InFlight(p) = {}
  BY DEF IInv, CallsOwn, CallIsOwn, InFlight

LEMMA PodFields ==
  ASSUME NEW r \in Pod
  PROVE  /\ r.st \in {"new", "setup", "running", "over", "failed"} /\ r.todo \subseteq Names
         /\ r.current \in Certs \cup {"none"} /\ r.children \in Seq(Names)
         /\ r.next \in [Names -> Nat]
  BY DEF Pod

LEMMA LoadIInv ==
  ASSUME IInv, NEW p \in Pods, Load(p)
  PROVE  IInv'
<1> DEFINE r == [pods[p] EXCEPT !.st = "setup", !.todo = Workload(config)]
<1>1. /\ pods \in [Pods -> Pod] /\ pods[p] \in Pod /\ PodIsWell(p) /\ InFlight(p) = {}
  BY NotRunning DEF IInv, TypeOK, Load
<1>2. Workload(config) \subseteq Names
  BY WorkloadNames DEF IInv, TypeOK, Load
<1>3. /\ r \in Pod /\ r.st = "setup" /\ r.todo = Workload(config) /\ r.current = pods[p].current
      /\ r.children = pods[p].children /\ r.next = pods[p].next
  BY <1>1, <1>2 DEF Pod
<1> HIDE DEF r
<1>4. pods' = [pods EXCEPT ![p] = r] /\ UNCHANGED <<files, clients, calls, clock, server_vars>>
  BY <1>1 DEF Load, r
<1>5. pods'[p] = r /\ \A q \in Pods : q # p => pods'[q] = pods[q]
  BY <1>1, <1>4
<1>6. TypeOK'
  BY <1>1, <1>3, <1>4 DEF IInv, TypeOK, files, server_vars
<1>7. clients[p] = NoClients /\ \A n \in Names : clients[p][n] = <<>>
  BY <1>1 DEF PodIsWell, SettingUp, Load, NoClients
<1>8. PodIsWell(p)'
  <2>1. clients' = clients
    BY <1>4
  <2>2. Matched(p)' /\ OpenUntilOver(p)'
    BY <1>1, <1>4, <1>7, <2>1, FixturesKept DEF PodIsWell, Matched, OpenUntilOver
  <2>3. Ready(p)'
    BY <1>1, <1>3, <1>4, <1>5, <2>1, FixturesKept DEF PodIsWell, Ready
  <2>4. SettingUp(p)'
    <3>1. \A n \in r.todo : clients'[p][n] = <<>>
      BY <1>2, <1>3, <1>7, <2>1
    <3>2. pods[p].current = "none" /\ pods[p].next = [n \in Names |-> 0]
      BY <1>1 DEF PodIsWell, SettingUp, Load
    <3> QED BY <1>3, <1>5, <3>1, <3>2 DEF SettingUp
  <2> QED BY <2>2, <2>3, <2>4 DEF PodIsWell
<1> QED BY <1>1, <1>3, <1>4, <1>5, <1>6, <1>8, QuietPodStep

LEMMA WithChildFields ==
  ASSUME NEW r \in Pod, NEW n \in Names
  PROVE  LET w == WithChild(r, n)
         IN  /\ w \in Pod /\ w.st = r.st /\ w.todo = r.todo \ {n} /\ w.current = "none"
             /\ w.next = r.next /\ Len(w.children) = Len(r.children) + 1
             /\ \A i \in DOMAIN w.children :
                  w.children[i] = n \/ (i \in DOMAIN r.children /\ w.children[i] = r.children[i])
<1> DEFINE w == WithChild(r, n)
<1>1. r.children \in Seq(Names) /\ r.todo \subseteq Names
  BY PodFields
<1>2. /\ w.st = r.st /\ w.todo = r.todo \ {n} /\ w.current = "none" /\ w.next = r.next
      /\ w.children = Append(r.children, n)
  BY DEF WithChild, Pod
<1>3. w \in Pod
  <2> DEFINE children == Append(r.children, n)
             todo == r.todo \ {n}
  <2>1. children \in Seq(Names) /\ todo \subseteq Names
    BY <1>1
  <2>2. w = [r EXCEPT !.todo = todo, !.current = "none", !.children = children]
    BY DEF WithChild, Pod
  <2> HIDE DEF children, todo, w
  <2> QED BY <2>1, <2>2 DEF Pod
<1>4. /\ Len(w.children) = Len(r.children) + 1
      /\ \A i \in DOMAIN w.children :
           w.children[i] = n \/ (i \in DOMAIN r.children /\ w.children[i] = r.children[i])
  BY <1>1, <1>2
<1> QED BY <1>2, <1>3, <1>4

LEMMA SetUpIInv ==
  ASSUME IInv, NEW p \in Pods, NEW n \in Names, SetUp(p, n)
  PROVE  IInv'
<1> DEFINE r == IF n \in Logins THEN WithChild(pods[p], n) ELSE [pods[p] EXCEPT !.current = n]
<1>1. /\ pods \in [Pods -> Pod] /\ pods[p] \in Pod /\ PodIsWell(p) /\ InFlight(p) = {}
      /\ fixtures \in FixtureFiles /\ pods[p].st = "setup" /\ pods[p].current = "none"
      /\ n \in pods[p].todo /\ Supplied(p, n)
  BY NotRunning DEF IInv, TypeOK, SetUp
<1>2. /\ r \in Pod /\ r.st = "setup" /\ r.next = pods[p].next /\ r.todo \subseteq pods[p].todo
  <2>1. CASE n \in Logins
    <3>1. r = WithChild(pods[p], n)
      BY <2>1
    <3> QED BY <1>1, <3>1, WithChildFields
  <2>2. CASE n \in Certs
    <3>1. r = [pods[p] EXCEPT !.current = n]
      BY <2>2, NameFacts
    <3> QED BY <1>1, <2>2, <3>1 DEF Pod
  <2> QED BY <2>1, <2>2, NameFacts
<1>3. n \in Certs => r.current = n /\ r.children = pods[p].children /\ r.todo = pods[p].todo
  BY <1>1, NameFacts DEF Pod
<1>4. n \in Logins => r = WithChild(pods[p], n)
  OBVIOUS
<1> HIDE DEF r
<1>5. pods' = [pods EXCEPT ![p] = r] /\ UNCHANGED <<files, clients, calls, clock, server_vars>>
  BY DEF SetUp, r
<1>6. pods'[p] = r /\ clients' = clients /\ \A q \in Pods : q # p => pods'[q] = pods[q]
  BY <1>1, <1>5
<1>7. TypeOK'
  BY <1>1, <1>2, <1>5 DEF IInv, TypeOK, files, server_vars
<1>8. clients[p][n] = <<>> /\ \A m \in r.todo : clients[p][m] = <<>>
  BY <1>1, <1>2, NameFacts, PodFields DEF PodIsWell, SettingUp
<1>9. Matched(p)' /\ OpenUntilOver(p)'
  BY <1>1, <1>2, <1>5, <1>6, FixturesKept DEF PodIsWell, Matched, OpenUntilOver
<1>10. Ready(p)' /\ SettingUp(p)'
  <2>1. CASE n \in Certs
    <3>1. Len(clients[p][n]) < Identities(p)
      BY <1>1, <1>8, <2>1, ShardFacts
    <3>2. Ready(p)'
      BY <1>1, <1>3, <1>5, <1>6, <2>1, FixturesKept DEF PodIsWell, Ready
    <3>3. SettingUp(p)'
      BY <1>1, <1>2, <1>3, <1>5, <1>6, <1>8, <2>1, <3>1, FixturesKept DEF PodIsWell, SettingUp
    <3> QED BY <3>2, <3>3
  <2>2. CASE n \in Logins
    <3>1. r.current = "none"
      BY <1>1, <1>4, <2>2, WithChildFields
    <3>2. ASSUME NEW i \in DOMAIN r.children
          PROVE  Supplied(p, r.children[i]) /\ (r.children[i] \in Certs => clients[p][r.children[i]] # <<>>)
      <4>1. r.children[i] = n \/ (i \in DOMAIN pods[p].children /\ r.children[i] = pods[p].children[i])
        BY <1>1, <1>4, <2>2, WithChildFields
      <4> QED BY <1>1, <2>2, <4>1, NameFacts DEF PodIsWell, Ready
    <3>3. Ready(p)'
      BY <1>5, <1>6, <3>2, FixturesKept DEF Ready
    <3>4. SettingUp(p)'
      BY <1>1, <1>2, <1>6, <1>8, <3>1 DEF PodIsWell, SettingUp
    <3> QED BY <3>3, <3>4
  <2> QED BY <2>1, <2>2, NameFacts
<1> QED BY <1>1, <1>2, <1>5, <1>6, <1>7, <1>9, <1>10, QuietPodStep DEF PodIsWell

LEMMA FailIInv ==
  ASSUME IInv, NEW p \in Pods, Fail(p)
  PROVE  IInv'
<1> DEFINE r == [NewPod EXCEPT !.st = "failed"]
<1>1. /\ pods \in [Pods -> Pod] /\ clients \in [Pods -> [Names -> Seq(Identity)]]
      /\ PodIsWell(p) /\ InFlight(p) = {} /\ fixtures \in FixtureFiles
      /\ pods[p].next = [n \in Names |-> 0]
  BY NotRunning DEF IInv, TypeOK, Fail, PodIsWell, SettingUp
<1>2. /\ r \in Pod /\ r.st = "failed" /\ r.todo = {} /\ r.current = "none" /\ r.children = <<>>
      /\ r.next = [n \in Names |-> 0]
  <2>1. NewPod \in Pod
    BY DEF NewPod, Pod
  <2>2. r \in Pod /\ r.st = "failed"
    BY <2>1 DEF Pod
  <2> QED BY <2>2 DEF NewPod
<1> HIDE DEF r
<1>3. /\ pods' = [pods EXCEPT ![p] = r] /\ clients' = [clients EXCEPT ![p] = NoClients]
      /\ UNCHANGED <<files, calls, clock, server_vars>>
  BY DEF Fail, r
<1>4. /\ pods'[p] = r /\ clients'[p] = NoClients
      /\ \A q \in Pods : q # p => pods'[q] = pods[q] /\ clients'[q] = clients[q]
  BY <1>1, <1>3
<1>5. NoClients \in [Names -> Seq(Identity)] /\ \A n \in Names : clients'[p][n] = <<>>
  BY <1>4 DEF NoClients
<1>6. TypeOK'
  BY <1>1, <1>2, <1>3, <1>5 DEF IInv, TypeOK, files, server_vars
<1>7. PodIsWell(p)'
  <2>1. Identities(p)' \in Nat
    BY <1>1, <1>3, FixturesKept, ShardFacts
  <2> QED BY <1>2, <1>4, <1>5, <2>1 DEF PodIsWell, Matched, SettingUp, Ready, OpenUntilOver
<1> QED BY <1>1, <1>2, <1>3, <1>4, <1>6, <1>7, QuietPodStep

\* Run and Teardown change the pod's state only, and Teardown what is open.
LEMMA RunIInv ==
  ASSUME IInv, NEW p \in Pods, Run(p)
  PROVE  IInv'
<1> DEFINE r == [pods[p] EXCEPT !.st = "running"]
<1>1. /\ pods \in [Pods -> Pod] /\ pods[p] \in Pod /\ PodIsWell(p) /\ InFlight(p) = {}
      /\ pods[p].st = "setup" /\ pods[p].current = "none" /\ pods[p].todo = {}
  BY NotRunning DEF IInv, TypeOK, Run
<1>2. /\ r \in Pod /\ r.st = "running" /\ r.next = pods[p].next /\ r.todo = pods[p].todo
      /\ r.current = pods[p].current /\ r.children = pods[p].children
  BY <1>1 DEF Pod
<1> HIDE DEF r
<1>3. pods' = [pods EXCEPT ![p] = r] /\ UNCHANGED <<files, clients, calls, clock, server_vars>>
  BY <1>1 DEF Run, r
<1>4. pods'[p] = r /\ clients' = clients /\ \A q \in Pods : q # p => pods'[q] = pods[q]
  BY <1>1, <1>3
<1>5. TypeOK'
  BY <1>1, <1>2, <1>3 DEF IInv, TypeOK, files, server_vars
<1>6. Matched(p)' /\ OpenUntilOver(p)'
  BY <1>1, <1>2, <1>3, <1>4, FixturesKept DEF PodIsWell, Matched, OpenUntilOver
<1>7. SettingUp(p)'
  BY <1>1, <1>2, <1>4 DEF PodIsWell, SettingUp
<1>8. Ready(p)'
  BY <1>1, <1>2, <1>3, <1>4, FixturesKept DEF PodIsWell, Ready
<1> QED BY <1>1, <1>2, <1>3, <1>4, <1>5, <1>6, <1>7, <1>8, QuietPodStep DEF PodIsWell

LEMMA SeqOfFunction ==
  ASSUME NEW S, NEW n \in Nat, NEW f \in [1..n -> S]
  PROVE  f \in Seq(S) /\ Len(f) = n /\ DOMAIN f = 1..n
<1>1. f = [i \in 1..n |-> f[i]] /\ \A i \in 1..n : f[i] \in S
  OBVIOUS
<1> QED BY <1>1

LEMMA ClosedFacts ==
  ASSUME NEW s \in Seq(Identity)
  PROVE  /\ Closed(s) \in Seq(Identity) /\ Len(Closed(s)) = Len(s)
         /\ \A i \in DOMAIN Closed(s) : /\ i \in DOMAIN s
                                        /\ Closed(s)[i].user = s[i].user
                                        /\ Closed(s)[i].key = s[i].key
                                        /\ ~Closed(s)[i].open
<1>1. \A i \in 1..Len(s) : s[i] \in Identity
  OBVIOUS
<1>2. ASSUME NEW i \in 1..Len(s)
      PROVE  LET c == [s[i] EXCEPT !.open = FALSE]
             IN  c \in Identity /\ c.user = s[i].user /\ c.key = s[i].key /\ ~c.open
  BY <1>1 DEF Identity
<1>3. Closed(s) = [i \in 1..Len(s) |-> [s[i] EXCEPT !.open = FALSE]]
  BY DEF Closed
<1>4. Closed(s) \in Seq(Identity) /\ Len(Closed(s)) = Len(s) /\ DOMAIN Closed(s) = 1..Len(s)
  <2>1. Len(s) \in Nat /\ Closed(s) \in [1..Len(s) -> Identity]
    BY <1>2, <1>3
  <2> QED BY <2>1, SeqOfFunction
<1>5. ASSUME NEW i \in 1..Len(s)
      PROVE  /\ Closed(s)[i].user = s[i].user /\ Closed(s)[i].key = s[i].key
             /\ ~Closed(s)[i].open
  <2>1. Closed(s)[i] = [s[i] EXCEPT !.open = FALSE]
    BY <1>3
  <2> QED BY <1>2, <2>1
<1> QED BY <1>4, <1>5

LEMMA TeardownIInv ==
  ASSUME IInv, NEW p \in Pods, Teardown(p)
  PROVE  IInv'
<1> DEFINE r == [pods[p] EXCEPT !.st = "over"]
           shut == [n \in Names |-> Closed(clients[p][n])]
<1>1. /\ pods \in [Pods -> Pod] /\ pods[p] \in Pod /\ PodIsWell(p) /\ InFlight(p) = {}
      /\ clients \in [Pods -> [Names -> Seq(Identity)]] /\ pods[p].st = "running"
  BY DEF IInv, TypeOK, Teardown
<1>2. /\ r \in Pod /\ r.st = "over" /\ r.next = pods[p].next /\ r.todo = pods[p].todo
      /\ r.current = pods[p].current /\ r.children = pods[p].children
  BY <1>1 DEF Pod
<1>3. /\ shut \in [Names -> Seq(Identity)]
      /\ \A n \in Names : Len(shut[n]) = Len(clients[p][n]) /\ (shut[n] = <<>> <=> clients[p][n] = <<>>)
      /\ \A n \in Names : \A i \in DOMAIN shut[n] :
           /\ i \in DOMAIN clients[p][n]
           /\ shut[n][i].user = clients[p][n][i].user /\ shut[n][i].key = clients[p][n][i].key
           /\ ~shut[n][i].open
  <2>1. \A n \in Names : shut[n] = Closed(clients[p][n]) /\ clients[p][n] \in Seq(Identity)
    BY <1>1
  <2>2. \A n \in Names : shut[n] \in Seq(Identity) /\ Len(shut[n]) = Len(clients[p][n])
    BY <2>1, ClosedFacts
  <2>3. \A n \in Names : shut[n] = <<>> <=> clients[p][n] = <<>>
    BY <2>1, <2>2
  <2> QED BY <2>1, <2>2, <2>3, ClosedFacts
<1>4. /\ pods' = [pods EXCEPT ![p] = r] /\ clients' = [clients EXCEPT ![p] = shut]
      /\ UNCHANGED <<files, calls, clock, server_vars>>
  BY <1>1 DEF Teardown
<1> HIDE DEF r, shut
<1>5. /\ pods'[p] = r /\ clients'[p] = shut
      /\ \A q \in Pods : q # p => pods'[q] = pods[q] /\ clients'[q] = clients[q]
  BY <1>1, <1>4
<1>6. TypeOK'
  BY <1>1, <1>2, <1>3, <1>4 DEF IInv, TypeOK, files, server_vars
<1>7. Matched(p)'
  BY <1>1, <1>3, <1>4, <1>5, FixturesKept DEF PodIsWell, Matched
<1>8. OpenUntilOver(p)'
  BY <1>2, <1>3, <1>5 DEF OpenUntilOver
<1>9. SettingUp(p)'
  <2>1. r.current = "none"
    BY <1>1, <1>2 DEF PodIsWell, SettingUp
  <2>2. \A n \in r.todo : n # r.current => shut[n] = <<>>
    BY <1>1, <1>2, <1>3, PodFields DEF PodIsWell, SettingUp
  <2> QED BY <1>2, <1>5, <2>1, <2>2 DEF SettingUp
<1>10. Ready(p)'
  <2>1. \A i \in DOMAIN r.children : r.children[i] \in Names
    BY <1>2, PodFields
  <2> QED BY <1>1, <1>2, <1>3, <1>4, <1>5, <2>1, FixturesKept DEF PodIsWell, Ready
<1> QED BY <1>1, <1>2, <1>4, <1>5, <1>6, <1>7, <1>8, <1>9, <1>10, QuietPodStep DEF PodIsWell

LEMMA BootstrapIInv ==
  ASSUME IInv, NEW p \in Pods, Bootstrap(p)
  PROVE  IInv'
<1> DEFINE n == pods[p].current
           ids == clients[p][n]
           i == Len(ids)
           id == [user |-> At(ShardUsers(p), i), key |-> At(ShardKeys(p), i), open |-> TRUE]
           new == Append(ids, id)
           r == IF i + 1 = Identities(p) THEN WithChild(pods[p], n) ELSE pods[p]
<1>1. /\ pods \in [Pods -> Pod] /\ pods[p] \in Pod /\ PodIsWell(p) /\ InFlight(p) = {}
      /\ clients \in [Pods -> [Names -> Seq(Identity)]] /\ pods[p].st = "setup" /\ n # "none"
      /\ fixtures \in FixtureFiles
  BY NotRunning DEF IInv, TypeOK, Bootstrap
<1>2. n \in Certs /\ n \in Names
  BY <1>1, PodFields DEF Names
<1>3. /\ n \in pods[p].todo /\ Supplied(p, n) /\ i < Identities(p)
      /\ ids \in Seq(Identity) /\ i = Len(ids) /\ i \in Nat
  BY <1>1, <1>2 DEF PodIsWell, SettingUp
<1>4. /\ ShardUsers(p) \in Seq(Users) /\ ShardKeys(p) \in Seq(Nat) /\ Identities(p) \in Nat
      /\ i < Len(ShardUsers(p)) /\ i < Len(ShardKeys(p))
      /\ ShardUsers(p) # <<>> /\ ShardKeys(p) # <<>>
  BY <1>1, <1>3, ShardFacts
<1> HIDE DEF n, ids, i
<1>5. /\ id \in Identity /\ id.user = ShardUsers(p)[i + 1] /\ id.key = ShardKeys(p)[i + 1] /\ id.open
  <2>1. At(ShardUsers(p), i) = ShardUsers(p)[i + 1] /\ At(ShardUsers(p), i) \in Users
    BY <1>3, <1>4, AtFacts
  <2>2. At(ShardKeys(p), i) = ShardKeys(p)[i + 1] /\ At(ShardKeys(p), i) \in Nat
    BY <1>3, <1>4, AtFacts
  <2> QED BY <2>1, <2>2 DEF Identity
<1>6. /\ pods' = [pods EXCEPT ![p] = r] /\ clients' = [clients EXCEPT ![p][n] = new]
      /\ UNCHANGED <<files, calls, clock, server_vars>>
  BY <1>1, <1>2 DEF Bootstrap, n, ids, i
<1>7. r \in Pod /\ r.st = "setup" /\ r.next = pods[p].next
  BY <1>1, <1>2, WithChildFields
<1> HIDE DEF id, r
<1>8. new \in Seq(Identity) /\ Len(new) = i + 1 /\ new[i + 1] = id /\ \A j \in 1..i : new[j] = ids[j]
  BY <1>3, <1>5
<1> HIDE DEF new
<1>9. /\ pods'[p] = r /\ clients'[p][n] = new
      /\ \A m \in Names : m # n => clients'[p][m] = clients[p][m]
      /\ \A q \in Pods : q # p => pods'[q] = pods[q] /\ clients'[q] = clients[q]
  BY <1>1, <1>2, <1>6
<1>10. clients' \in [Pods -> [Names -> Seq(Identity)]]
  BY <1>1, <1>2, <1>6, <1>8
<1>11. TypeOK'
  BY <1>1, <1>6, <1>7, <1>10 DEF IInv, TypeOK, files, server_vars
<1>12. ids = clients[p][n]
  BY DEF ids
<1>13. Matched(p)'
  <2>1. ASSUME NEW m \in Names
        PROVE  /\ Len(clients'[p][m]) <= Identities(p)
               /\ \A j \in DOMAIN clients'[p][m] :
                    /\ clients'[p][m][j].user = ShardUsers(p)[j]
                    /\ clients'[p][m][j].key = ShardKeys(p)[j]
    <3>1. CASE m # n
      BY <1>1, <1>9, <3>1 DEF PodIsWell, Matched
    <3>2. CASE m = n
      <4>1. \A j \in 1..i : new[j].user = ShardUsers(p)[j] /\ new[j].key = ShardKeys(p)[j]
        BY <1>1, <1>2, <1>3, <1>8, <1>12 DEF PodIsWell, Matched
      <4>2. \A j \in DOMAIN new : j \in 1..i \/ j = i + 1
        BY <1>3, <1>8
      <4>3. Len(new) <= Identities(p)
        BY <1>3, <1>4, <1>8
      <4> QED BY <1>5, <1>8, <1>9, <3>2, <4>1, <4>2, <4>3
    <3> QED BY <3>1, <3>2
  <2> QED BY <1>6, <2>1, FixturesKept DEF Matched
<1>14. OpenUntilOver(p)'
  <2>1. ASSUME NEW m \in Names, NEW j \in DOMAIN clients'[p][m] PROVE clients'[p][m][j].open
    <3>1. CASE m # n
      BY <1>1, <1>9, <2>1, <3>1 DEF PodIsWell, OpenUntilOver
    <3>2. CASE m = n
      <4>1. j \in 1..i \/ j = i + 1
        BY <1>3, <1>8, <1>9, <2>1, <3>2
      <4>2. j \in 1..i => new[j].open
        BY <1>1, <1>2, <1>3, <1>8, <1>12 DEF PodIsWell, OpenUntilOver
      <4> QED BY <1>5, <1>8, <1>9, <3>2, <4>1, <4>2
    <3> QED BY <3>1, <3>2
  <2> QED BY <1>7, <1>9, <2>1 DEF OpenUntilOver
<1>15. new # <<>>
  BY <1>3, <1>8
<1>16. SettingUp(p)' /\ Ready(p)'
  <2>1. CASE i + 1 = Identities(p)
    <3>1. r = WithChild(pods[p], n)
      BY <2>1 DEF r
    <3>2. r.current = "none" /\ r.todo = pods[p].todo \ {n}
      BY <1>1, <1>2, <3>1, WithChildFields
    <3>3. \A m \in r.todo : clients'[p][m] = <<>>
      BY <1>1, <1>9, <3>2, PodFields DEF PodIsWell, SettingUp, n
    <3>4. SettingUp(p)'
      BY <1>1, <1>7, <1>9, <3>2, <3>3 DEF PodIsWell, SettingUp
    <3>5. ASSUME NEW j \in DOMAIN r.children
          PROVE  /\ Supplied(p, r.children[j])
                 /\ r.children[j] \in Certs => clients'[p][r.children[j]] # <<>>
      <4>1. r.children[j] = n \/ (j \in DOMAIN pods[p].children /\ r.children[j] = pods[p].children[j])
        BY <1>1, <1>2, <3>1, WithChildFields
      <4>2. r.children[j] \in Names
        BY <1>7, PodFields
      <4> QED BY <1>1, <1>3, <1>9, <1>15, <4>1, <4>2 DEF PodIsWell, Ready
    <3>6. Ready(p)'
      BY <1>6, <1>9, <3>5, FixturesKept DEF Ready
    <3> QED BY <3>4, <3>6
  <2>2. CASE i + 1 # Identities(p)
    <3>1. r = pods[p]
      BY <2>2 DEF r
    <3>2. r.current = n
      BY <3>1 DEF n
    <3>3. Len(new) < Identities(p)
      BY <1>3, <1>4, <1>8, <2>2
    <3>4. \A m \in r.todo : m # n => clients'[p][m] = <<>>
      BY <1>1, <1>9, <3>1, <3>2, PodFields DEF PodIsWell, SettingUp
    <3>5. SettingUp(p)'
      <4>1. pods[p].next = [m \in Names |-> 0]
        BY <1>1 DEF PodIsWell, SettingUp
      <4>2. n \in r.todo /\ Supplied(p, n)
        BY <1>3, <3>1
      <4> QED BY <1>6, <1>7, <1>9, <3>2, <3>3, <3>4, <4>1, <4>2, FixturesKept DEF SettingUp
    <3>6. Ready(p)'
      <4>1. \A j \in DOMAIN r.children : r.children[j] \in Names
        BY <1>7, PodFields
      <4> QED BY <1>1, <1>6, <1>9, <1>15, <3>1, <4>1, FixturesKept DEF PodIsWell, Ready
    <3> QED BY <3>5, <3>6
  <2> QED BY <2>1, <2>2
<1> QED BY <1>1, <1>6, <1>7, <1>9, <1>11, <1>13, <1>14, <1>16, QuietPodStep DEF PodIsWell

-------------------------------------------------------------------------------
(* The steps of a call.                                                    *)

LEMMA NextUpdate ==
  ASSUME NEW r \in Pod, NEW n \in Names
  PROVE  LET w == [r EXCEPT !.next[n] = @ + 1]
         IN  /\ w \in Pod /\ w.st = r.st /\ w.todo = r.todo /\ w.current = r.current
             /\ w.children = r.children /\ w.next[n] = r.next[n] + 1
             /\ \A m \in Names : m # n => w.next[m] = r.next[m]
<1> DEFINE next == [r.next EXCEPT ![n] = @ + 1]
<1>1. r.next \in [Names -> Nat]
  BY PodFields
<1>2. next \in [Names -> Nat] /\ next[n] = r.next[n] + 1 /\ \A m \in Names : m # n => next[m] = r.next[m]
  BY <1>1
<1>3. [r EXCEPT !.next[n] = @ + 1] = [r EXCEPT !.next = next]
  BY DEF Pod
<1> HIDE DEF next
<1> QED BY <1>2, <1>3 DEF Pod

LEMMA ExecuteIInv ==
  ASSUME IInv, NEW p \in Pods, Execute(p)
  PROVE  IInv'
<1>1. /\ pods \in [Pods -> Pod] /\ pods[p] \in Pod /\ PodIsWell(p) /\ pods[p].st = "running"
      /\ clients \in [Pods -> [Names -> Seq(Identity)]] /\ calls \subseteq Calls
      /\ clock \in Nat /\ fixtures \in FixtureFiles
      /\ UNCHANGED <<files, clients, clock, server_vars>>
  BY DEF IInv, TypeOK, Execute
<1>2. PICK n, c :
        /\ \E i \in DOMAIN pods[p].children : n = pods[p].children[i]
        /\ c = Call(p, n)
        /\ calls' = calls \cup {c}
        /\ pods' = [pods EXCEPT ![p].next[n] = @ + 1]
  BY DEF Execute
<1> DEFINE r == [pods[p] EXCEPT !.next[n] = @ + 1]
<1>2a. PICK idx : idx = pods[p].next[n]
  OBVIOUS
<1>3. n \in Names /\ Supplied(p, n) /\ (n \in Certs => clients[p][n] # <<>>)
  BY <1>1, <1>2, PodFields DEF PodIsWell, Ready
<1>4. idx \in Nat
  BY <1>1, <1>3, <1>2a, PodFields
<1>5. /\ c.pod = p /\ c.child = n /\ c.idx = idx /\ c.key = At(ShardKeys(p), idx)
      /\ n \in Logins => c.user = At(LoginUsers(p, n), idx) /\ c.st = "begin"
      /\ n \in Certs => c.user = At(clients[p][n], idx).user /\ c.st = "issue"
      /\ c.sent = clock /\ c.code = 0
  BY <1>2, <1>2a, NameFacts DEF Call
<1>6. c \in Calls
  <2>1. At(ShardKeys(p), idx) \in Nat
    BY <1>1, <1>3, <1>4, ShardFacts, AtFacts DEF Supplied
  <2>2. n \in Logins => At(LoginUsers(p, n), idx) \in Users
    BY <1>1, <1>3, <1>4, ShardFacts, AtFacts DEF Supplied
  <2>3. n \in Certs => At(clients[p][n], idx).user \in Users
    <3>1. n \in Certs => At(clients[p][n], idx) \in Identity
      BY <1>1, <1>3, <1>4, AtFacts
    <3> QED BY <3>1 DEF Identity
  <2>4. c = [pod |-> c.pod, child |-> c.child, idx |-> c.idx, user |-> c.user, key |-> c.key,
             st |-> c.st, sent |-> c.sent, code |-> c.code]
    BY <1>2 DEF Call
  <2>5. c.user \in Users /\ c.st \in {"begin", "issue"}
    BY <1>3, <1>5, <2>2, <2>3, NameFacts
  <2> QED BY <1>1, <1>3, <1>4, <1>5, <2>1, <2>4, <2>5 DEF Calls
<1>7. pods' = [pods EXCEPT ![p] = r]
  BY <1>1, <1>2
<1>8. /\ r \in Pod /\ r.st = pods[p].st /\ r.todo = pods[p].todo /\ r.current = pods[p].current
      /\ r.children = pods[p].children /\ r.next[n] = idx + 1
      /\ \A m \in Names : m # n => r.next[m] = pods[p].next[m]
  <2>1. n \in Names /\ pods[p] \in Pod
    BY <1>1, <1>3
  <2>2. /\ r \in Pod /\ r.st = pods[p].st /\ r.todo = pods[p].todo /\ r.current = pods[p].current
        /\ r.children = pods[p].children /\ r.next[n] = pods[p].next[n] + 1
        /\ \A m \in Names : m # n => r.next[m] = pods[p].next[m]
    BY <2>1, NextUpdate, Zenon
  <2> QED BY <1>2a, <2>2
<1>9. calls' = calls \cup {c}
  BY <1>2
<1> HIDE DEF r
<1>10. pods'[p] = r /\ clients' = clients /\ \A q \in Pods : q # p => pods'[q] = pods[q]
  BY <1>1, <1>7
<1>11. TypeOK'
  BY <1>1, <1>6, <1>7, <1>8, <1>9 DEF IInv, TypeOK, files, server_vars
<1>12. ASSUME NEW q \in Pods PROVE PodIsWell(q)'
  <2>1. CASE q # p
    BY <1>1, <1>10, <2>1, OtherPodsWell DEF IInv
  <2>2. CASE q = p
    <3>1. Matched(p)' /\ OpenUntilOver(p)'
      BY <1>1, <1>8, <1>10, FixturesKept DEF PodIsWell, Matched, OpenUntilOver
    <3>2. SettingUp(p)'
      <4>1. r.current = "none" /\ \A m \in r.todo : m # r.current => clients[p][m] = <<>>
        BY <1>1, <1>8 DEF PodIsWell, SettingUp
      <4> QED BY <1>1, <1>8, <1>10, <4>1 DEF SettingUp
    <3>3. Ready(p)'
      BY <1>1, <1>8, <1>10, FixturesKept DEF PodIsWell, Ready
    <3> QED BY <2>2, <3>1, <3>2, <3>3 DEF PodIsWell
  <2> QED BY <2>1, <2>2
<1>13. \A q \in Pods, m \in Names :
         pods'[q].st = pods[q].st /\ pods[q].next[m] \in Nat
         /\ pods'[q].next[m] \in Nat /\ pods[q].next[m] <= pods'[q].next[m]
  <2>1. \A q \in Pods, m \in Names : pods[q].next[m] \in Nat
    BY <1>1, PodFields
  <2>2. \A m \in Names : pods'[p].st = pods[p].st /\ pods'[p].next[m] \in Nat /\ pods[p].next[m] <= pods'[p].next[m]
    BY <1>3, <1>4, <1>8, <1>10, <1>2a, <2>1
  <2> QED BY <1>10, <2>1, <2>2
<1>14. CallsOwn'
  <2>1. ASSUME NEW d \in calls PROVE CallIsOwn(d)'
    <3>1. /\ d.pod \in Pods /\ d.child \in Names /\ d.idx \in Nat /\ CallIsOwn(d)
      BY <1>1, CallFields DEF IInv, CallsOwn
    <3>2. d.idx < pods'[d.pod].next[d.child]
      BY <1>13, <3>1 DEF CallIsOwn
    <3> QED BY <1>1, <1>10, <1>13, <3>1, <3>2, FixturesKept DEF CallIsOwn
  <2>2. CallIsOwn(c)'
    <3>1. pods'[c.pod].st = "running" /\ c.idx < pods'[c.pod].next[c.child]
      BY <1>1, <1>4, <1>5, <1>8, <1>10
    <3> QED BY <1>1, <1>3, <1>5, <1>10, <3>1, FixturesKept DEF CallIsOwn
  <2> QED BY <1>9, <2>1, <2>2 DEF CallsOwn
<1>15. OneCallPerIndex'
  <2>1. ASSUME NEW d \in calls, d.pod = p, d.child = n PROVE d.idx # idx
    <3>1. d.idx \in Nat /\ d.idx < idx
      BY <1>1, <1>2a, <2>1, CallFields DEF IInv, CallsOwn, CallIsOwn
    <3> QED BY <1>4, <3>1
  <2> QED BY <1>5, <1>9, <2>1 DEF IInv, OneCallPerIndex
<1>16. Spent'
  <2> SUFFICES ASSUME NEW u \in Users, used'[u].code # 0
               PROVE  SpentWell(u)'
    BY DEF Spent
  <2>1. used' = used /\ used[u].pod \in Pods /\ used[u].idx \in Nat
    BY <1>1 DEF server_vars, IInv, TypeOK, Spent, SpentWell
  <2>2. /\ LoginUsers(used[u].pod, Totp) # <<>>
        /\ u = At(LoginUsers(used[u].pod, Totp), used[u].idx)
        /\ used[u].idx < pods[used[u].pod].next[Totp]
        /\ \A d \in calls :
             d.pod = used[u].pod /\ d.child = Totp /\ d.idx = used[u].idx => d.st = "silent"
    BY <2>1 DEF IInv, Spent, SpentWell
  <2>3. Totp \in Names
    BY NameFacts DEF Names
  <2>4. used[u].idx < pods'[used[u].pod].next[Totp]
    BY <1>13, <2>1, <2>2, <2>3
  <2>5. ~(c.pod = used[u].pod /\ c.child = Totp /\ c.idx = used[u].idx)
    BY <1>4, <1>5, <1>2a, <2>1, <2>2
  <2> QED BY <1>1, <1>9, <2>1, <2>2, <2>4, <2>5, FixturesKept DEF SpentWell
<1>17. Counters'
  BY <1>1 DEF IInv, Counters, server_vars
<1> QED BY <1>11, <1>12, <1>14, <1>15, <1>16, <1>17 DEF IInv

\* A call in flight moves on, as d, or leaves: what is not said of the cluster's
\* counters follows.
LEMMA CallStep ==
  ASSUME IInv, NEW c \in calls, NEW d \in Calls, UNCHANGED <<files, pods, clients>>,
         calls' \subseteq (calls \ {c}) \cup {d},
         d.pod = c.pod, d.child = c.child, d.idx = c.idx, d.user = c.user, d.key = c.key,
         d.code # 0 => d.child = Totp,
         d.child \in Certs => d.st = "issue"
  PROVE  /\ calls' \subseteq Calls
         /\ \A p \in Pods : PodIsWell(p)'
         /\ CallsOwn' /\ OneCallPerIndex'
<1>1. calls \subseteq Calls /\ UNCHANGED <<pods, clients>> /\ UNCHANGED files
  BY DEF IInv, TypeOK
<1>2. \A p \in Pods : PodIsWell(p)'
  BY <1>1, OtherPodsWell DEF IInv
<1>3. CallIsOwn(c)
  BY DEF IInv, CallsOwn
<1>4. CallIsOwn(d)'
  BY <1>1, <1>3, FixturesKept DEF CallIsOwn
<1>5. ASSUME NEW e \in calls PROVE CallIsOwn(e)'
  <2>1. CallIsOwn(e)
    BY DEF IInv, CallsOwn
  <2> QED BY <1>1, <2>1, FixturesKept DEF CallIsOwn
<1>6. CallsOwn'
  BY <1>4, <1>5 DEF CallsOwn
<1>7. OneCallPerIndex'
  BY DEF IInv, OneCallPerIndex
<1> QED BY <1>1, <1>2, <1>6, <1>7

\* The code spent last stays well spent while no call that is over comes back.
LEMMA SpentKept ==
  ASSUME IInv, NEW c \in calls, NEW d \in Calls, UNCHANGED <<files, pods>>,
         calls' \subseteq (calls \ {c}) \cup {d},
         d.pod = c.pod, d.child = c.child, d.idx = c.idx, c.st = "silent" => d.st = "silent",
         NEW u \in Users, used'[u] = used[u], used[u].code # 0
  PROVE  SpentWell(u)'
<1>1. SpentWell(u)
  BY DEF IInv, Spent
<1> QED BY <1>1, FixturesKept DEF SpentWell

LEMMA Silenced ==
  ASSUME NEW c \in Calls, NEW d, d = [c EXCEPT !.st = "silent"]
  PROVE  /\ d \in Calls /\ d.pod = c.pod /\ d.child = c.child /\ d.idx = c.idx
         /\ d.user = c.user /\ d.key = c.key /\ d.st = "silent" /\ d.code = c.code
  BY DEF Calls

LEMMA LoginCall ==
  ASSUME IInv, NEW c \in calls, c.st # "issue"
  PROVE  c.child \in Logins /\ c.child \notin Certs
  BY CallFields, NameFacts DEF IInv, TypeOK, CallsOwn, CallIsOwn

LEMMA ChallengeIInv ==
  ASSUME IInv, NEW c \in calls, Challenge(c)
  PROVE  IInv'
<1>1. /\ c \in Calls /\ calls \subseteq Calls /\ clock \in Nat /\ c.st = "begin"
      /\ UNCHANGED <<files, pods, clients, clock, server_vars>>
  BY DEF IInv, TypeOK, Challenge
<1>2. PICK sent \in Nat, code \in Nat :
        sent = clock /\ code = IF c.child = Totp THEN clock ELSE 0
  BY <1>1
<1>10. PICK d : /\ d = [c EXCEPT !.st = "finish", !.sent = sent, !.code = code]
                /\ calls' = (calls \ {c}) \cup {d}
  BY <1>2 DEF Challenge, Totp
<1>3. /\ d \in Calls /\ d.pod = c.pod /\ d.child = c.child /\ d.idx = c.idx /\ d.user = c.user
      /\ d.key = c.key /\ d.code = IF c.child = Totp THEN clock ELSE 0
  <2>1. d = [c EXCEPT !.st = "finish", !.sent = sent, !.code = code]
    BY <1>10
  <2>2. /\ d \in Calls /\ d.pod = c.pod /\ d.child = c.child /\ d.idx = c.idx
        /\ d.user = c.user /\ d.key = c.key /\ d.code = code
    <3>1. c \in Calls
      BY <1>1
    <3> QED BY <2>1, <3>1 DEF Calls
  <2> QED BY <1>2, <2>2
<1>4. c.child \notin Certs
  BY <1>1, LoginCall
<1>5. calls' \subseteq Calls /\ (\A p \in Pods : PodIsWell(p)') /\ CallsOwn' /\ OneCallPerIndex'
  BY <1>1, <1>10, <1>3, <1>4, CallStep
<1>6. UNCHANGED <<pods, clients, clock, used, failed, counted>> /\ UNCHANGED files
  BY <1>1 DEF server_vars
<1>7. TypeOK'
  BY <1>5, <1>6 DEF IInv, TypeOK, files
<1>8. Spent'
  BY <1>1, <1>10, <1>3, <1>6, SpentKept DEF Spent
<1>9. Counters'
  BY <1>6 DEF IInv, Counters
<1> QED BY <1>5, <1>7, <1>8, <1>9 DEF IInv

\* What the five ways a call is answered have in common.
LEMMA Answered ==
  ASSUME IInv, NEW c \in calls, NEW lost \in BOOLEAN, Answer(c, lost),
         lost => c.st # "issue", UNCHANGED <<files, pods, clients>>
  PROVE  /\ calls' \subseteq Calls
         /\ \A p \in Pods : PodIsWell(p)'
         /\ CallsOwn' /\ OneCallPerIndex'
         /\ \A u \in Users : used'[u] = used[u] /\ used[u].code # 0 => SpentWell(u)'
         /\ \A e \in calls' : e.pod = c.pod /\ e.child = c.child /\ e.idx = c.idx => e.st = "silent"
<1>1. c \in Calls /\ calls \subseteq Calls /\ CallIsOwn(c)
  BY DEF IInv, TypeOK, CallsOwn
<1>2. PICK d : /\ d \in Calls /\ d.pod = c.pod /\ d.child = c.child /\ d.idx = c.idx
               /\ d.user = c.user /\ d.key = c.key /\ d.code = c.code
               /\ IF lost THEN d.st = "silent" ELSE d = c
               /\ IF lost THEN calls' = (calls \ {c}) \cup {d} ELSE calls' = calls \ {c}
  <2>1. CASE lost
    BY <1>1, <2>1, Silenced DEF Answer
  <2>2. CASE ~lost
    BY <1>1, <2>2 DEF Answer
  <2> QED BY <2>1, <2>2
<1>3. calls' \subseteq (calls \ {c}) \cup {d} /\ (c.st = "silent" => d.st = "silent")
  BY <1>2
<1>4. (d.code # 0 => d.child = Totp) /\ (d.child \in Certs => d.st = "issue")
  BY <1>1, <1>2, LoginCall DEF CallIsOwn
<1>5. calls' \subseteq Calls /\ (\A p \in Pods : PodIsWell(p)') /\ CallsOwn' /\ OneCallPerIndex'
  BY <1>2, <1>3, <1>4, CallStep
<1>6. \A u \in Users : used'[u] = used[u] /\ used[u].code # 0 => SpentWell(u)'
  BY <1>2, <1>3, SpentKept
<1>7. ASSUME NEW e \in calls', e.pod = c.pod, e.child = c.child, e.idx = c.idx
      PROVE  e.st = "silent"
  BY <1>2, <1>7 DEF IInv, OneCallPerIndex
<1> QED BY <1>5, <1>6, <1>7

LEMMA AcceptIInv ==
  ASSUME IInv, NEW c \in calls, NEW lost \in BOOLEAN, Accept(c, lost)
  PROVE  IInv'
<1> DEFINE u == c.user
<1>1. /\ c \in Calls /\ CallIsOwn(c) /\ c.st = "finish" /\ Answer(c, lost)
      /\ UNCHANGED files /\ UNCHANGED <<pods, clients, clock>>
      /\ fixtures \in FixtureFiles
      /\ used \in [Users -> [code : Nat, pod : Nat, idx : Nat]]
      /\ failed \in [Users -> Nat] /\ counted \in [Users -> Nat]
  BY DEF IInv, TypeOK, CallsOwn, Accept
<1>2. /\ u \in Users /\ c.pod \in Pods /\ c.idx \in Nat /\ c.code \in Nat
  BY <1>1, CallFields
<1>3. /\ calls' \subseteq Calls /\ (\A p \in Pods : PodIsWell(p)') /\ CallsOwn' /\ OneCallPerIndex'
      /\ \A v \in Users : used'[v] = used[v] /\ used[v].code # 0 => SpentWell(v)'
      /\ \A e \in calls' : e.pod = c.pod /\ e.child = c.child /\ e.idx = c.idx => e.st = "silent"
  BY <1>1, Answered
<1>4. failed' = [failed EXCEPT ![u] = 0] /\ counted' = [counted EXCEPT ![u] = 0]
  BY DEF Accept
<1>5. PICK spent \in [code : Nat, pod : Nat, idx : Nat] :
        spent.code = c.code /\ spent.pod = c.pod /\ spent.idx = c.idx
        /\ used' = IF c.code = 0 THEN used ELSE [used EXCEPT ![u] = spent]
  <2>1. [code |-> c.code, pod |-> c.pod, idx |-> c.idx] \in [code : Nat, pod : Nat, idx : Nat]
    BY <1>2, ScenariosAssumption DEF Pods
  <2> QED BY <2>1 DEF Accept
<1> HIDE DEF u
<1>6. TypeOK'
  BY <1>1, <1>2, <1>3, <1>4, <1>5 DEF IInv, TypeOK, files
<1>7. Spent'
  <2> SUFFICES ASSUME NEW v \in Users, used'[v].code # 0 PROVE SpentWell(v)'
    BY DEF Spent
  <2>1. CASE c.code = 0 \/ v # u
    BY <1>1, <1>2, <1>3, <1>5, <2>1
  <2>2. CASE c.code # 0 /\ v = u
    <3>1. used'[v] = spent
      BY <1>1, <1>2, <1>5, <2>2
    <3>2. /\ c.child = Totp /\ Supplied(c.pod, Totp) /\ c.idx < pods[c.pod].next[Totp]
          /\ u = At(LoginUsers(c.pod, Totp), c.idx)
      BY <1>1, <2>2, NameFacts DEF CallIsOwn, u
    <3>3. LoginUsers(c.pod, Totp) # <<>>
      BY <3>2, NameFacts DEF Supplied
    <3> QED BY <1>1, <1>2, <1>3, <1>5, <2>2, <3>1, <3>2, <3>3, FixturesKept DEF SpentWell
  <2> QED BY <2>1, <2>2
<1>8. Counters'
  BY <1>1, <1>2, <1>4, ScenariosAssumption DEF IInv, Counters
<1> QED BY <1>3, <1>6, <1>7, <1>8 DEF IInv

LEMMA ReplayIInv ==
  ASSUME IInv, NEW c \in calls, NEW lost \in BOOLEAN, Replay(c, lost)
  PROVE  IInv'
<1>1. /\ c.user \in Users /\ ~Locked(c.user) /\ c.st = "finish" /\ Answer(c, lost)
      /\ UNCHANGED files /\ UNCHANGED <<pods, clients, clock, used>>
      /\ failed' = [failed EXCEPT ![c.user] = @ + 1]
      /\ failed \in [Users -> Nat] /\ counted \in [Users -> Nat]
  BY CallFields DEF IInv, TypeOK, Replay
<1>2. counted' = counted \/ counted' = [counted EXCEPT ![c.user] = @ + 1]
  BY DEF Replay, Count
<1>3. /\ calls' \subseteq Calls /\ (\A p \in Pods : PodIsWell(p)') /\ CallsOwn' /\ OneCallPerIndex'
      /\ \A v \in Users : used[v].code # 0 => SpentWell(v)'
  BY <1>1, Answered
<1>7. failed' \in [Users -> Nat] /\ counted' \in [Users -> Nat]
  BY <1>1, <1>2
<1>4. TypeOK'
  BY <1>1, <1>3, <1>7 DEF IInv, TypeOK, files
<1>5. Spent'
  BY <1>1, <1>3 DEF Spent
<1>6. Counters'
  BY <1>1, <1>2, ScenariosAssumption DEF IInv, Counters, Locked
<1> QED BY <1>3, <1>4, <1>5, <1>6 DEF IInv

\* The refusal of a locked user is not a client error.
LEMMA LockIsNoError == ClassifyError(Denied(TRUE)) # "client-error"
  BY DEF ClassifyError, Denied

LEMMA OtherAnswerIInv ==
  ASSUME IInv, NEW c \in calls, NEW lost \in BOOLEAN,
         LockedOut(c, lost) \/ Return(c) \/ Expire(c)
  PROVE  IInv'
<1>1. UNCHANGED <<files, pods, clients, clock, used, failed, counted>> /\ UNCHANGED files
  BY LockIsNoError DEF LockedOut, Return, Expire, Count, server_vars
<1>2. /\ calls' \subseteq Calls /\ (\A p \in Pods : PodIsWell(p)') /\ CallsOwn' /\ OneCallPerIndex'
      /\ \A v \in Users : used[v].code # 0 => SpentWell(v)'
  <2>1. CASE LockedOut(c, lost)
    BY <1>1, <2>1, Answered DEF LockedOut
  <2>2. CASE Return(c) \/ Expire(c)
    BY <1>1, <2>2, Answered DEF Return, Expire
  <2> QED BY <2>1, <2>2
<1>3. TypeOK'
  BY <1>1, <1>2 DEF IInv, TypeOK, files
<1>4. Spent' /\ Counters'
  BY <1>1, <1>2 DEF IInv, Spent, Counters
<1> QED BY <1>2, <1>3, <1>4 DEF IInv

LEMMA QuietIInv ==
  ASSUME IInv, Tick \/ UNCHANGED vars
  PROVE  IInv'
<1>1. /\ UNCHANGED <<pods, clients, calls, used, failed, counted>> /\ UNCHANGED files
      /\ clock' = clock \/ clock' = clock + 1
  BY DEF Tick, vars, server_vars
<1>2. TypeOK'
  BY <1>1 DEF IInv, TypeOK, files
<1>3. \A p \in Pods : PodIsWell(p)'
  BY <1>1, OtherPodsWell DEF IInv
<1>4. CallsOwn' /\ OneCallPerIndex'
  BY <1>1, FixturesKept DEF IInv, CallsOwn, CallIsOwn, OneCallPerIndex
<1>5. Spent' /\ Counters'
  BY <1>1, FixturesKept DEF IInv, Spent, SpentWell, Counters
<1> QED BY <1>2, <1>3, <1>4, <1>5 DEF IInv

LEMMA NextIInv == IInv /\ [Next]_vars => IInv'
<1> SUFFICES ASSUME IInv, [Next]_vars PROVE IInv'
  OBVIOUS
<1>1. CASE \E p \in Pods : Load(p) \/ Bootstrap(p) \/ Fail(p)
  BY <1>1, LoadIInv, BootstrapIInv, FailIInv
<1>2. CASE \E p \in Pods : Run(p) \/ Execute(p) \/ Teardown(p)
  BY <1>2, RunIInv, ExecuteIInv, TeardownIInv
<1>3. CASE \E p \in Pods, n \in Names : SetUp(p, n)
  BY <1>3, SetUpIInv
<1>4. CASE \E c \in calls : Respond(c)
  BY <1>4, ChallengeIInv, AcceptIInv, ReplayIInv, OtherAnswerIInv DEF Respond
<1>5. CASE \E c \in calls : Expire(c)
  BY <1>5, OtherAnswerIInv
<1>6. CASE Tick \/ UNCHANGED vars
  BY <1>6, QuietIInv
<1> QED BY <1>1, <1>2, <1>3, <1>4, <1>5, <1>6 DEF Next

-------------------------------------------------------------------------------
(* How often a user has been logged in: what locks it.                     *)

\* TOTP logins of a user that may still fail.
Open(u) ==
  {c \in calls : c.user = u /\ c.child = Totp /\ c.st \in {"begin", "finish"}}

\* Logins of u that failed since the last success, that may still fail, and
\* the last success itself: all of them were started, one per rotation.
Tally(u) ==
  failed[u] + Cardinality(Open(u)) + (IF used[u].code # 0 THEN 1 ELSE 0)

\* The k-th login of the user at place j is call number (k - 1)*Len + j - 1.
Paid(u) ==
  \A p \in Pods : \A j \in 1..Len(LoginUsers(p, Totp)) :
    LoginUsers(p, Totp)[j] = u /\ Tally(u) > 0 =>
      (Tally(u) - 1) * Len(LoginUsers(p, Totp)) + (j - 1) < pods[p].next[Totp]

LInv ==
  /\ IsFiniteSet(calls)
  /\ \A u \in Users : (failed[u] > 0 => used[u].code # 0) /\ Paid(u)

LEMMA InitLInv == Init => LInv
<1> SUFFICES ASSUME Init, NEW u \in Users
             PROVE  IsFiniteSet(calls) /\ (failed[u] > 0 => used[u].code # 0) /\ Paid(u)
  BY FS_EmptySet DEF Init, LInv
<1>1. calls = {} /\ failed[u] = 0 /\ used[u].code = 0
  BY DEF Init, NoLogin
<1>2. Open(u) = {}
  BY <1>1 DEF Open
<1>3. Tally(u) = 0
  BY <1>1, <1>2, FS_EmptySet DEF Tally
<1> QED BY <1>1, <1>3, FS_EmptySet DEF Paid

LEMMA TallyType ==
  ASSUME IInv, LInv, NEW u \in Users
  PROVE  /\ IsFiniteSet(Open(u)) /\ Cardinality(Open(u)) \in Nat /\ failed[u] \in Nat
         /\ Tally(u) \in Nat
<1>1. Open(u) \subseteq calls
  BY DEF Open
<1>2. IsFiniteSet(Open(u)) /\ Cardinality(Open(u)) \in Nat
  BY <1>1, FS_Subset, FS_CardinalityType DEF LInv
<1>3. failed[u] \in Nat
  BY DEF IInv, TypeOK
<1> QED BY <1>2, <1>3 DEF Tally

LEMMA TimesRises ==
  ASSUME NEW a \in Nat, NEW b \in Nat, NEW n \in Nat, a <= b
  PROVE  a * n <= b * n /\ a * n \in Nat /\ b * n \in Nat
<1>1. \A i, j \in Nat : i <= j => i * n <= j * n
  OBVIOUS
<1>2. \A i \in Nat : i * n \in Nat
  OBVIOUS
<1> QED BY <1>1, <1>2

\* A tally that does not grow stays paid for while the counters do not go back.
LEMMA PaidKept ==
  ASSUME IInv, LInv, NEW u \in Users, UNCHANGED files, Tally(u)' \in Nat,
         Tally(u)' <= Tally(u),
         \A p \in Pods : /\ pods[p].next[Totp] \in Nat /\ pods'[p].next[Totp] \in Nat
                         /\ pods[p].next[Totp] <= pods'[p].next[Totp]
  PROVE  Paid(u)'
<1> SUFFICES ASSUME NEW p \in Pods, NEW j \in 1..Len(LoginUsers(p, Totp)),
                    LoginUsers(p, Totp)[j] = u, Tally(u)' > 0
             PROVE  (Tally(u)' - 1) * Len(LoginUsers(p, Totp)) + (j - 1) < pods'[p].next[Totp]
  BY FixturesKept DEF Paid
<1>1. PICK n \in Nat : n = Len(LoginUsers(p, Totp))
  BY ShardFacts DEF IInv, TypeOK
<1>2. PICK a \in Nat, b \in Nat : a = Tally(u)' /\ b = Tally(u)
  BY TallyType
<1>3. 0 < a /\ a <= b
  BY <1>2
<1>4. (b - 1) * n + (j - 1) < pods[p].next[Totp]
  <2>1. Tally(u) > 0
    BY <1>2, <1>3
  <2>2. (Tally(u) - 1) * Len(LoginUsers(p, Totp)) + (j - 1) < pods[p].next[Totp]
    BY <2>1 DEF LInv, Paid
  <2> QED BY <1>1, <1>2, <2>2
<1>5. a - 1 \in Nat /\ b - 1 \in Nat /\ a - 1 <= b - 1
  BY <1>3
<1>6. (a - 1) * n <= (b - 1) * n /\ (a - 1) * n \in Nat /\ (b - 1) * n \in Nat
  BY <1>5, TimesRises
<1>7. PICK i \in Nat, x \in Nat, y \in Nat :
        i = j - 1 /\ x = pods[p].next[Totp] /\ y = pods'[p].next[Totp] /\ x <= y
  <2>1. j - 1 \in Nat
    BY <1>1
  <2> QED BY <2>1
<1>8. PICK v \in Nat, w \in Nat : v = (a - 1) * n /\ w = (b - 1) * n /\ v <= w
  BY <1>6
<1>9. w + i < x
  BY <1>4, <1>7, <1>8
<1>10. v + i < y
  <2>1. x <= y
    BY <1>7
  <2>2. v <= w
    BY <1>8
  <2> QED BY <1>9, <2>1, <2>2
<1> QED BY <1>1, <1>2, <1>7, <1>8, <1>10

\* The next login of a user is a rotation after the last.
LEMMA RotationPaid ==
  ASSUME NEW n \in Nat \ {0}, NEW k \in Nat, NEW q \in Nat, NEW r \in Nat,
         k > 0 => (k - 1) * n + r < q * n + r
  PROVE  k * n + r < q * n + r + 1
<1>1. k > 0 => k - 1 \in Nat /\ (k - 1) * n < q * n
  <2>1. k > 0 => k - 1 \in Nat
    OBVIOUS
  <2>2. k > 0 => (k - 1) * n \in Nat /\ q * n \in Nat
    BY <2>1
  <2> QED BY <2>1, <2>2
<1>2. \A a, b \in Nat : a <= b => a * n <= b * n
  OBVIOUS
<1>3. k <= q
  BY <1>1, <1>2
<1>4. k * n <= q * n /\ k * n \in Nat /\ q * n \in Nat
  BY <1>2, <1>3
<1> QED BY <1>4

LEMMA NextType ==
  ASSUME IInv, NEW p \in Pods, NEW n \in Names
  PROVE  pods[p].next[n] \in Nat
  BY PodFields DEF IInv, TypeOK

LEMMA TotpName == Totp \in Names
  BY NameFacts DEF Names

LEMMA ExecuteLInv ==
  ASSUME IInv, LInv, NEW p \in Pods, Execute(p)
  PROVE  LInv'
<1>1. PICK n, c :
        /\ n \in Names
        /\ c = Call(p, n)
        /\ calls' = calls \cup {c}
        /\ pods' = [pods EXCEPT ![p].next[n] = @ + 1]
        /\ Supplied(p, n)
  <2>1. PICK n, c :
          /\ \E i \in DOMAIN pods[p].children : n = pods[p].children[i]
          /\ c = Call(p, n)
          /\ calls' = calls \cup {c}
          /\ pods' = [pods EXCEPT ![p].next[n] = @ + 1]
    BY DEF Execute
  <2>2. pods[p] \in Pod /\ PodIsWell(p)
    BY DEF IInv, TypeOK
  <2>3. n \in Names /\ Supplied(p, n)
    BY <2>1, <2>2, PodFields DEF PodIsWell, Ready
  <2> QED BY <2>1, <2>3
<1>2. PICK idx \in Nat : idx = pods[p].next[n]
  BY <1>1, NextType
<1>3. /\ c.pod = p /\ c.child = n /\ c.idx = idx
      /\ n \in Logins => c.user = At(LoginUsers(p, n), idx) /\ c.st = "begin"
      /\ n \in Certs => c.st = "issue"
  BY <1>1, <1>2, NameFacts DEF Call
<1>4. /\ UNCHANGED files /\ UNCHANGED <<used, failed>> /\ IInv'
      /\ fixtures \in FixtureFiles /\ pods \in [Pods -> Pod] /\ pods[p] \in Pod
  BY ExecuteIInv DEF Execute, server_vars, IInv, TypeOK
<1>5. /\ pods'[p].next[n] = idx + 1
      /\ \A m \in Names : m # n => pods'[p].next[m] = pods[p].next[m]
      /\ \A q \in Pods : q # p => pods'[q] = pods[q]
  <2> DEFINE r == [pods[p] EXCEPT !.next[n] = @ + 1]
  <2>1. pods' = [pods EXCEPT ![p] = r]
    BY <1>1, <1>4
  <2>2. /\ r.next[n] = pods[p].next[n] + 1
        /\ \A m \in Names : m # n => r.next[m] = pods[p].next[m]
    BY <1>1, <1>4, NextUpdate, Zenon
  <2> HIDE DEF r
  <2> QED BY <1>2, <1>4, <2>1, <2>2
<1>6. \A q \in Pods : /\ pods[q].next[Totp] \in Nat /\ pods'[q].next[Totp] \in Nat
                      /\ pods[q].next[Totp] <= pods'[q].next[Totp]
  <2> SUFFICES ASSUME NEW q \in Pods
               PROVE  /\ pods[q].next[Totp] \in Nat /\ pods'[q].next[Totp] \in Nat
                      /\ pods[q].next[Totp] <= pods'[q].next[Totp]
    OBVIOUS
  <2>1. pods[q].next[Totp] \in Nat
    BY NextType, TotpName
  <2>2. CASE q = p /\ n = Totp
    BY <1>2, <1>5, <2>2
  <2>3. CASE ~(q = p /\ n = Totp)
    <3>1. pods'[q].next[Totp] = pods[q].next[Totp]
      BY <1>5, <2>3, TotpName
    <3> QED BY <2>1, <3>1
  <2> QED BY <2>2, <2>3
<1>7. IsFiniteSet(calls')
  BY <1>1, FS_AddElement DEF LInv
<1>8. ASSUME NEW u \in Users PROVE Paid(u)'
  <2>1. IsFiniteSet(Open(u)) /\ Cardinality(Open(u)) \in Nat /\ failed[u] \in Nat /\ Tally(u) \in Nat
    BY TallyType
  <2>2. CASE n = Totp /\ c.user = u
    <3>1. Open(u)' = Open(u) \cup {c}
      BY <1>1, <1>3, <2>2, NameFacts DEF Open
    <3>2. Cardinality(Open(u)') \in Nat /\ Cardinality(Open(u)') <= Cardinality(Open(u)) + 1
      <4>1. Cardinality(Open(u) \cup {c})
              = IF c \in Open(u) THEN Cardinality(Open(u)) ELSE Cardinality(Open(u)) + 1
        BY <2>1, FS_AddElement
      <4>2. Cardinality(Open(u)') = Cardinality(Open(u) \cup {c})
        BY <3>1
      <4> QED BY <2>1, <4>1, <4>2
    <3>3. Tally(u)' \in Nat /\ Tally(u)' <= Tally(u) + 1
      BY <1>4, <2>1, <3>2 DEF Tally
    <3>4. PICK mine : mine = LoginUsers(p, Totp)
      OBVIOUS
    <3>5. mine \in Seq(Users) /\ mine # <<>> /\ u = At(mine, idx) /\ mine = ShardUsers(p)
      BY <1>1, <1>3, <1>4, <2>2, <3>4, ShardFacts, NameFacts DEF Supplied
    <3>6. PICK len \in Nat \ {0} : len = Len(mine)
      BY <3>5
    <3>7. PICK k \in 1..len : k = (idx % len) + 1 /\ u = mine[k]
      BY <3>5, <3>6, AtFacts
    <3>8. PICK q \in Nat, r \in Nat : idx = q * len + r /\ r = idx % len
      BY DivModWitness
    <3>9. PICK t \in Nat : t = Tally(u)
      BY <2>1
    <3>10. t > 0 => (t - 1) * len + r < q * len + r
      <4>1. k - 1 = r
        BY <3>7, <3>8
      <4>2. t > 0 => (t - 1) * len + (k - 1) < idx
        BY <1>2, <2>2, <3>4, <3>6, <3>7, <3>9 DEF LInv, Paid
      <4> QED BY <3>8, <4>1, <4>2
    <3>11. t * len + r < q * len + r + 1
      BY <3>10, RotationPaid
    <3> SUFFICES ASSUME NEW z \in Pods, NEW j \in 1..Len(LoginUsers(z, Totp)),
                        LoginUsers(z, Totp)[j] = u, Tally(u)' > 0
                 PROVE  (Tally(u)' - 1) * Len(LoginUsers(z, Totp)) + (j - 1) < pods'[z].next[Totp]
      BY <1>4, FixturesKept DEF Paid
    <3>12. z = p /\ j = k
      <4>1. LoginUsers(z, Totp) \in Seq(Users) /\ LoginUsers(z, Totp) # <<>>
        BY <1>4, ShardFacts
      <4>2. LoginUsers(z, Totp) = ShardUsers(z)
        BY <1>4, <4>1, ShardFacts
      <4>3. /\ j \in 1..Len(ShardUsers(z)) /\ k \in 1..Len(ShardUsers(p))
            /\ ShardUsers(z)[j] = ShardUsers(p)[k]
        BY <3>5, <3>6, <3>7, <4>2
      <4> QED BY <1>4, <4>3, OneOwner
    <3>13. PICK a \in Nat : a = Tally(u)'
      BY <3>3
    <3>14. a - 1 \in Nat /\ a - 1 <= t
      BY <3>3, <3>9, <3>13
    <3>15. (a - 1) * len <= t * len /\ (a - 1) * len \in Nat /\ t * len \in Nat
      BY <3>14, TimesRises
    <3>16. (a - 1) * len + r < idx + 1
      BY <3>8, <3>11, <3>15
    <3>17. j - 1 = r /\ pods'[z].next[Totp] = idx + 1 /\ Len(LoginUsers(z, Totp)) = len
      BY <1>5, <2>2, <3>4, <3>6, <3>7, <3>8, <3>12
    <3> QED BY <3>13, <3>16, <3>17
  <2>3. CASE ~(n = Totp /\ c.user = u)
    <3>1. Open(u)' = Open(u)
      BY <1>1, <1>3, <2>3, NameFacts DEF Open
    <3>2. Tally(u)' = Tally(u)
      BY <1>4, <3>1 DEF Tally
    <3> QED BY <1>4, <1>6, <2>1, <3>2, PaidKept
  <2> QED BY <2>2, <2>3
<1> QED BY <1>4, <1>7, <1>8 DEF LInv

\* The cluster's answers: what a login costs a user and what it frees.
LEMMA AnswerTally ==
  ASSUME IInv, LInv, NEW c \in calls, UNCHANGED <<files, pods>>, IsFiniteSet(calls'),
         \A u \in Users : /\ failed'[u] \in Nat /\ (failed'[u] > 0 => used'[u].code # 0)
                          /\ Tally(u)' \in Nat /\ Tally(u)' <= Tally(u)
  PROVE  LInv'
<1>1. UNCHANGED files /\ UNCHANGED pods
  OBVIOUS
<1>2. \A p \in Pods : pods[p].next[Totp] \in Nat
  BY NextType, TotpName
<1>3. \A p \in Pods : /\ pods[p].next[Totp] \in Nat /\ pods'[p].next[Totp] \in Nat
                      /\ pods[p].next[Totp] <= pods'[p].next[Totp]
  BY <1>1, <1>2
<1>4. \A u \in Users : Paid(u)'
  BY <1>1, <1>3, PaidKept
<1> QED BY <1>4 DEF LInv

\* A call that leaves, or can no longer fail, frees its place.
LEMMA OpenShrinks ==
  ASSUME IInv, LInv, NEW c \in calls, NEW lost \in BOOLEAN, Answer(c, lost), NEW u \in Users
  PROVE  /\ IsFiniteSet(calls') /\ Cardinality(Open(u)') \in Nat
         /\ Cardinality(Open(u)') <= Cardinality(Open(u))
         /\ c \in Open(u) => Cardinality(Open(u)') <= Cardinality(Open(u)) - 1
<1>1. c \in Calls
  BY DEF IInv, TypeOK
<1>2. PICK d : (lost => d.st = "silent") /\ calls' \subseteq (calls \ {c}) \cup {d}
               /\ (~lost => calls' \subseteq calls \ {c})
  <2>1. PICK d : d = [c EXCEPT !.st = "silent"]
    OBVIOUS
  <2>2. d.st = "silent"
    BY <1>1, <2>1 DEF Calls
  <2> QED BY <2>1, <2>2 DEF Answer
<1>3. Open(u)' \subseteq Open(u) \ {c}
  BY <1>2 DEF Open
<1>4. IsFiniteSet(Open(u)) /\ Cardinality(Open(u)) \in Nat
  BY TallyType
<1>5. /\ IsFiniteSet(Open(u) \ {c})
      /\ Cardinality(Open(u) \ {c})
           = IF c \in Open(u) THEN Cardinality(Open(u)) - 1 ELSE Cardinality(Open(u))
  BY <1>4, FS_RemoveElement
<1>6. /\ IsFiniteSet(Open(u)') /\ Cardinality(Open(u)') <= Cardinality(Open(u) \ {c})
  BY <1>3, <1>5, FS_Subset
<1>7. Cardinality(Open(u)') \in Nat
  BY <1>6, FS_CardinalityType
<1>8. IsFiniteSet(calls')
  <2>1. IsFiniteSet((calls \ {c}) \cup {d})
    BY FS_RemoveElement, FS_AddElement DEF LInv
  <2> QED BY <1>2, <2>1, FS_Subset
<1> QED BY <1>4, <1>5, <1>6, <1>7, <1>8

LEMMA ChallengeLInv ==
  ASSUME IInv, LInv, NEW c \in calls, Challenge(c)
  PROVE  LInv'
<1>1. /\ c.st = "begin" /\ UNCHANGED <<files, pods>> /\ UNCHANGED <<used, failed>> /\ c \in Calls
  BY DEF Challenge, server_vars, IInv, TypeOK
<1>2. PICK d : d = [c EXCEPT !.st = "finish", !.sent = clock,
                             !.code = IF c.child = Totp THEN clock ELSE 0]
               /\ calls' = (calls \ {c}) \cup {d}
  BY DEF Challenge, Totp
<1>3. d.user = c.user /\ d.child = c.child /\ d.st = "finish"
  BY <1>1, <1>2 DEF Calls
<1>4. IsFiniteSet(calls')
  BY <1>2, FS_RemoveElement, FS_AddElement DEF LInv
<1>5. ASSUME NEW u \in Users
      PROVE  Tally(u)' \in Nat /\ Tally(u)' <= Tally(u) /\ failed'[u] \in Nat
  <2>1. IsFiniteSet(Open(u)) /\ Cardinality(Open(u)) \in Nat /\ failed[u] \in Nat
    BY TallyType
  <2>2. Cardinality(Open(u)') \in Nat /\ Cardinality(Open(u)') <= Cardinality(Open(u))
    <3>1. CASE c \in Open(u)
      <4>1. Open(u)' = (Open(u) \ {c}) \cup {d}
        BY <1>1, <1>2, <1>3, <3>1 DEF Open
      <4>2. /\ IsFiniteSet(Open(u) \ {c})
            /\ Cardinality(Open(u) \ {c}) = Cardinality(Open(u)) - 1
        BY <2>1, <3>1, FS_RemoveElement
      <4>3. /\ IsFiniteSet((Open(u) \ {c}) \cup {d})
            /\ Cardinality((Open(u) \ {c}) \cup {d}) <= Cardinality(Open(u) \ {c}) + 1
        BY <2>1, <4>2, FS_AddElement
      <4> QED BY <2>1, <4>1, <4>2, <4>3, FS_CardinalityType
    <3>2. CASE c \notin Open(u)
      <4>1. Open(u)' = Open(u)
        BY <1>1, <1>2, <1>3, <3>2 DEF Open
      <4> QED BY <2>1, <4>1
    <3> QED BY <3>1, <3>2
  <2> QED BY <1>1, <2>1, <2>2 DEF Tally
<1>6. \A u \in Users : failed'[u] > 0 => used'[u].code # 0
  BY <1>1 DEF LInv
<1> QED BY <1>1, <1>4, <1>5, <1>6, AnswerTally

LEMMA AcceptLInv ==
  ASSUME IInv, LInv, NEW c \in calls, NEW lost \in BOOLEAN, Accept(c, lost)
  PROVE  LInv'
<1>1. /\ c \in Calls /\ CallIsOwn(c) /\ c.st = "finish" /\ Answer(c, lost)
      /\ UNCHANGED <<files, pods>>
      /\ used \in [Users -> [code : Nat, pod : Nat, idx : Nat]]
      /\ failed \in [Users -> Nat] /\ failed' = [failed EXCEPT ![c.user] = 0]
  BY DEF IInv, TypeOK, CallsOwn, Accept
<1>2. c.user \in Users
  BY <1>1, CallFields
<1>3. /\ c.code = 0 => used' = used
      /\ c.code # 0 => used'[c.user].code = c.code
                       /\ \A u \in Users : u # c.user => used'[u] = used[u]
  BY <1>1, <1>2 DEF Accept
<1>4. c.code # 0 => c \in Open(c.user)
  BY <1>1 DEF CallIsOwn, Open
<1>5. \A u \in Users : failed'[u] \in Nat /\ failed'[u] <= failed[u] /\ failed[u] \in Nat
                       /\ (u # c.user => failed'[u] = failed[u]) /\ (u = c.user => failed'[u] = 0)
  BY <1>1, <1>2
<1>6. ASSUME NEW u \in Users
      PROVE  /\ Tally(u)' \in Nat /\ Tally(u)' <= Tally(u)
             /\ failed'[u] > 0 => used'[u].code # 0
  <2>1. /\ Cardinality(Open(u)') \in Nat /\ Cardinality(Open(u)) \in Nat
        /\ Cardinality(Open(u)') <= Cardinality(Open(u))
        /\ c \in Open(u) => Cardinality(Open(u)') <= Cardinality(Open(u)) - 1
    BY <1>1, OpenShrinks, TallyType
  <2>2. CASE u = c.user /\ c.code # 0
    BY <1>3, <1>4, <1>5, <2>1, <2>2 DEF Tally
  <2>3. CASE ~(u = c.user /\ c.code # 0)
    <3>1. used'[u] = used[u]
      BY <1>3, <2>3
    <3>2. Tally(u)' \in Nat /\ Tally(u)' <= Tally(u)
      BY <1>5, <2>1, <3>1 DEF Tally
    <3>3. failed'[u] > 0 => used'[u].code # 0
      BY <1>5, <3>1 DEF LInv
    <3> QED BY <3>2, <3>3
  <2> QED BY <2>2, <2>3
<1>7. IsFiniteSet(calls')
  BY <1>1, <1>2, OpenShrinks
<1> QED BY <1>1, <1>5, <1>6, <1>7, AnswerTally

LEMMA ReplayLInv ==
  ASSUME IInv, LInv, NEW c \in calls, NEW lost \in BOOLEAN, Replay(c, lost)
  PROVE  LInv'
<1>1. /\ c \in Calls /\ CallIsOwn(c) /\ c.st = "finish" /\ Answer(c, lost)
      /\ UNCHANGED <<files, pods>> /\ used' = used
      /\ c.code # 0 /\ used[c.user].code # 0
      /\ failed \in [Users -> Nat] /\ failed' = [failed EXCEPT ![c.user] = @ + 1]
  BY DEF IInv, TypeOK, CallsOwn, Replay, Replays
<1>2. c.user \in Users
  BY <1>1, CallFields
<1>3. c \in Open(c.user)
  BY <1>1 DEF CallIsOwn, Open
<1>4. ASSUME NEW u \in Users
      PROVE  /\ Tally(u)' \in Nat /\ Tally(u)' <= Tally(u) /\ failed'[u] \in Nat
             /\ failed'[u] > 0 => used'[u].code # 0
  <2>1. /\ Cardinality(Open(u)') \in Nat /\ Cardinality(Open(u)) \in Nat
        /\ Cardinality(Open(u)') <= Cardinality(Open(u))
        /\ c \in Open(u) => Cardinality(Open(u)') <= Cardinality(Open(u)) - 1
    BY <1>1, OpenShrinks, TallyType
  <2>2. CASE u = c.user
    <3>1. failed'[u] = failed[u] + 1 /\ failed[u] \in Nat
      BY <1>1, <1>2, <2>2
    <3> QED BY <1>1, <1>3, <2>1, <2>2, <3>1 DEF Tally
  <2>3. CASE u # c.user
    <3>1. failed'[u] = failed[u] /\ failed[u] \in Nat
      BY <1>1, <2>3
    <3>2. Tally(u)' \in Nat /\ Tally(u)' <= Tally(u)
      BY <1>1, <2>1, <3>1 DEF Tally
    <3>3. failed'[u] > 0 => used'[u].code # 0
      BY <1>1, <3>1 DEF LInv
    <3> QED BY <3>1, <3>2, <3>3
  <2> QED BY <2>2, <2>3
<1>5. IsFiniteSet(calls')
  BY <1>1, <1>2, OpenShrinks
<1> QED BY <1>1, <1>4, <1>5, AnswerTally

LEMMA OtherAnswerLInv ==
  ASSUME IInv, LInv, NEW c \in calls, NEW lost \in BOOLEAN,
         LockedOut(c, lost) \/ Return(c) \/ Expire(c)
  PROVE  LInv'
<1>1. /\ UNCHANGED <<files, pods>> /\ UNCHANGED <<used, failed>>
      /\ \E l \in BOOLEAN : Answer(c, l)
  BY DEF LockedOut, Return, Expire, server_vars
<1>2. ASSUME NEW u \in Users
      PROVE  /\ Tally(u)' \in Nat /\ Tally(u)' <= Tally(u) /\ failed'[u] \in Nat
             /\ failed'[u] > 0 => used'[u].code # 0
  <2>1. /\ Cardinality(Open(u)') \in Nat /\ Cardinality(Open(u)) \in Nat /\ failed[u] \in Nat
        /\ Cardinality(Open(u)') <= Cardinality(Open(u))
    BY <1>1, OpenShrinks, TallyType
  <2>2. Tally(u)' \in Nat /\ Tally(u)' <= Tally(u)
    BY <1>1, <2>1 DEF Tally
  <2>3. failed'[u] \in Nat /\ (failed'[u] > 0 => used'[u].code # 0)
    BY <1>1, <2>1 DEF LInv
  <2> QED BY <2>2, <2>3
<1>3. IsFiniteSet(calls')
  <2>1. c.user \in Users
    BY CallFields DEF IInv, TypeOK
  <2> QED BY <1>1, <2>1, OpenShrinks
<1> QED BY <1>1, <1>2, <1>3, AnswerTally

\* Nothing happens to any login.
LEMMA QuietLInv ==
  ASSUME IInv, LInv, UNCHANGED files, UNCHANGED <<calls, used, failed>>,
         \A p \in Pods : pods'[p].next = pods[p].next
  PROVE  LInv'
<1>1. \A u \in Users : Open(u)' = Open(u)
  BY DEF Open
<1>2. \A u \in Users : Tally(u)' = Tally(u)
  BY <1>1 DEF Tally
<1>3. \A p \in Pods : /\ pods[p].next[Totp] \in Nat /\ pods'[p].next[Totp] \in Nat
                      /\ pods[p].next[Totp] <= pods'[p].next[Totp]
  BY NextType, TotpName
<1>4. \A u \in Users : Paid(u)'
  BY <1>2, <1>3, TallyType, PaidKept
<1> QED BY <1>4 DEF LInv

LEMMA PodQuiet ==
  ASSUME IInv, NEW p \in Pods,
         \/ Load(p) \/ Bootstrap(p) \/ Fail(p) \/ Run(p) \/ Teardown(p)
         \/ \E n \in Names : SetUp(p, n)
  PROVE  /\ UNCHANGED files /\ UNCHANGED <<calls, used, failed>>
         /\ \A q \in Pods : pods'[q].next = pods[q].next
<1>1. UNCHANGED files /\ UNCHANGED <<calls, used, failed>>
  BY DEF Load, Bootstrap, Fail, Run, Teardown, SetUp, server_vars
<1>2. pods \in [Pods -> Pod] /\ pods[p] \in Pod
  BY DEF IInv, TypeOK
<1>3. ASSUME NEW n \in Names PROVE WithChild(pods[p], n).next = pods[p].next
  BY <1>2, WithChildFields
<1>4. PICK r : pods' = [pods EXCEPT ![p] = r] /\ r.next = pods[p].next
  <2>1. CASE Load(p) \/ Run(p) \/ Teardown(p)
    <3>1. PICK st, todo : pods' = [pods EXCEPT ![p] = [pods[p] EXCEPT !.st = st, !.todo = todo]]
      <4>1. CASE Load(p)
        BY <1>2, <4>1 DEF Load
      <4>2. CASE Run(p) \/ Teardown(p)
        <5>1. PICK st : pods' = [pods EXCEPT ![p].st = st]
          BY <4>2 DEF Run, Teardown
        <5>2. [pods[p] EXCEPT !.st = st] = [pods[p] EXCEPT !.st = st, !.todo = pods[p].todo]
          BY <1>2 DEF Pod
        <5> QED BY <1>2, <5>1, <5>2
      <4> QED BY <2>1, <4>1, <4>2
    <3>2. [pods[p] EXCEPT !.st = st, !.todo = todo].next = pods[p].next
      BY <1>2 DEF Pod
    <3> QED BY <3>1, <3>2
  <2>2. CASE Fail(p)
    <3>1. pods[p].next = [n \in Names |-> 0]
      BY <2>2 DEF Fail, IInv, PodIsWell, SettingUp
    <3>2. [NewPod EXCEPT !.st = "failed"].next = [n \in Names |-> 0]
      BY DEF NewPod
    <3> QED BY <2>2, <3>1, <3>2 DEF Fail
  <2>3. CASE Bootstrap(p)
    <3>1. pods[p].current \in Names
      BY <1>2, <2>3, PodFields DEF Bootstrap, Names
    <3>2. \/ pods' = [pods EXCEPT ![p] = WithChild(pods[p], pods[p].current)]
          \/ pods' = [pods EXCEPT ![p] = pods[p]]
      BY <1>2, <2>3 DEF Bootstrap
    <3> QED BY <1>3, <3>1, <3>2
  <2>4. CASE \E n \in Names : SetUp(p, n)
    <3>1. PICK n \in Names : SetUp(p, n)
      BY <2>4
    <3>2. CASE n \in Logins
      BY <1>2, <1>3, <3>1, <3>2 DEF SetUp
    <3>3. CASE n \notin Logins
      <4>1. [pods[p] EXCEPT !.current = n].next = pods[p].next
        BY <1>2 DEF Pod
      <4> QED BY <1>2, <3>1, <3>3, <4>1 DEF SetUp
    <3> QED BY <3>2, <3>3
  <2> QED BY <2>1, <2>2, <2>3, <2>4
<1>5. \A q \in Pods : pods'[q].next = pods[q].next
  BY <1>2, <1>4
<1> QED BY <1>1, <1>5

LEMMA NextLInv == IInv /\ LInv /\ [Next]_vars => LInv'
<1> SUFFICES ASSUME IInv, LInv, [Next]_vars PROVE LInv'
  OBVIOUS
<1>1. CASE \E p \in Pods : \/ Load(p) \/ Bootstrap(p) \/ Fail(p) \/ Run(p) \/ Teardown(p)
                           \/ \E n \in Names : SetUp(p, n)
  BY <1>1, PodQuiet, QuietLInv
<1>2. CASE \E p \in Pods : Execute(p)
  BY <1>2, ExecuteLInv
<1>3. CASE \E c \in calls : Respond(c) \/ Expire(c)
  BY <1>3, ChallengeLInv, AcceptLInv, ReplayLInv, OtherAnswerLInv DEF Respond
<1>4. CASE Tick \/ UNCHANGED vars
  <2>1. UNCHANGED files /\ UNCHANGED <<calls, used, failed>> /\ UNCHANGED pods
    BY <1>4 DEF Tick, vars, server_vars
  <2> QED BY <2>1, QuietLInv
<1> QED BY <1>1, <1>2, <1>3, <1>4 DEF Next

LEMMA LockHolds == IInv /\ LInv => LockNeedsRotations
<1> SUFFICES ASSUME IInv, LInv, NEW u \in Users, Locked(u)
             PROVE  \E p \in Pods :
                      LET mine == LoginUsers(p, "local-login-totp")
                      IN  /\ \E i \in DOMAIN mine : mine[i] = u
                          /\ pods[p].next["local-login-totp"] > MaxFailed * Len(mine)
  BY DEF LockNeedsRotations
<1>1. MaxFailed \in Nat \ {0} /\ failed[u] \in Nat /\ failed[u] >= MaxFailed
      /\ Cardinality(Open(u)) \in Nat
  BY ScenariosAssumption, TallyType DEF Locked
<1>2. used[u].code # 0
  BY <1>1 DEF LInv
<1>3. PICK p \in Pods, idx \in Nat : p = used[u].pod /\ idx = used[u].idx
  BY <1>2 DEF IInv, TypeOK, Spent, SpentWell
<1>4. PICK mine : mine = LoginUsers(p, Totp)
  OBVIOUS
<1>5. mine \in Seq(Users) /\ mine # <<>> /\ u = At(mine, idx)
  BY <1>2, <1>3, <1>4, ShardFacts DEF IInv, TypeOK, Spent, SpentWell
<1>6. PICK j \in 1..Len(mine) : u = mine[j]
  BY <1>5, AtFacts
<1>7. PICK n \in Nat \ {0} : n = Len(mine)
  BY <1>5
<1>8. PICK t \in Nat : t = Tally(u)
  BY TallyType
<1>9. t - 1 >= MaxFailed
  BY <1>1, <1>2, <1>8 DEF Tally
<1>10. (t - 1) * n + (j - 1) < pods[p].next[Totp]
  BY <1>1, <1>4, <1>6, <1>7, <1>8, <1>9 DEF LInv, Paid
<1>11. MaxFailed * n <= (t - 1) * n /\ MaxFailed * n \in Nat /\ (t - 1) * n \in Nat
  <2>1. t - 1 \in Nat
    BY <1>1, <1>9
  <2> QED BY <1>1, <1>9, <2>1, TimesRises
<1>12. j - 1 \in Nat /\ pods[p].next[Totp] \in Nat
  BY <1>6, NextType, TotpName
<1>13. pods[p].next[Totp] > MaxFailed * Len(mine)
  BY <1>7, <1>10, <1>11, <1>12
<1>14. j \in DOMAIN mine
  BY <1>5, <1>6
<1> QED BY <1>4, <1>6, <1>13, <1>14 DEF Totp

-------------------------------------------------------------------------------
(* Blends.                                                                 *)

LEMMA LeastNat ==
  ASSUME NEW T, T \subseteq Nat, T # {}
  PROVE  \E x \in T : \A y \in T : x <= y
<1>1. PICK x \in T : \A y \in T : ~(<<y, x>> \in OpToRel(<, Nat))
  BY NatLessThanWellFounded, WFMin
<1>2. \A y \in T : ~(y < x)
  BY <1>1 DEF OpToRel
<1>3. \A y \in T : y \in Nat /\ x \in Nat
  OBVIOUS
<1> QED BY <1>2, <1>3

\* Running sums of n numbers exist.
LEMMA SumsExist ==
  ASSUME NEW n \in Nat, NEW w \in [1..n -> Nat]
  PROVE  \E f \in [0..n -> Nat] :
           \A i \in 0..n : f[i] = IF i = 0 THEN 0 ELSE f[i - 1] + w[i]
<1> DEFINE Has(m) == \E f \in [0..m -> Nat] :
                       \A i \in 0..m : f[i] = IF i = 0 THEN 0 ELSE f[i - 1] + w[i]
<1> SUFFICES ASSUME ~Has(n) PROVE FALSE
  OBVIOUS
<1>1. PICK T : T = {m \in 0..n : ~Has(m)}
  OBVIOUS
<1>2. T \subseteq Nat /\ n \in T
  BY <1>1
<1>3. PICK m \in T : \A k \in T : m <= k
  BY <1>2, LeastNat
<1>4. m \in 0..n /\ ~Has(m)
  BY <1>1, <1>3
<1>5. Has(0)
  <2>1. PICK f : f = [i \in 0..0 |-> 0]
    OBVIOUS
  <2>2. f \in [0..0 -> Nat] /\ \A i \in 0..0 : f[i] = IF i = 0 THEN 0 ELSE f[i - 1] + w[i]
    BY <2>1
  <2> QED BY <2>2
<1>6. m # 0
  BY <1>4, <1>5
<1>7. m - 1 \in 0..n /\ m - 1 < m /\ m \in 1..n
  BY <1>4, <1>6
<1>8. Has(m - 1)
  <2>1. m - 1 \notin T
    <3>1. m \in Nat /\ m - 1 \in Nat /\ ~(m <= m - 1)
      BY <1>2, <1>7
    <3> QED BY <1>3, <3>1
  <2>2. PICK k : k = m - 1
    OBVIOUS
  <2>3. k \in 0..n /\ k \notin T
    BY <1>7, <2>1, <2>2
  <2> HIDE DEF Has
  <2>4. Has(k)
    BY <1>1, <2>3
  <2> QED BY <2>2, <2>4
<1>9. PICK f \in [0..m - 1 -> Nat] :
        \A i \in 0..m - 1 : f[i] = IF i = 0 THEN 0 ELSE f[i - 1] + w[i]
  BY <1>8
<1>10. PICK g : g = [i \in 0..m |-> IF i = m THEN f[m - 1] + w[m] ELSE f[i]]
  OBVIOUS
<1>11. g \in [0..m -> Nat]
  <2>1. f[m - 1] \in Nat /\ w[m] \in Nat
    BY <1>7, <1>9
  <2>2. \A i \in 0..m : i # m => i \in 0..m - 1
    BY <1>7
  <2> QED BY <1>9, <1>10, <2>1, <2>2
<1>12. ASSUME NEW i \in 0..m PROVE g[i] = IF i = 0 THEN 0 ELSE g[i - 1] + w[i]
  <2>1. CASE i = m
    <3>1. m - 1 \in 0..m /\ m - 1 # m
      BY <1>7
    <3> QED BY <1>6, <1>10, <2>1, <3>1
  <2>2. CASE i # m
    <3>1. i \in 0..m - 1
      BY <1>7, <2>2
    <3>2. i # 0 => i - 1 \in 0..m /\ i - 1 # m
      BY <1>7, <3>1
    <3> QED BY <1>9, <1>10, <2>2, <3>1, <3>2
  <2> QED BY <2>1, <2>2
<1>13. Has(m)
  BY <1>11, <1>12
<1> QED BY <1>4, <1>13

\* newWeightedPicker adds the weights up: each sum is above the one before it
\* by the child's weight.
LEMMA CumulativeAdds ==
  ASSUME NEW children \in Seq(Names), \A i \in 1..Len(children) : Weight(children[i]) \in Nat
  PROVE  LET sum == Cumulative(children)
         IN  /\ sum[0] = 0
             /\ \A i \in 1..Len(children) : sum[i] = sum[i - 1] + Weight(children[i])
<1>1. PICK n \in Nat : n = Len(children)
  BY LenProperties
<1>2. PICK w : w = [i \in 1..n |-> Weight(children[i])]
  OBVIOUS
<1>3. w \in [1..n -> Nat]
  BY <1>1, <1>2
<1>4. PICK f \in [0..n -> Nat] : \A i \in 0..n : f[i] = IF i = 0 THEN 0 ELSE f[i - 1] + w[i]
  BY <1>3, SumsExist
<1>5. \A i \in 0..n : i # 0 => i \in 1..n
  OBVIOUS
<1>6. f = [i \in 0..n |-> IF i = 0 THEN 0 ELSE f[i - 1] + Weight(children[i])]
  BY <1>2, <1>4, <1>5
<1>7. PICK sum : sum = Cumulative(children)
  OBVIOUS
<1>8. sum = CHOOSE g : g = [i \in 0..n |-> IF i = 0 THEN 0 ELSE g[i - 1] + Weight(children[i])]
  BY <1>1, <1>7 DEF Cumulative
<1>9. sum = [i \in 0..n |-> IF i = 0 THEN 0 ELSE sum[i - 1] + Weight(children[i])]
  BY <1>6, <1>8
<1>10. sum[0] = 0
  BY <1>9
<1>11. \A i \in 1..n : i \in 0..n /\ i # 0
  OBVIOUS
<1>12. \A i \in 1..n : sum[i] = sum[i - 1] + Weight(children[i])
  BY <1>9, <1>11
<1> QED BY <1>1, <1>7, <1>10, <1>12

\* So the sums are numbers that do not fall.
LEMMA CumulativeRises ==
  ASSUME NEW n \in Nat, NEW w \in [1..n -> Nat], NEW sum, sum[0] = 0,
         \A i \in 1..n : sum[i] = sum[i - 1] + w[i]
  PROVE  \A i \in 0..n : sum[i] \in Nat /\ \A j \in 0..i : sum[j] <= sum[i]
<1> DEFINE Good(i) == sum[i] \in Nat /\ \A j \in 0..i : sum[j] \in Nat /\ sum[j] <= sum[i]
<1> SUFFICES ASSUME NEW b \in 0..n, ~Good(b) PROVE FALSE
  OBVIOUS
<1>1. PICK T : T = {m \in 0..n : ~Good(m)}
  OBVIOUS
<1>2. T \subseteq Nat /\ b \in T
  BY <1>1
<1>3. PICK m \in T : \A k \in T : m <= k
  BY <1>2, LeastNat
<1>4. m \in 0..n /\ ~Good(m)
  BY <1>1, <1>3
<1>5. Good(0)
  <2>1. \A j \in 0..0 : j = 0
    OBVIOUS
  <2> QED BY <2>1
<1>6. m # 0
  BY <1>4, <1>5
<1>7. m - 1 \in 0..n /\ m - 1 < m /\ m \in 1..n
  BY <1>4, <1>6
<1>8. Good(m - 1)
  BY <1>1, <1>3, <1>7
<1>9. PICK a \in Nat, c \in Nat : a = sum[m - 1] /\ c = w[m]
  BY <1>7, <1>8
<1>10. sum[m] = a + c
  BY <1>7, <1>9
<1>11. \A j \in 0..m : j = m \/ j \in 0..m - 1
  BY <1>7
<1>12. \A j \in 0..m - 1 : sum[j] \in Nat /\ sum[j] <= a
  BY <1>8, <1>9
<1>13. \A j \in 0..m : sum[j] \in Nat /\ sum[j] <= a + c
  BY <1>10, <1>11, <1>12
<1>14. Good(m)
  BY <1>10, <1>13
<1> QED BY <1>4, <1>14

\* A child is picked by as many draws as it has weight.
LEMMA ShareOfDraws ==
  ASSUME NEW children \in Seq(Names), \A i \in 1..Len(children) : Weight(children[i]) \in Nat,
         NEW i \in 1..Len(children)
  PROVE  Cardinality({r \in Draws(children) : Picks(children, r, i)}) = Weight(children[i])
<1>1. PICK n \in Nat : n = Len(children)
  BY LenProperties
<1>2. PICK w : w = [k \in 1..n |-> Weight(children[k])]
  OBVIOUS
<1>3. PICK sum : sum = Cumulative(children)
  OBVIOUS
<1>4. w \in [1..n -> Nat]
  BY <1>1, <1>2
<1>5. sum[0] = 0 /\ \A k \in 1..n : sum[k] = sum[k - 1] + w[k]
  BY <1>1, <1>2, <1>3, CumulativeAdds
<1>6. \A k \in 0..n : sum[k] \in Nat /\ \A j \in 0..k : sum[j] <= sum[k]
  BY <1>4, <1>5, CumulativeRises
<1>7. i \in 1..n /\ i - 1 \in 0..n /\ i \in 0..n /\ n \in 0..n /\ i \in 0..n /\ i - 1 \in 0..i
  BY <1>1
<1>8. PICK a \in Nat, b \in Nat, t \in Nat, c \in Nat :
        a = sum[i - 1] /\ b = sum[i] /\ t = sum[n] /\ c = w[i]
  BY <1>4, <1>6, <1>7
<1>9. b = a + c /\ b <= t
  BY <1>5, <1>6, <1>7, <1>8
<1>10. ASSUME NEW r \in Nat
       PROVE  Picks(children, r, i) <=> a <= r /\ r < b
  <2>1. Picks(children, r, i) <=> r < b /\ \A j \in 1..i - 1 : sum[j] <= r
    BY <1>3, <1>8 DEF Picks
  <2>2. ASSUME a <= r PROVE \A j \in 1..i - 1 : sum[j] <= r
    <3>1. \A j \in 1..i - 1 : j \in 0..i - 1 /\ j \in 0..n
      BY <1>7
    <3>2. \A j \in 1..i - 1 : sum[j] \in Nat /\ sum[j] <= a
      BY <1>6, <1>7, <1>8, <3>1
    <3> QED BY <2>2, <3>2
  <2>3. ASSUME \A j \in 1..i - 1 : sum[j] <= r PROVE a <= r
    <3>1. CASE i = 1
      BY <1>5, <1>8, <3>1
    <3>2. CASE i # 1
      <4>1. i - 1 \in 1..i - 1
        BY <1>7, <3>2
      <4> QED BY <1>8, <2>3, <4>1
    <3> QED BY <3>1, <3>2
  <2> QED BY <2>1, <2>2, <2>3
<1>11. {r \in Draws(children) : Picks(children, r, i)} = a..b - 1
  <2>1. Draws(children) = 0..t - 1
    BY <1>1, <1>3, <1>8 DEF Draws
  <2>2. \A r \in 0..t - 1 : r \in Nat
    OBVIOUS
  <2>3. \A r \in a..b - 1 : r \in 0..t - 1 /\ a <= r /\ r < b
    BY <1>9
  <2>4. \A r \in 0..t - 1 : a <= r /\ r < b => r \in a..b - 1
    BY <1>9
  <2> QED BY <1>10, <2>1, <2>2, <2>3, <2>4
<1>12. Cardinality(a..b - 1) = c
  <2>1. Cardinality(a..b - 1) = IF a > b - 1 THEN 0 ELSE (b - 1) - a + 1
    BY FS_Interval
  <2> QED BY <1>9, <2>1
<1> QED BY <1>2, <1>7, <1>8, <1>11, <1>12

\* The children of a pod come from a configuration Validate let through.
Chosen(p) ==
  /\ pods[p].st \in {"setup", "running", "over"} => Valid(config)
  /\ pods[p].todo \subseteq Workload(config)
  /\ \A i \in 1..Len(pods[p].children) : pods[p].children[i] \in Workload(config)

AllChosen == \A p \in Pods : Chosen(p)

LEMMA InitChosen == Init => AllChosen
  BY DEF Init, NewPod, AllChosen, Chosen

LEMMA SetUpPod ==
  ASSUME NEW r \in Pod, NEW n \in Names, NEW S, r.todo \subseteq S, n \in r.todo,
         \A i \in 1..Len(r.children) : r.children[i] \in S
  PROVE  LET w == WithChild(r, n)
         IN  /\ w.st = r.st /\ w.todo \subseteq S
             /\ \A i \in 1..Len(w.children) : w.children[i] \in S
<1> DEFINE w == WithChild(r, n)
<1>1. /\ w \in Pod /\ w.st = r.st /\ w.todo = r.todo \ {n}
      /\ \A i \in DOMAIN w.children :
           w.children[i] = n \/ (i \in DOMAIN r.children /\ w.children[i] = r.children[i])
  BY WithChildFields
<1>2. r.children \in Seq(Names) /\ w.children \in Seq(Names)
  BY <1>1, PodFields
<1>3. DOMAIN r.children = 1..Len(r.children) /\ DOMAIN w.children = 1..Len(w.children)
  BY <1>2, LenProperties
<1> QED BY <1>1, <1>3

LEMMA NextChosen == IInv /\ AllChosen /\ [Next]_vars => AllChosen'
<1> SUFFICES ASSUME IInv, AllChosen, [Next]_vars PROVE AllChosen'
  OBVIOUS
<1>1. UNCHANGED config
  BY DEF Next, Load, Bootstrap, Fail, Run, Execute, Teardown, SetUp, Respond, Challenge,
         Accept, Replay, LockedOut, Return, Expire, Tick, vars, files
<1>2. ASSUME NEW p \in Pods, NEW r, pods' = [pods EXCEPT ![p] = r],
             r.st \in {"setup", "running", "over"} => Valid(config),
             r.todo \subseteq Workload(config),
             \A i \in 1..Len(r.children) : r.children[i] \in Workload(config)
      PROVE  AllChosen'
  <2>1. pods'[p] = r /\ \A q \in Pods : q # p => pods'[q] = pods[q]
    BY <1>2 DEF IInv, TypeOK
  <2> QED BY <1>1, <1>2, <2>1 DEF AllChosen, Chosen
<1>3. CASE UNCHANGED pods
  BY <1>1, <1>3 DEF AllChosen, Chosen
<1>4. ASSUME NEW p \in Pods
      PROVE  /\ pods[p] \in Pod /\ DOMAIN pods = Pods /\ Chosen(p)
             /\ pods[p] = [st |-> pods[p].st, todo |-> pods[p].todo, current |-> pods[p].current,
                           children |-> pods[p].children, next |-> pods[p].next]
  BY DEF IInv, TypeOK, AllChosen, Pod
<1>5. ASSUME NEW p \in Pods, Load(p) PROVE AllChosen'
  <2>1. PICK r : r = [pods[p] EXCEPT !.st = "setup", !.todo = Workload(config)]
    OBVIOUS
  <2>2. r.todo = Workload(config) /\ r.children = pods[p].children
    BY <1>4, <2>1
  <2>3. pods' = [pods EXCEPT ![p] = r]
    BY <1>4, <1>5, <2>1 DEF Load
  <2>4. Valid(config)
    BY <1>5 DEF Load
  <2>5. \A i \in 1..Len(r.children) : r.children[i] \in Workload(config)
    BY <1>4, <2>2 DEF Chosen
  <2>6. r.todo \subseteq Workload(config)
    BY <2>2
  <2> QED BY <1>2, <2>3, <2>4, <2>5, <2>6
<1>6. ASSUME NEW p \in Pods, NEW n \in Names, SetUp(p, n) PROVE AllChosen'
  <2>1. n \in pods[p].todo /\ pods[p].st = "setup"
    BY <1>6 DEF SetUp
  <2>2. CASE n \in Logins
    <3>1. pods' = [pods EXCEPT ![p] = WithChild(pods[p], n)]
      BY <1>4, <1>6, <2>2 DEF SetUp
    <3> QED BY <1>2, <1>4, <2>1, <3>1, SetUpPod DEF Chosen
  <2>3. CASE n \notin Logins
    <3>1. PICK r : r = [pods[p] EXCEPT !.current = n]
      OBVIOUS
    <3>2. r.st = pods[p].st /\ r.todo = pods[p].todo /\ r.children = pods[p].children
      BY <1>4, <3>1
    <3>3. pods' = [pods EXCEPT ![p] = r]
      BY <1>4, <1>6, <2>3, <3>1 DEF SetUp
    <3> QED BY <1>2, <1>4, <3>2, <3>3 DEF Chosen
  <2> QED BY <2>2, <2>3
<1>7. ASSUME NEW p \in Pods, Bootstrap(p) PROVE AllChosen'
  <2>1. PICK n \in Names : n = pods[p].current
    BY <1>4, <1>7, PodFields DEF Bootstrap, Names
  <2>2. n \in pods[p].todo
    BY <1>7, <2>1 DEF Bootstrap, IInv, PodIsWell, SettingUp
  <2>3. \/ pods' = [pods EXCEPT ![p] = WithChild(pods[p], n)]
        \/ pods' = [pods EXCEPT ![p] = pods[p]]
    BY <1>4, <1>7, <2>1 DEF Bootstrap
  <2>4. CASE pods' = [pods EXCEPT ![p] = WithChild(pods[p], n)]
    <3>1. PICK S, w : S = Workload(config) /\ w = WithChild(pods[p], n)
      OBVIOUS
    <3>2. /\ pods[p].st \in {"setup", "running", "over"} => Valid(config)
          /\ pods[p].todo \subseteq S /\ \A i \in 1..Len(pods[p].children) : pods[p].children[i] \in S
      BY <1>4, <3>1 DEF Chosen
    <3>3. w.st = pods[p].st /\ w.todo \subseteq S /\ \A i \in 1..Len(w.children) : w.children[i] \in S
      BY <1>4, <2>2, <3>1, <3>2, SetUpPod
    <3>4. pods' = [pods EXCEPT ![p] = w]
      BY <2>4, <3>1
    <3> QED BY <1>2, <3>1, <3>2, <3>3, <3>4
  <2>5. CASE pods' = [pods EXCEPT ![p] = pods[p]]
    BY <1>2, <1>4, <2>5 DEF Chosen
  <2> QED BY <2>3, <2>4, <2>5
<1>8. ASSUME NEW p \in Pods, Fail(p) PROVE AllChosen'
  <2>1. PICK r : r = [NewPod EXCEPT !.st = "failed"]
    OBVIOUS
  <2>2. r.st = "failed" /\ r.todo = {} /\ r.children = <<>>
    BY <2>1 DEF NewPod
  <2>3. pods' = [pods EXCEPT ![p] = r]
    BY <1>8, <2>1 DEF Fail
  <2>4. \A i \in 1..Len(r.children) : FALSE
    BY <2>2
  <2>5. r.st \notin {"setup", "running", "over"}
    BY <2>2
  <2> QED BY <1>2, <2>2, <2>3, <2>4, <2>5
<1>9. ASSUME NEW p \in Pods, Run(p) \/ Teardown(p) PROVE AllChosen'
  <2>1. PICK st \in {"running", "over"} : pods' = [pods EXCEPT ![p].st = st]
    BY <1>9 DEF Run, Teardown
  <2>2. PICK r : r = [pods[p] EXCEPT !.st = st]
    OBVIOUS
  <2>3. r.todo = pods[p].todo /\ r.children = pods[p].children
    BY <1>4, <2>2
  <2>4. pods' = [pods EXCEPT ![p] = r]
    BY <1>4, <2>1, <2>2
  <2>5. Valid(config)
    BY <1>4, <1>9 DEF Run, Teardown, Chosen
  <2> QED BY <1>2, <1>4, <2>3, <2>4, <2>5 DEF Chosen
<1>10. ASSUME NEW p \in Pods, Execute(p) PROVE AllChosen'
  <2>1. PICK n, next : /\ pods' = [pods EXCEPT ![p].next[n] = @ + 1]
                       /\ next = [pods[p].next EXCEPT ![n] = @ + 1]
    BY <1>10 DEF Execute
  <2>2. PICK r : r = [pods[p] EXCEPT !.next = next]
    OBVIOUS
  <2>3. r.st = pods[p].st /\ r.todo = pods[p].todo /\ r.children = pods[p].children
    BY <1>4, <2>2
  <2>4. pods' = [pods EXCEPT ![p] = r]
    BY <1>4, <2>1, <2>2
  <2> QED BY <1>2, <1>4, <2>3, <2>4 DEF Chosen
<1>11. CASE \E p \in Pods : \/ Load(p) \/ Bootstrap(p) \/ Fail(p) \/ Run(p) \/ Execute(p)
                            \/ Teardown(p) \/ \E n \in Names : SetUp(p, n)
  BY <1>5, <1>6, <1>7, <1>8, <1>9, <1>10, <1>11
<1>12. CASE (\E c \in calls : Respond(c) \/ Expire(c)) \/ Tick \/ UNCHANGED vars
  BY <1>3, <1>12 DEF Respond, Challenge, Accept, Replay, LockedOut, Return, Expire, Tick, vars
<1> QED BY <1>11, <1>12 DEF Next

LEMMA PickedHolds == IInv /\ AllChosen => PickedByWeight
<1> SUFFICES ASSUME IInv, AllChosen, NEW p \in Pods, pods[p].st = "running",
                    NEW i \in DOMAIN pods[p].children
             PROVE  LET children == pods[p].children
                    IN  Cardinality({r \in Draws(children) : Picks(children, r, i)})
                          = Weight(children[i])
  BY DEF PickedByWeight
<1>1. PICK children : children = pods[p].children
  OBVIOUS
<1>2. children \in Seq(Names)
  BY <1>1, PodFields DEF IInv, TypeOK
<1>3. DOMAIN children = 1..Len(children)
  BY <1>2, LenProperties
<1>4. Valid(config) /\ \A k \in 1..Len(children) : children[k] \in Workload(config)
  BY <1>1 DEF AllChosen, Chosen
<1>5. \A k \in 1..Len(children) : Weight(children[k]) \in Nat
  <2>1. CASE config.scenario = "mixed"
    <3>1. Workload(config) = DOMAIN config.weights
      BY <2>1 DEF Workload
    <3>2. \A n \in DOMAIN config.weights : config.weights[n] \in Nat
      BY ScenariosAssumption DEF IInv, TypeOK
    <3> QED BY <1>4, <2>1, <3>1, <3>2 DEF Weight
  <2>2. CASE config.scenario # "mixed"
    BY <2>2 DEF Weight
  <2> QED BY <2>1, <2>2
<1> QED BY <1>1, <1>2, <1>3, <1>5, ShareOfDraws

-------------------------------------------------------------------------------

THEOREM Invariance == Spec => []IInv
  BY InitIInv, NextIInv, PTL DEF Spec

\* The variables keep their types: no call draws a user, a key or an identity
\* the pod does not have.
THEOREM TypeCorrect == Spec => []TypeOK
<1>1. IInv => TypeOK
  BY DEF IInv
<1> QED BY <1>1, Invariance, PTL

\* However many pods share however many users and keys, no two of them ever
\* work with the same one, and no scenario bootstraps one twice.
THEOREM ShardsStayApart == Spec => []ShardsApart
  BY ShardsApartHolds, Invariance, PTL

\* A code can be refused as spent only a whole rotation after the login of the
\* same pod that spent it.
THEOREM ReplaysAreRotationsApart == Spec => []ReplayIsARotationApart
  BY RotationHolds, Invariance, PTL

\* The lock bounds what a locked user adds to the error rate.
THEOREM ErrorsStop == Spec => []ErrorsStopAtTheLock
  BY ErrorsStopHolds, Invariance, PTL

\* No call is ever made on a closed client, and no client outlives the run.
THEOREM ClientsLiveLongEnough == Spec => []ClientsOutliveCalls
  BY ClientsHolds, Invariance, PTL

\* A user is locked only after its pod went through all of its users, once for
\* the login whose code is replayed and once for each failure the cluster forgives.
THEOREM LocksNeedRotations == Spec => []LockNeedsRotations
<1>1. IInv /\ LInv /\ [Next]_vars => IInv' /\ LInv'
  BY NextIInv, NextLInv
<1>2. Spec => [](IInv /\ LInv)
  BY <1>1, InitIInv, InitLInv, PTL DEF Spec
<1> QED BY <1>2, LockHolds, PTL

\* However many scenarios a blend has and in whatever order the map is walked,
\* each is picked by as many of the draws as it has weight.
THEOREM BlendsKeepWeights == Spec => []PickedByWeight
<1>1. IInv /\ AllChosen /\ [Next]_vars => IInv' /\ AllChosen'
  BY NextIInv, NextChosen
<1>2. Spec => [](IInv /\ AllChosen)
  BY <1>1, InitIInv, InitChosen, PTL DEF Spec
<1> QED BY <1>2, PickedHolds, PTL

===============================================================================
