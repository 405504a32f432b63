------------------------------- MODULE FleetProofs ------------------------------
(***************************************************************************)
(* Proofs about Fleet, for every number of pods and every plan whose rates *)
(* the pods can share.                                                     *)
(*                                                                         *)
(* A pod that finishes has measured the whole plan, and keeps the promise  *)
(* of a ramp; the aggregator merges nothing but measured steps; and what it*)
(* makes of a complete directory is what one generator would have reported.*)
(* For the last, a sum over a collector's buckets is the number of tokens  *)
(* in them, so that adding a sample adds a token and the pods' tokens are  *)
(* apart; what Collected and MergeRaw compute is then one count of the same*)
(* samples, whoever took them.                                             *)
(***************************************************************************)
EXTENDS Fleet, FiniteSetTheorems, SequenceTheorems, WellFoundedInduction, TLAPS

\* The elements of a sequence, whatever they are.
Elements(q) == {q[k] : k \in 1..Len(q)}

Done(n) == Share(StartRPS) + n * Share(StepRPS)

Shape ==
  /\ pods \in [Shards -> [st : {"ramp", "report", "fill", "finished", "dead"},
                          rate : Nat, bad : Nat]]
  /\ DOMAIN measured = Shards
  /\ \A s \in Shards : measured[s] \in Seq(Elements(measured[s]))
  /\ DOMAIN files \subseteq Nat \X Shards
  /\ agg.todo \subseteq DOMAIN files
  /\ DOMAIN agg = {"st", "todo", "raws", "steps", "whole"}

\* A pod's rate follows from the number of steps it has measured, all of them
\* within the plan.
PacedPod(s) ==
  LET n == StepsDone(s)
  IN  /\ pods[s].bad <= n
      /\ pods[s].st = "ramp" => pods[s].rate = Done(n)
      /\ pods[s].st \in {"report", "fill"} => n > 0 /\ pods[s].rate = Done(n - 1)
      /\ n > 0 => Done(n - 1) <= Share(MaxRPS)
      /\ pods[s].st = "finished" /\ ShardCount > 1 => Done(n) > Share(MaxRPS)

Paced == \A s \in Shards : PacedPod(s)

Numbered ==
  \A s \in Shards : \A k \in 1..StepsDone(s) :
    measured[s][k].raw.step = k - 1 /\ measured[s][k].raw.shard = s

\* r is a step that a pod measured.
Measured(r) ==
  /\ r.shard \in Shards /\ r.step \in Nat
  /\ r.step < StepsDone(r.shard) /\ measured[r.shard][r.step + 1].raw = r

\* What is in the directory and in the aggregator's memory was measured.
Genuine ==
  /\ \A f \in DOMAIN files : \A r \in files[f] : Measured(r)
  /\ \A r \in agg.raws : Measured(r)

IInv ==
  /\ Shape
  /\ Paced
  /\ Numbered
  /\ Genuine

-------------------------------------------------------------------------------
(* Arithmetic.                                                             *)

LEMMA DivMod ==
  ASSUME NEW n \in Nat \ {0}, NEW a \in Nat
  PROVE  /\ a \div n \in Nat /\ a % n \in 0..n - 1
         /\ a = (a \div n) * n + (a % n)
  OBVIOUS

LEMMA Shared ==
  ASSUME NEW r \in {StartRPS, StepRPS, MaxRPS}
  PROVE  Share(r) \in Nat \ {0} /\ r \in Nat \ {0} /\ r = Share(r) * ShardCount
<1>1. ShardCount \in Nat \ {0} /\ r \in Nat \ {0} /\ r % ShardCount = 0
  BY FleetAssumption
<1>2. r \div ShardCount \in Nat /\ r = (r \div ShardCount) * ShardCount + (r % ShardCount)
  BY <1>1, DivMod
<1>3. PICK q \in Nat : q = r \div ShardCount /\ r = q * ShardCount + (r % ShardCount)
  BY <1>2
<1>4. r = q * ShardCount
  BY <1>1, <1>3
<1>5. q # 0
  BY <1>1, <1>4
<1> QED BY <1>1, <1>3, <1>4, <1>5 DEF Share

LEMMA DoneType == ASSUME NEW n \in Nat PROVE Done(n) \in Nat
<1>1. n * Share(StepRPS) \in Nat
  BY Shared
<1> QED BY <1>1, Shared DEF Done

LEMMA DoneNext == ASSUME NEW n \in Nat PROVE Done(n + 1) = Done(n) + Share(StepRPS)
<1>1. Share(StepRPS) \in Nat /\ Share(StartRPS) \in Nat
  BY Shared
<1>2. \A b \in Nat : (n + 1) * b = n * b + b
  OBVIOUS
<1> QED BY <1>1, <1>2 DEF Done

\* A pod is within its share of the plan exactly when the fleet is within it.
LEMMA DoneIsPlanned ==
  ASSUME NEW n \in Nat
  PROVE  Done(n) <= Share(MaxRPS) <=> PlannedRate(n) <= MaxRPS
<1>1. PICK c \in Nat \ {0} : c = ShardCount
  BY FleetAssumption
<1>2. PICK a \in Nat, b \in Nat, m \in Nat :
        a = Share(StartRPS) /\ b = Share(StepRPS) /\ m = Share(MaxRPS)
  BY Shared
<1>3. StartRPS = a * c /\ StepRPS = b * c /\ MaxRPS = m * c
  BY <1>1, <1>2, Shared
<1>4. PICK d \in Nat : d = a + n * b
  BY <1>2
<1>5. d * c = a * c + n * (b * c)
  BY <1>4
<1>6. d <= m <=> d * c <= m * c
  <2>1. \A u, v \in Nat : u <= v => u * c <= v * c
    OBVIOUS
  <2>2. \A u, v \in Nat : u < v => u * c < v * c
    OBVIOUS
  <2> QED BY <2>1, <2>2
<1> QED BY <1>2, <1>3, <1>4, <1>5, <1>6 DEF Done, PlannedRate

\* Steps of the plan are numbered below PlanLength.
LEMMA PlanEnds ==
  ASSUME NEW n \in Nat, n > 0 => PlannedRate(n - 1) <= MaxRPS, ~(PlannedRate(n) <= MaxRPS)
  PROVE  n = PlanLength
<1>1. StartRPS \in Nat /\ StepRPS \in Nat \ {0} /\ MaxRPS \in Nat
  BY FleetAssumption
<1>2. CASE StartRPS > MaxRPS
  <2>1. n > 0 => (n - 1) * StepRPS >= 0
    BY <1>1
  <2>2. n > 0 => PlannedRate(n - 1) >= StartRPS
    BY <1>1, <2>1 DEF PlannedRate
  <2>3. n = 0
    BY <1>1, <1>2, <2>2 DEF PlannedRate
  <2> QED BY <1>2, <2>3 DEF PlanLength
<1>3. CASE ~(StartRPS > MaxRPS)
  <2>1. PICK d \in Nat : d = MaxRPS - StartRPS
    BY <1>1, <1>3
  <2>2. n > 0
    <3>1. PlannedRate(0) = StartRPS
      BY <1>1 DEF PlannedRate
    <3> QED BY <1>1, <1>3, <3>1
  <2>3. (n - 1) * StepRPS <= d /\ n * StepRPS > d
    BY <1>1, <2>1, <2>2 DEF PlannedRate
  <2>4. d \div StepRPS \in Nat /\ d % StepRPS \in 0..StepRPS - 1
        /\ d = (d \div StepRPS) * StepRPS + (d % StepRPS)
    BY <1>1, DivMod
  <2>5. PICK q \in Nat, r \in Nat : q = d \div StepRPS /\ r < StepRPS /\ d = q * StepRPS + r
    BY <1>1, <2>4
  <2>6. \A u, v \in Nat : u < v => u * StepRPS + StepRPS <= v * StepRPS
    BY <1>1
  <2>7. n - 1 \in Nat
    BY <2>2
  <2>8. ~(q < n - 1)
    BY <1>1, <2>3, <2>5, <2>6, <2>7
  <2>9. ~(n - 1 < q)
    <3>1. n - 1 < q => n * StepRPS <= q * StepRPS
      <4>1. (n - 1) * StepRPS + StepRPS = n * StepRPS
        BY <1>1
      <4> QED BY <2>6, <2>7, <4>1
    <3> QED BY <1>1, <2>3, <2>5, <3>1
  <2> QED BY <1>3, <2>1, <2>5, <2>7, <2>8, <2>9 DEF PlanLength
<1> QED BY <1>2, <1>3

\* In a sharded run the limit on failing steps is past the plan's end.
LEMMA NeverStopsEarly ==
  ASSUME ShardCount > 1, NEW n \in Nat \ {0}, Done(n - 1) <= Share(MaxRPS)
  PROVE  n < StopAfter
<1>1. StartRPS \in Nat /\ StepRPS \in Nat \ {0} /\ MaxRPS \in Nat /\ n - 1 \in Nat
  <2>1. StartRPS \in Nat /\ StepRPS \in Nat \ {0} /\ MaxRPS \in Nat
    BY FleetAssumption
  <2>2. n - 1 \in Nat
    OBVIOUS
  <2> QED BY <2>1, <2>2
<1>2. PlannedRate(n - 1) <= MaxRPS
  BY <1>1, DoneIsPlanned
<1>3. (n - 1) * StepRPS <= MaxRPS
  BY <1>1, <1>2 DEF PlannedRate
<1>4. MaxRPS \div StepRPS \in Nat /\ MaxRPS % StepRPS \in 0..StepRPS - 1
      /\ MaxRPS = (MaxRPS \div StepRPS) * StepRPS + (MaxRPS % StepRPS)
  BY <1>1, DivMod
<1>5. PICK q \in Nat, r \in Nat : q = MaxRPS \div StepRPS /\ r < StepRPS
                                  /\ MaxRPS = q * StepRPS + r
  BY <1>1, <1>4
<1>6. \A u, v \in Nat : u < v => u * StepRPS + StepRPS <= v * StepRPS
  BY <1>1
<1>7. ~(q < n - 1)
  BY <1>1, <1>3, <1>5, <1>6
<1> QED BY <1>1, <1>5, <1>7 DEF StopAfter

-------------------------------------------------------------------------------
(* Minima: the aggregator's next file exists.                              *)

LEMMA LeastNat ==
  ASSUME NEW T, T \subseteq Nat, T # {}
  PROVE  \E x \in T : \A y \in T : x <= y
<1>1. PICK x \in T : \A y \in T : ~(<<y, x>> \in OpToRel(<, Nat))
  BY NatLessThanWellFounded, WFMin
<1>2. \A y \in T : ~(y < x)
  BY <1>1 DEF OpToRel
<1>3. \A y \in T : y \in Nat /\ x \in Nat
  OBVIOUS
<1> QED BY <1>2, <1>3

LEMMA FirstIsOne ==
  ASSUME NEW names, names \subseteq Nat \X Shards, names # {}
  PROVE  First(names) \in names
<1>1. \A f \in names : f[1] \in Nat /\ f[2] \in Nat
  BY FleetAssumption DEF Shards
<1>2. PICK a \in {f[1] : f \in names} : \A y \in {f[1] : f \in names} : a <= y
  BY <1>1, LeastNat
<1>3. PICK b \in {f[2] : f \in {g \in names : g[1] = a}} :
        \A y \in {f[2] : f \in {g \in names : g[1] = a}} : b <= y
  BY <1>1, <1>2, LeastNat
<1>4. PICK f \in names : f[1] = a /\ f[2] = b
  BY <1>3
<1>5. \A g \in names : f[1] < g[1] \/ (f[1] = g[1] /\ f[2] <= g[2])
  BY <1>1, <1>2, <1>3, <1>4
<1> QED BY <1>4, <1>5 DEF First

-------------------------------------------------------------------------------
(* Sequences whose elements have no type of their own.                     *)

LEMMA AppendAny ==
  ASSUME NEW q, q \in Seq(Elements(q)), NEW e, NEW p, p = Append(q, e)
  PROVE  /\ p \in Seq(Elements(p)) /\ Len(p) = Len(q) + 1 /\ Len(q) \in Nat
         /\ p[Len(q) + 1] = e /\ \A k \in 1..Len(q) : p[k] = q[k]
<1>1. PICK S : S = Elements(q) \cup {e}
  OBVIOUS
<1>2. q \in Seq(S) /\ e \in S
  <2>1. \A k \in 1..Len(q) : q[k] \in S
    BY <1>1 DEF Elements
  <2> QED BY <1>1, <2>1
<1>3. /\ p \in Seq(S) /\ Len(p) = Len(q) + 1 /\ Len(q) \in Nat
      /\ p[Len(q) + 1] = e /\ \A k \in 1..Len(q) : p[k] = q[k]
  BY <1>2, AppendProperties, LenProperties
<1>4. p \in Seq(Elements(p))
  BY <1>3 DEF Elements
<1> QED BY <1>3, <1>4

LEMMA EmptyAny == <<>> \in Seq(Elements(<<>>)) /\ Len(<<>>) = 0 /\ DOMAIN <<>> = {}
  OBVIOUS

LEMMA InitIInv == Init => IInv
<1> SUFFICES ASSUME Init PROVE IInv
  OBVIOUS
<1>1. /\ pods = [s \in Shards |-> [st |-> "ramp", rate |-> Share(StartRPS), bad |-> 0]]
      /\ files = <<>> /\ agg.todo = {} /\ agg.raws = {}
      /\ DOMAIN agg = {"st", "todo", "raws", "steps", "whole"}
      /\ measured = [s \in Shards |-> <<>>]
  BY DEF Init, NotRun
<1>2. \A s \in Shards : measured[s] = <<>> /\ StepsDone(s) = 0
  BY <1>1, EmptyAny DEF StepsDone
<1>3. DOMAIN files = {}
  BY <1>1, EmptyAny
<1>4. Done(0) = Share(StartRPS) /\ Share(StartRPS) \in Nat
  BY Shared DEF Done
<1>5. Shape
  BY <1>1, <1>2, <1>3, <1>4, EmptyAny DEF Shape
<1>6. Paced
  BY <1>1, <1>2, <1>4 DEF Paced, PacedPod
<1>7. Numbered /\ Genuine
  BY <1>1, <1>2, <1>3 DEF Numbered, Genuine
<1> QED BY <1>5, <1>6, <1>7 DEF IInv

-------------------------------------------------------------------------------
(* A pod.                                                                  *)

LEMMA StepsDoneType ==
  ASSUME Shape, NEW s \in Shards PROVE StepsDone(s) \in Nat
  BY LenProperties DEF Shape, StepsDone

\* Pods that did not move stay paced.
LEMMA OthersPaced ==
  ASSUME Paced, NEW s \in Shards, UNCHANGED measured,
         \A t \in Shards \ {s} : pods'[t] = pods[t], PacedPod(s)'
  PROVE  Paced'
  BY DEF Paced, PacedPod, StepsDone

LEMMA RunStepIInv ==
  ASSUME IInv, NEW s \in Shards, RunStep(s)
  PROVE  IInv'
<1>1. PICK l \in Loads, elapsed \in Elapsed :
        LET raw  == [step |-> StepsDone(s), shard |-> s, offered |-> pods[s].rate,
                     data |-> Collected(l.samples), health |-> l.health]
            limited == Exceeds(l.health)
            pass == EvaluateStep(Snapshot(raw.data, raw.offered, elapsed)) /\ ~limited
            report == [offered |-> raw.offered, pass |-> pass, limited |-> limited]
        IN  /\ measured' = [measured EXCEPT ![s] =
                               Append(@, [load |-> l, raw |-> raw, report |-> report])]
            /\ pods' = [pods EXCEPT ![s].st = "report", ![s].bad = IF pass THEN 0 ELSE @ + 1]
  BY DEF RunStep
<1>2. PICK e, bad :
        /\ measured' = [measured EXCEPT ![s] = Append(@, e)]
        /\ e.raw.step = StepsDone(s) /\ e.raw.shard = s
        /\ bad = 0 \/ bad = pods[s].bad + 1
        /\ pods' = [pods EXCEPT ![s].st = "report", ![s].bad = bad]
  <2>1. PICK raw : raw = [step |-> StepsDone(s), shard |-> s, offered |-> pods[s].rate,
                          data |-> Collected(l.samples), health |-> l.health]
    OBVIOUS
  <2>2. PICK pass \in BOOLEAN :
          pass <=> EvaluateStep(Snapshot(raw.data, raw.offered, elapsed)) /\ ~Exceeds(l.health)
    BY DEF EvaluateStep
  <2>3. PICK e : e = [load |-> l, raw |-> raw,
                      report |-> [offered |-> raw.offered,
                        pass |-> EvaluateStep(Snapshot(raw.data, raw.offered, elapsed))
                                   /\ ~Exceeds(l.health),
                        limited |-> Exceeds(l.health)]]
    OBVIOUS
  <2>4. e.raw.step = StepsDone(s) /\ e.raw.shard = s
    BY <2>1, <2>3
  <2>5. measured' = [measured EXCEPT ![s] = Append(@, e)]
    BY <1>1, <2>1, <2>3
  <2>6. PICK bad : bad = IF pass THEN 0 ELSE pods[s].bad + 1
    OBVIOUS
  <2>7. pods[s] \in [st : {"ramp", "report", "fill", "finished", "dead"}, rate : Nat, bad : Nat]
    BY DEF IInv, Shape
  <2>8. pods' = [pods EXCEPT ![s].st = "report", ![s].bad = bad]
    <3>1. pods' = [pods EXCEPT ![s].st = "report",
                               ![s].bad = IF EvaluateStep(Snapshot(raw.data, raw.offered, elapsed))
                                               /\ ~Exceeds(l.health)
                                          THEN 0 ELSE @ + 1]
      BY <1>1, <2>1
    <3>2. (IF EvaluateStep(Snapshot(raw.data, raw.offered, elapsed)) /\ ~Exceeds(l.health)
           THEN 0 ELSE pods[s].bad + 1) = bad
      BY <2>2, <2>6
    <3>3. s \in DOMAIN pods /\ DOMAIN pods[s] = {"st", "rate", "bad"}
      BY <2>7 DEF IInv, Shape
    <3> QED BY <3>1, <3>2, <3>3
  <2> QED BY <2>4, <2>5, <2>6, <2>8
<1>3. /\ pods[s].st = "ramp" /\ pods[s].rate <= Share(MaxRPS)
      /\ UNCHANGED <<files, agg>>
  BY DEF RunStep
<1>4. PICK n \in Nat : n = StepsDone(s)
  BY StepsDoneType DEF IInv
<1>5. /\ measured'[s] \in Seq(Elements(measured'[s])) /\ Len(measured'[s]) = n + 1
      /\ measured'[s][n + 1] = e /\ \A k \in 1..n : measured'[s][k] = measured[s][k]
      /\ DOMAIN measured' = Shards /\ \A t \in Shards : t # s => measured'[t] = measured[t]
  <2>1. measured[s] \in Seq(Elements(measured[s])) /\ DOMAIN measured = Shards
    BY DEF IInv, Shape
  <2>2. /\ measured'[s] = Append(measured[s], e) /\ DOMAIN measured' = Shards
        /\ \A t \in Shards : t # s => measured'[t] = measured[t]
    BY <1>2, <2>1
  <2>3. PICK q, p : q = measured[s] /\ p = measured'[s]
    OBVIOUS
  <2>4. p = Append(q, e) /\ q \in Seq(Elements(q)) /\ n = Len(q)
    BY <1>4, <2>1, <2>2, <2>3 DEF StepsDone
  <2>5. /\ p \in Seq(Elements(p)) /\ Len(p) = n + 1
        /\ p[n + 1] = e /\ \A k \in 1..n : p[k] = q[k]
    <3>1. p \in Seq(Elements(p)) /\ Len(p) = Len(q) + 1
      BY <2>4, AppendAny
    <3>2. p[Len(q) + 1] = e
      BY <2>4, AppendAny
    <3>3. \A k \in 1..Len(q) : p[k] = q[k]
      BY <2>4, AppendAny
    <3> QED BY <2>4, <3>1, <3>2, <3>3
  <2> QED BY <2>2, <2>3, <2>5
<1>6. pods[s].bad \in Nat /\ pods[s].rate \in Nat
      /\ pods \in [Shards -> [st : {"ramp", "report", "fill", "finished", "dead"},
                              rate : Nat, bad : Nat]]
  BY DEF IInv, Shape
<1>7. /\ bad \in Nat /\ bad <= n + 1
  BY <1>2, <1>4, <1>6 DEF IInv, Paced, PacedPod
<1>8. PICK p : p = [pods[s] EXCEPT !.st = "report", !.bad = bad]
  OBVIOUS
<1>9. /\ p \in [st : {"ramp", "report", "fill", "finished", "dead"}, rate : Nat, bad : Nat]
      /\ p.st = "report" /\ p.bad = bad /\ p.rate = pods[s].rate
  BY <1>6, <1>7, <1>8
<1>10. /\ pods' \in [Shards -> [st : {"ramp", "report", "fill", "finished", "dead"},
                                rate : Nat, bad : Nat]]
       /\ pods'[s] = p /\ \A t \in Shards : t # s => pods'[t] = pods[t]
  BY <1>2, <1>6, <1>8, <1>9
<1>11. Shape'
  BY <1>3, <1>5, <1>10 DEF IInv, Shape
<1>12. StepsDone(s)' = n + 1 /\ \A t \in Shards : t # s => StepsDone(t)' = StepsDone(t)
  BY <1>5 DEF StepsDone
<1>13. PacedPod(s)'
  <2>1. pods[s].rate = Done(n) /\ n + 1 > 0 /\ n + 1 - 1 = n
    BY <1>3, <1>4 DEF IInv, Paced, PacedPod
  <2> QED BY <1>3, <1>7, <1>9, <1>10, <1>12, <2>1 DEF PacedPod
<1>14. Paced'
  BY <1>10, <1>12, <1>13 DEF IInv, Paced, PacedPod
<1>15. Numbered'
  <2>1. \A k \in 1..n + 1 : k = n + 1 \/ k \in 1..n
    BY <1>4
  <2> QED BY <1>2, <1>4, <1>5, <1>12, <2>1 DEF IInv, Numbered
<1>16. \A r : Measured(r) => Measured(r)'
  <2> SUFFICES ASSUME NEW r, Measured(r) PROVE Measured(r)'
    OBVIOUS
  <2>1. CASE r.shard = s
    <3>1. r.step + 1 \in 1..n /\ r.step < n + 1
      BY <1>4, <2>1 DEF Measured
    <3> QED BY <1>5, <1>12, <2>1, <3>1 DEF Measured
  <2>2. CASE r.shard # s
    BY <1>5, <1>12, <2>2 DEF Measured
  <2> QED BY <2>1, <2>2
<1>17. Genuine'
  BY <1>3, <1>16 DEF IInv, Genuine
<1> QED BY <1>11, <1>14, <1>15, <1>17 DEF IInv

\* The step a pod reports is the last it measured.
LEMMA ReportMeasured ==
  ASSUME IInv, NEW s \in Shards, pods[s].st \in {"report", "fill"}
  PROVE  /\ Measured(Report(s)) /\ FileName(Report(s).step, s) \in Nat \X Shards
<1>1. PICK n \in Nat : n = StepsDone(s)
  BY StepsDoneType DEF IInv
<1>2. n > 0
  BY <1>1 DEF IInv, Paced, PacedPod
<1>3. Report(s) = measured[s][n].raw
  BY <1>1 DEF Report, Last, StepsDone
<1>4. n \in 1..n /\ n - 1 \in Nat /\ (n - 1) + 1 = n /\ n - 1 < n
  BY <1>2
<1>5. Report(s).step = n - 1 /\ Report(s).shard = s
  BY <1>1, <1>3, <1>4 DEF IInv, Numbered
<1> QED BY <1>1, <1>3, <1>4, <1>5 DEF Measured, FileName

\* A file is written: what it holds was measured.
LEMMA PutGenuine ==
  ASSUME IInv, NEW s \in Shards, pods[s].st \in {"report", "fill"},
         NEW content, content \subseteq {Report(s)}, Put(s, content),
         UNCHANGED <<agg, measured>>
  PROVE  /\ DOMAIN files' \subseteq Nat \X Shards /\ DOMAIN files \subseteq DOMAIN files'
         /\ Genuine'
<1>1. PICK name : name = FileName(Report(s).step, s)
  OBVIOUS
<1>2. files' = [f \in DOMAIN files \cup {name} |-> IF f = name THEN content ELSE files[f]]
  BY <1>1 DEF Put
<1>3. name \in Nat \X Shards /\ Measured(Report(s))
  BY <1>1, ReportMeasured
<1>4. \A r : Measured(r) => Measured(r)'
  BY DEF Measured, StepsDone
<1>5. ASSUME NEW f \in DOMAIN files', NEW r \in files'[f] PROVE Measured(r)'
  <2>1. CASE f = name
    BY <1>2, <1>3, <1>4, <1>5, <2>1
  <2>2. CASE f # name
    BY <1>2, <1>4, <1>5, <2>2 DEF IInv, Genuine
  <2> QED BY <2>1, <2>2
<1>6. \A r \in agg'.raws : Measured(r)'
  BY <1>4 DEF IInv, Genuine
<1> QED BY <1>2, <1>3, <1>5, <1>6 DEF IInv, Shape, Genuine

\* Back from onStep a pod goes on with the next rate, or stops.
LEMMA EndStepPaced ==
  ASSUME IInv, NEW s \in Shards, pods[s].st \in {"report", "fill"}, EndStep(s),
         UNCHANGED measured
  PROVE  /\ pods' \in [Shards -> [st : {"ramp", "report", "fill", "finished", "dead"},
                                  rate : Nat, bad : Nat]]
         /\ Paced'
<1>1. pods[s].bad \in Nat /\ pods[s].rate \in Nat
      /\ pods \in [Shards -> [st : {"ramp", "report", "fill", "finished", "dead"},
                              rate : Nat, bad : Nat]]
  BY DEF IInv, Shape
<1>2. PICK n \in Nat : n = StepsDone(s)
  BY StepsDoneType DEF IInv
<1>3. /\ n > 0 /\ pods[s].rate = Done(n - 1) /\ pods[s].bad <= n
      /\ Done(n - 1) <= Share(MaxRPS)
  BY <1>2 DEF IInv, Paced, PacedPod
<1>4. PICK st \in {"finished", "ramp"}, rate \in Nat :
        /\ st = IF pods[s].bad >= StopAfter THEN "finished" ELSE "ramp"
        /\ rate = pods[s].rate + Share(StepRPS)
  BY <1>1, Shared
<1>5. PICK p : p = [pods[s] EXCEPT !.st = st, !.rate = rate]
  OBVIOUS
<1>6. /\ p \in [st : {"ramp", "report", "fill", "finished", "dead"}, rate : Nat, bad : Nat]
      /\ p.st = st /\ p.bad = pods[s].bad /\ p.rate = rate
  BY <1>1, <1>4, <1>5
<1>7. pods' = [pods EXCEPT ![s] = p]
  BY <1>1, <1>4, <1>5 DEF EndStep
<1>8. /\ pods' \in [Shards -> [st : {"ramp", "report", "fill", "finished", "dead"},
                                rate : Nat, bad : Nat]]
      /\ pods'[s] = p /\ \A t \in Shards \ {s} : pods'[t] = pods[t]
  BY <1>1, <1>6, <1>7
<1>9. rate = Done(n)
  <2>1. n - 1 \in Nat /\ (n - 1) + 1 = n
    BY <1>3
  <2>2. Done((n - 1) + 1) = Done(n - 1) + Share(StepRPS)
    BY <2>1, DoneNext
  <2> QED BY <1>3, <1>4, <2>1, <2>2
<1>10. ShardCount > 1 => st = "ramp"
  <2> SUFFICES ASSUME ShardCount > 1 PROVE ~(pods[s].bad >= StopAfter)
    BY <1>4
  <2>1. n < StopAfter
    BY <1>3, NeverStopsEarly
  <2>2. StopAfter \in Nat
    <3>1. MaxRPS \div StepRPS \in Nat
      BY FleetAssumption, DivMod
    <3> QED BY <3>1 DEF StopAfter
  <2> QED BY <1>1, <1>3, <2>1, <2>2
<1>11. PacedPod(s)'
  <2>1. StepsDone(s)' = n
    BY <1>2 DEF StepsDone
  <2> QED BY <1>3, <1>4, <1>6, <1>8, <1>9, <1>10, <2>1 DEF PacedPod
<1> QED BY <1>8, <1>11, OthersPaced DEF IInv

\* A pod moves on without a step and without a file.
LEMMA GoesPaced ==
  ASSUME IInv, NEW s \in Shards, NEW st, Goes(s, st), UNCHANGED measured,
         \/ st = "dead"
         \/ st = "fill" /\ pods[s].st = "report"
         \/ st = "finished" /\ pods[s].st = "ramp" /\ pods[s].rate > Share(MaxRPS)
  PROVE  /\ pods' \in [Shards -> [st : {"ramp", "report", "fill", "finished", "dead"},
                                  rate : Nat, bad : Nat]]
         /\ Paced'
<1>1. pods[s].bad \in Nat /\ pods[s].rate \in Nat
      /\ pods \in [Shards -> [st : {"ramp", "report", "fill", "finished", "dead"},
                              rate : Nat, bad : Nat]]
  BY DEF IInv, Shape
<1>2. PICK p : p = [pods[s] EXCEPT !.st = st]
  OBVIOUS
<1>3. /\ p \in [st : {"ramp", "report", "fill", "finished", "dead"}, rate : Nat, bad : Nat]
      /\ p.st = st /\ p.bad = pods[s].bad /\ p.rate = pods[s].rate
  BY <1>1, <1>2
<1>4. pods' = [pods EXCEPT ![s] = p]
  BY <1>1, <1>2 DEF Goes
<1>5. /\ pods' \in [Shards -> [st : {"ramp", "report", "fill", "finished", "dead"},
                                rate : Nat, bad : Nat]]
      /\ pods'[s] = p /\ \A t \in Shards \ {s} : pods'[t] = pods[t]
  BY <1>1, <1>3, <1>4
<1>6. StepsDone(s)' = StepsDone(s) /\ PacedPod(s)
  BY DEF StepsDone, IInv, Paced
<1>7. PacedPod(s)'
  BY <1>3, <1>5, <1>6 DEF PacedPod
<1> QED BY <1>5, <1>7, OthersPaced DEF IInv

\* Nothing is written and nothing read.
LEMMA FilesRest ==
  ASSUME IInv, UNCHANGED <<files, agg, measured>>
  PROVE  Numbered' /\ Genuine'
<1>1. \A r : Measured(r) => Measured(r)'
  BY DEF Measured, StepsDone
<1> QED BY <1>1 DEF IInv, Numbered, Genuine, StepsDone

LEMMA PodIInv ==
  ASSUME IInv, NEW s \in Shards, Pod(s)
  PROVE  IInv'
<1>1. CASE RunStep(s)
  BY <1>1, RunStepIInv
<1>2. CASE CreateFile(s)
  <2>1. pods[s].st = "report" /\ Put(s, Partial) /\ Goes(s, "fill") /\ UNCHANGED <<agg, measured>>
    BY <1>2 DEF CreateFile
  <2>2. pods' \in [Shards -> [st : {"ramp", "report", "fill", "finished", "dead"},
                              rate : Nat, bad : Nat]] /\ Paced'
    BY <2>1, GoesPaced
  <2>3. DOMAIN files' \subseteq Nat \X Shards /\ DOMAIN files \subseteq DOMAIN files' /\ Genuine'
    BY <2>1, PutGenuine DEF Partial
  <2>4. Shape' /\ Numbered'
    BY <2>1, <2>2, <2>3 DEF IInv, Shape, Numbered, StepsDone
  <2> QED BY <2>2, <2>3, <2>4 DEF IInv
<1>3. CASE FillFile(s)
  <2>1. pods[s].st = "fill" /\ Put(s, Full(Report(s))) /\ EndStep(s) /\ UNCHANGED <<agg, measured>>
    BY <1>3 DEF FillFile
  <2>2. pods' \in [Shards -> [st : {"ramp", "report", "fill", "finished", "dead"},
                              rate : Nat, bad : Nat]] /\ Paced'
    BY <2>1, EndStepPaced
  <2>3. DOMAIN files' \subseteq Nat \X Shards /\ DOMAIN files \subseteq DOMAIN files' /\ Genuine'
    BY <2>1, PutGenuine DEF Full
  <2>4. Shape' /\ Numbered'
    BY <2>1, <2>2, <2>3 DEF IInv, Shape, Numbered, StepsDone
  <2> QED BY <2>2, <2>3, <2>4 DEF IInv
<1>4. CASE WriteFails(s)
  <2>1. pods[s].st \in {"report", "fill"} /\ EndStep(s) /\ UNCHANGED <<files, agg, measured>>
    BY <1>4 DEF WriteFails
  <2>2. pods' \in [Shards -> [st : {"ramp", "report", "fill", "finished", "dead"},
                              rate : Nat, bad : Nat]] /\ Paced'
    BY <2>1, EndStepPaced
  <2>3. Shape'
    BY <2>1, <2>2 DEF IInv, Shape
  <2> QED BY <2>1, <2>2, <2>3, FilesRest DEF IInv
<1>5. CASE RampOver(s)
  <2>1. pods[s].st = "ramp" /\ pods[s].rate > Share(MaxRPS) /\ Goes(s, "finished")
        /\ UNCHANGED <<files, agg, measured>>
    BY <1>5 DEF RampOver
  <2>2. pods' \in [Shards -> [st : {"ramp", "report", "fill", "finished", "dead"},
                              rate : Nat, bad : Nat]] /\ Paced'
    BY <2>1, GoesPaced
  <2>3. Shape'
    BY <2>1, <2>2 DEF IInv, Shape
  <2> QED BY <2>1, <2>2, <2>3, FilesRest DEF IInv
<1>6. CASE Crash(s)
  <2>1. Goes(s, "dead") /\ UNCHANGED <<files, agg, measured>>
    BY <1>6 DEF Crash
  <2>2. pods' \in [Shards -> [st : {"ramp", "report", "fill", "finished", "dead"},
                              rate : Nat, bad : Nat]] /\ Paced'
    BY <2>1, GoesPaced
  <2>3. Shape'
    BY <2>1, <2>2 DEF IInv, Shape
  <2> QED BY <2>1, <2>2, <2>3, FilesRest DEF IInv
<1> QED BY <1>1, <1>2, <1>3, <1>4, <1>5, <1>6 DEF Pod

-------------------------------------------------------------------------------
(* The aggregator and the whole.                                           *)

LEMMA AggregateIInv ==
  ASSUME IInv, Aggregate
  PROVE  IInv'
<1>1. UNCHANGED <<pods, files, measured>>
  BY DEF Aggregate, List, ReadFile, MergeAll
<1>2. Paced' /\ Numbered'
  BY <1>1 DEF IInv, Paced, PacedPod, Numbered, StepsDone
<1>3. \A r : Measured(r) => Measured(r)'
  BY <1>1 DEF Measured, StepsDone
<1>4. /\ agg.todo \subseteq DOMAIN files /\ DOMAIN files \subseteq Nat \X Shards
      /\ DOMAIN agg = {"st", "todo", "raws", "steps", "whole"}
      /\ \A r \in agg.raws : Measured(r)
      /\ \A f \in DOMAIN files : \A r \in files[f] : Measured(r)
  BY DEF IInv, Shape, Genuine
<1>5. /\ agg'.todo \subseteq DOMAIN files
      /\ DOMAIN agg' = {"st", "todo", "raws", "steps", "whole"}
      /\ \A r \in agg'.raws : Measured(r)
  <2>1. \A st : /\ NotRun(st).todo = {} /\ NotRun(st).raws = {}
                /\ DOMAIN NotRun(st) = {"st", "todo", "raws", "steps", "whole"}
    BY DEF NotRun
  <2>2. CASE List
    <3>1. CASE files = <<>>
      BY <2>1, <2>2, <3>1 DEF List
    <3>2. CASE files # <<>>
      BY <2>2, <3>2 DEF List
    <3> QED BY <3>1, <3>2
  <2>3. CASE ReadFile
    <3>1. PICK f : f = First(agg.todo)
      OBVIOUS
    <3>2. f \in DOMAIN files
      BY <1>4, <2>3, <3>1, FirstIsOne DEF ReadFile
    <3>3. agg' = IF files[f] = Partial
                 THEN NotRun("failed")
                 ELSE [agg EXCEPT !.todo = @ \ {f}, !.raws = @ \cup files[f]]
      BY <2>3, <3>1 DEF ReadFile
    <3>4. CASE files[f] = Partial
      BY <2>1, <3>3, <3>4
    <3>5. CASE files[f] # Partial
      <4>1. /\ agg'.todo = agg.todo \ {f} /\ agg'.raws = agg.raws \cup files[f]
            /\ DOMAIN agg' = {"st", "todo", "raws", "steps", "whole"}
        BY <1>4, <3>3, <3>5
      <4> QED BY <1>4, <3>2, <4>1
    <3> QED BY <3>4, <3>5
  <2>4. CASE MergeAll
    <3>1. /\ agg'.todo = agg.todo /\ agg'.raws = {}
          /\ DOMAIN agg' = {"st", "todo", "raws", "steps", "whole"}
      BY <1>4, <2>4 DEF MergeAll
    <3> QED BY <1>4, <3>1
  <2> QED BY <2>2, <2>3, <2>4 DEF Aggregate
<1>6. Shape'
  BY <1>1, <1>5 DEF IInv, Shape
<1>7. Genuine'
  BY <1>1, <1>3, <1>4, <1>5 DEF Genuine
<1> QED BY <1>2, <1>6, <1>7 DEF IInv

LEMMA NextIInv == IInv /\ [Next]_vars => IInv'
<1> SUFFICES ASSUME IInv, [Next]_vars PROVE IInv'
  OBVIOUS
<1>1. ASSUME NEW s \in Shards, Pod(s) PROVE IInv'
  BY <1>1, PodIInv
<1>2. CASE Aggregate
  BY <1>2, AggregateIInv
<1>3. CASE UNCHANGED vars
  <2>1. UNCHANGED <<pods, files, agg, measured>>
    BY <1>3 DEF vars
  <2>2. Shape' /\ Paced'
    BY <2>1 DEF IInv, Shape, Paced, PacedPod, StepsDone
  <2> QED BY <2>1, <2>2, FilesRest DEF IInv
<1> QED BY <1>1, <1>2, <1>3 DEF Next

LEMMA Invariance == Spec => []IInv
  BY InitIInv, NextIInv, PTL DEF Spec

-------------------------------------------------------------------------------
(* Every pod keeps RampContract.                                           *)

\* The reports of a pod: the plan's rates in order, saturation never passes,
\* and `bad` counts the failing steps at the end, no more of them than the
\* limit while the ramp goes on.
JudgedPod(s) ==
  LET n      == StepsDone(s)
      rep(k) == measured[s][k].report
  IN  /\ \A k \in 1..n :
           /\ rep(k) \in Step
           /\ rep(k).offered = Done(k - 1)
           /\ ~(rep(k).pass /\ rep(k).limited)
           /\ k > n - pods[s].bad => ~rep(k).pass
      /\ pods[s].bad < n => rep(n - pods[s].bad).pass
      /\ pods[s].st = "ramp" => pods[s].bad < StopAfter

Judged == \A s \in Shards : JudgedPod(s)

LEMMA StopAfterType == StopAfter \in Nat \ {0}
<1>1. MaxRPS \div StepRPS \in Nat
  BY FleetAssumption, DivMod
<1> QED BY <1>1, VerdictAssumption DEF StopAfter

LEMMA InitJudged == Init => Judged
<1> SUFFICES ASSUME Init, NEW s \in Shards PROVE JudgedPod(s)
  BY DEF Judged
<1>1. measured[s] = <<>> /\ pods[s].bad = 0
  BY DEF Init
<1>2. StepsDone(s) = 0
  BY <1>1, EmptyAny DEF StepsDone
<1> QED BY <1>1, <1>2, StopAfterType DEF JudgedPod

LEMMA PodType ==
  ASSUME IInv, NEW s \in Shards
  PROVE  /\ pods[s] \in [st : {"ramp", "report", "fill", "finished", "dead"},
                         rate : Nat, bad : Nat]
         /\ s \in DOMAIN pods /\ DOMAIN pods = Shards
  BY DEF IInv, Shape

\* A step of the ramp, as the rest of the pod sees it.
LEMMA StepTaken ==
  ASSUME IInv, NEW s \in Shards, RunStep(s)
  PROVE  \E e :
           /\ measured' = [measured EXCEPT ![s] = Append(@, e)]
           /\ e.report \in Step /\ e.report.offered = pods[s].rate
           /\ ~(e.report.pass /\ e.report.limited)
           /\ pods'[s].st = "report"
           /\ pods'[s].bad = IF e.report.pass THEN 0 ELSE pods[s].bad + 1
           /\ \A t \in Shards : t # s => pods'[t] = pods[t]
<1>1. PICK l \in Loads, elapsed \in Elapsed :
        LET raw  == [step |-> StepsDone(s), shard |-> s, offered |-> pods[s].rate,
                     data |-> Collected(l.samples), health |-> l.health]
            limited == Exceeds(l.health)
            pass == EvaluateStep(Snapshot(raw.data, raw.offered, elapsed)) /\ ~limited
            report == [offered |-> raw.offered, pass |-> pass, limited |-> limited]
        IN  /\ measured' = [measured EXCEPT ![s] =
                               Append(@, [load |-> l, raw |-> raw, report |-> report])]
            /\ pods' = [pods EXCEPT ![s].st = "report", ![s].bad = IF pass THEN 0 ELSE @ + 1]
  BY DEF RunStep
<1>2. PICK raw : raw = [step |-> StepsDone(s), shard |-> s, offered |-> pods[s].rate,
                        data |-> Collected(l.samples), health |-> l.health]
  OBVIOUS
<1>3. PICK pass \in BOOLEAN :
        pass = (EvaluateStep(Snapshot(raw.data, raw.offered, elapsed)) /\ ~Exceeds(l.health))
  BY DEF EvaluateStep
<1>4. PICK limited \in BOOLEAN : limited = Exceeds(l.health)
  BY DEF Exceeds
<1>5. PICK e : e = [load |-> l, raw |-> raw,
                    report |-> [offered |-> raw.offered, pass |-> pass, limited |-> limited]]
  OBVIOUS
<1>6. PICK bad : bad = IF pass THEN 0 ELSE pods[s].bad + 1
  OBVIOUS
<1>7. raw.offered = pods[s].rate /\ pods[s].rate \in Nat
  BY <1>2, PodType
<1>8. /\ e.report \in Step /\ e.report.offered = pods[s].rate
      /\ e.report.pass = pass /\ e.report.limited = limited
  BY <1>5, <1>7 DEF Step
<1>9. ~(pass /\ limited)
  BY <1>3, <1>4
<1>10. measured' = [measured EXCEPT ![s] = Append(@, e)]
  BY <1>1, <1>2, <1>3, <1>4, <1>5
<1>11. pods' = [pods EXCEPT ![s].st = "report", ![s].bad = bad]
  <2>1. pods' = [pods EXCEPT ![s].st = "report", ![s].bad = IF pass THEN 0 ELSE @ + 1]
    BY <1>1, <1>2, <1>3
  <2>2. s \in DOMAIN pods /\ DOMAIN pods[s] = {"st", "rate", "bad"}
    BY PodType
  <2> QED BY <1>6, <2>1, <2>2
<1>12. /\ pods'[s].st = "report" /\ pods'[s].bad = bad
       /\ \A t \in Shards : t # s => pods'[t] = pods[t]
  BY <1>11, PodType
<1> QED BY <1>6, <1>8, <1>9, <1>10, <1>12

\* The same with what it does to the pod's list of steps.
LEMMA StepListed ==
  ASSUME IInv, NEW s \in Shards, RunStep(s)
  PROVE  \E e, n :
           /\ n \in Nat /\ n = StepsDone(s) /\ StepsDone(s)' = n + 1
           /\ measured'[s][n + 1] = e /\ \A k \in 1..n : measured'[s][k] = measured[s][k]
           /\ DOMAIN measured'[s] = 1..n + 1 /\ DOMAIN measured[s] = 1..n
           /\ e.report \in Step /\ e.report.offered = pods[s].rate
           /\ ~(e.report.pass /\ e.report.limited)
           /\ pods'[s].st = "report"
           /\ pods'[s].bad = IF e.report.pass THEN 0 ELSE pods[s].bad + 1
           /\ \A t \in Shards : t # s => pods'[t] = pods[t] /\ measured'[t] = measured[t]
<1>1. PICK e :
        /\ measured' = [measured EXCEPT ![s] = Append(@, e)]
        /\ e.report \in Step /\ e.report.offered = pods[s].rate
        /\ ~(e.report.pass /\ e.report.limited)
        /\ pods'[s].st = "report"
        /\ pods'[s].bad = IF e.report.pass THEN 0 ELSE pods[s].bad + 1
        /\ \A t \in Shards : t # s => pods'[t] = pods[t]
  BY StepTaken
<1>2. PICK q, p : q = measured[s] /\ p = measured'[s]
  OBVIOUS
<1>3. DOMAIN measured = Shards /\ q \in Seq(Elements(q))
  BY <1>2 DEF IInv, Shape
<1>4. p = Append(q, e) /\ \A t \in Shards : t # s => measured'[t] = measured[t]
  BY <1>1, <1>2, <1>3
<1>5. p \in Seq(Elements(p)) /\ Len(p) = Len(q) + 1 /\ Len(q) \in Nat
  BY <1>3, <1>4, AppendAny
<1>6. p[Len(q) + 1] = e
  BY <1>3, <1>4, AppendAny
<1>7. \A k \in 1..Len(q) : p[k] = q[k]
  BY <1>3, <1>4, AppendAny
<1>8. DOMAIN p = 1..Len(q) + 1 /\ DOMAIN q = 1..Len(q)
  BY <1>3, <1>5, LenProperties
<1>9. PICK n : n = Len(q)
  OBVIOUS
<1>10. n \in Nat /\ n = StepsDone(s) /\ StepsDone(s)' = n + 1
  BY <1>2, <1>5, <1>9 DEF StepsDone
<1> QED BY <1>1, <1>2, <1>4, <1>6, <1>7, <1>8, <1>9, <1>10

LEMMA RunStepJudged ==
  ASSUME IInv, Judged, NEW s \in Shards, RunStep(s)
  PROVE  Judged'
<1>1. PICK e, n :
        /\ n \in Nat /\ n = StepsDone(s) /\ StepsDone(s)' = n + 1
        /\ measured'[s][n + 1] = e /\ \A k \in 1..n : measured'[s][k] = measured[s][k]
        /\ DOMAIN measured'[s] = 1..n + 1 /\ DOMAIN measured[s] = 1..n
        /\ e.report \in Step /\ e.report.offered = pods[s].rate
        /\ ~(e.report.pass /\ e.report.limited)
        /\ pods'[s].st = "report"
        /\ pods'[s].bad = IF e.report.pass THEN 0 ELSE pods[s].bad + 1
        /\ \A t \in Shards : t # s => pods'[t] = pods[t] /\ measured'[t] = measured[t]
  BY StepListed
<1>2. PICK b \in Nat : b = pods[s].bad
  BY PodType
<1>3. pods[s].rate = Done(n) /\ n + 1 - 1 = n /\ b <= n
  BY <1>1, <1>2 DEF RunStep, IInv, Paced, PacedPod
<1>4. JudgedPod(s)
  BY DEF Judged
<1>5. \A k \in 1..n :
        /\ measured[s][k].report \in Step
        /\ measured[s][k].report.offered = Done(k - 1)
        /\ ~(measured[s][k].report.pass /\ measured[s][k].report.limited)
        /\ k > n - b => ~measured[s][k].report.pass
  BY <1>1, <1>2, <1>4 DEF JudgedPod
<1>6. b < n => measured[s][n - b].report.pass
  BY <1>1, <1>2, <1>4 DEF JudgedPod
<1>7. PICK c \in Nat : c = pods'[s].bad /\ c = IF e.report.pass THEN 0 ELSE b + 1
  BY <1>1, <1>2
<1>8. \A k \in 1..n + 1 :
        /\ measured'[s][k].report \in Step
        /\ measured'[s][k].report.offered = Done(k - 1)
        /\ ~(measured'[s][k].report.pass /\ measured'[s][k].report.limited)
        /\ k > n + 1 - c => ~measured'[s][k].report.pass
  <2> SUFFICES ASSUME NEW k \in 1..n + 1
               PROVE  /\ measured'[s][k].report \in Step
                      /\ measured'[s][k].report.offered = Done(k - 1)
                      /\ ~(measured'[s][k].report.pass /\ measured'[s][k].report.limited)
                      /\ k > n + 1 - c => ~measured'[s][k].report.pass
    OBVIOUS
  <2>1. CASE k = n + 1
    BY <1>1, <1>3, <1>7, <2>1
  <2>2. CASE k \in 1..n
    <3>1. k > n + 1 - c => k > n - b
      BY <1>1, <1>7, <2>2
    <3> QED BY <1>1, <1>5, <2>2, <3>1
  <2> QED BY <1>1, <2>1, <2>2
<1>9. c < n + 1 => measured'[s][n + 1 - c].report.pass
  <2>1. CASE e.report.pass
    BY <1>1, <1>7, <2>1
  <2>2. CASE ~e.report.pass
    <3>1. c < n + 1 => b < n /\ n + 1 - c = n - b /\ n - b \in 1..n
      BY <1>1, <1>7, <2>2
    <3> QED BY <1>1, <1>6, <3>1
  <2> QED BY <2>1, <2>2
<1>10. JudgedPod(s)'
  <2>1. n \in Nat /\ StepsDone(s)' = n + 1 /\ pods'[s].bad = c /\ pods'[s].st # "ramp"
    BY <1>1, <1>7
  <2>2. \A k \in 1..StepsDone(s)' :
          /\ measured'[s][k].report \in Step
          /\ measured'[s][k].report.offered = Done(k - 1)
          /\ ~(measured'[s][k].report.pass /\ measured'[s][k].report.limited)
          /\ k > StepsDone(s)' - pods'[s].bad => ~measured'[s][k].report.pass
    BY <1>8, <2>1
  <2>3. pods'[s].bad < StepsDone(s)'
          => measured'[s][StepsDone(s)' - pods'[s].bad].report.pass
    BY <1>9, <2>1
  <2> QED BY <2>1, <2>2, <2>3 DEF JudgedPod
<1>11. \A t \in Shards : t # s => JudgedPod(t)'
  BY <1>1 DEF Judged, JudgedPod, StepsDone
<1> QED BY <1>10, <1>11 DEF Judged

\* Away from RunStep a pod may go back to its ramp, below the limit, or leave it.
LEMMA RestJudged ==
  ASSUME Judged, UNCHANGED measured,
         \A s \in Shards : /\ pods'[s].bad = pods[s].bad
                           /\ pods'[s].st = "ramp" /\ pods[s].st # "ramp"
                                => pods[s].bad < StopAfter
  PROVE  Judged'
  BY DEF Judged, JudgedPod, StepsDone

\* EndStep, pod by pod.
LEMMA EndStepMoves ==
  ASSUME IInv, NEW s \in Shards, EndStep(s)
  PROVE  /\ pods'[s].bad = pods[s].bad
         /\ pods'[s].st = IF pods[s].bad >= StopAfter THEN "finished" ELSE "ramp"
         /\ \A t \in Shards : t # s => pods'[t] = pods[t]
<1>1. PICK st : st = IF pods[s].bad >= StopAfter THEN "finished" ELSE "ramp"
  OBVIOUS
<1>2. PICK p : p = [pods[s] EXCEPT !.st = st, !.rate = @ + Share(StepRPS)]
  OBVIOUS
<1>3. p.st = st /\ p.bad = pods[s].bad
  BY <1>2, PodType
<1>4. pods' = [pods EXCEPT ![s] = p]
  BY <1>1, <1>2, PodType DEF EndStep
<1> QED BY <1>1, <1>3, <1>4, PodType

LEMMA GoesMoves ==
  ASSUME IInv, NEW s \in Shards, NEW st, Goes(s, st)
  PROVE  /\ pods'[s].bad = pods[s].bad /\ pods'[s].st = st
         /\ \A t \in Shards : t # s => pods'[t] = pods[t]
  BY PodType DEF Goes

LEMMA NextJudged == IInv /\ Judged /\ [Next]_vars => Judged'
<1> SUFFICES ASSUME IInv, Judged, [Next]_vars PROVE Judged'
  OBVIOUS
<1>1. ASSUME NEW s \in Shards, RunStep(s) PROVE Judged'
  BY <1>1, RunStepJudged
<1>2. ASSUME NEW s \in Shards, FillFile(s) \/ WriteFails(s) PROVE Judged'
  <2>1. EndStep(s) /\ UNCHANGED measured
    BY <1>2 DEF FillFile, WriteFails
  <2>2. pods[s].bad \in Nat
    BY PodType
  <2> QED BY <2>1, <2>2, EndStepMoves, RestJudged, StopAfterType
<1>3. ASSUME NEW s \in Shards, CreateFile(s) \/ RampOver(s) \/ Crash(s) PROVE Judged'
  <2>1. PICK st \in {"fill", "finished", "dead"} : Goes(s, st) /\ UNCHANGED measured
    BY <1>3 DEF CreateFile, RampOver, Crash
  <2> QED BY <2>1, GoesMoves, RestJudged
<1>4. CASE Aggregate \/ UNCHANGED vars
  <2>1. UNCHANGED <<pods, measured>>
    BY <1>4 DEF Aggregate, List, ReadFile, MergeAll, vars
  <2> QED BY <2>1, RestJudged
<1> QED BY <1>1, <1>2, <1>3, <1>4 DEF Next, Pod

LEMMA JudgedInvariance == Spec => [](IInv /\ Judged)
<1>1. IInv /\ Judged /\ [Next]_vars => IInv' /\ Judged'
  BY NextIInv, NextJudged
<1> QED BY <1>1, InitIInv, InitJudged, PTL DEF Spec

-------------------------------------------------------------------------------
(* What follows.                                                           *)

\* A pod of a sharded run that finishes has measured every step of the plan:
\* the limit it is given on failing steps can never stop it.
THEOREM WholePlanMeasured == Spec => []FullRange
<1>1. IInv => FullRange
  <2> SUFFICES ASSUME IInv, ShardCount > 1, NEW s \in Shards, pods[s].st = "finished"
               PROVE  StepsDone(s) = PlanLength
    BY DEF FullRange
  <2>1. PICK n \in Nat : n = StepsDone(s)
    BY StepsDoneType DEF IInv
  <2>2. (n > 0 => Done(n - 1) <= Share(MaxRPS)) /\ Done(n) > Share(MaxRPS)
    BY <2>1 DEF IInv, Paced, PacedPod
  <2>3. Done(n) \in Nat /\ Share(MaxRPS) \in Nat
    BY DoneType, Shared
  <2>4. ~(PlannedRate(n) <= MaxRPS)
    BY <2>2, <2>3, DoneIsPlanned
  <2>5. n > 0 => PlannedRate(n - 1) <= MaxRPS
    BY <2>2, DoneIsPlanned
  <2> QED BY <2>1, <2>4, <2>5, PlanEnds
<1> QED BY <1>1, Invariance, PTL

\* Whenever the aggregator runs and whatever it finds half written, what it
\* merges is data that some pod measured in the step it is filed under.
THEOREM MergesOnlyMeasured == Spec => []OnlyMeasuredData
<1>1. IInv => OnlyMeasuredData
  BY DEF IInv, Genuine, Measured, OnlyMeasuredData
<1> QED BY <1>1, Invariance, PTL

-------------------------------------------------------------------------------
(* The pods implement RampContract.                                        *)

LEMMA SameOffer ==
  ASSUME NEW s \in Shards, NEW n \in Nat
  PROVE  Contract(s)!Offer(n + 1) = Done(n)
<1>1. (n + 1) - 1 = n
  OBVIOUS
<1> QED BY <1>1 DEF Contract!Offer, Done

\* What the contract sees of a pod is a sequence of reports.
LEMMA ReportsType ==
  ASSUME IInv, Judged, NEW s \in Shards
  PROVE  \E n \in Nat :
           /\ n = StepsDone(s) /\ DOMAIN ReportsOf(s) = 1..n
           /\ ReportsOf(s) \in Seq(Step) /\ Len(ReportsOf(s)) = n
           /\ \A k \in 1..n : ReportsOf(s)[k] = measured[s][k].report
<1>1. PICK n \in Nat : n = StepsDone(s)
  BY StepsDoneType DEF IInv
<1>2. PICK q : q = measured[s]
  OBVIOUS
<1>3. q \in Seq(Elements(q)) /\ n = Len(q)
  BY <1>1, <1>2 DEF IInv, Shape, StepsDone
<1>4. DOMAIN q = 1..n
  BY <1>3, LenProperties
<1>5. PICK r : r = ReportsOf(s)
  OBVIOUS
<1>6. r = [k \in 1..n |-> q[k].report]
  BY <1>2, <1>4, <1>5 DEF ReportsOf
<1>7. \A k \in 1..n : q[k].report \in Step
  BY <1>1, <1>2 DEF Judged, JudgedPod
<1>8. r \in [1..n -> Step]
  BY <1>6, <1>7
<1>9. r \in Seq(Step) /\ Len(r) = n
  BY <1>8
<1> QED BY <1>1, <1>2, <1>5, <1>6, <1>9

\* A pod that has not had its limit of failing steps may go on.
LEMMA NotEnough ==
  ASSUME IInv, Judged, NEW s \in Shards, pods[s].bad < StopAfter
  PROVE  ~Contract(s)!EnoughBad
<1>1. PICK n \in Nat :
        /\ n = StepsDone(s) /\ Len(ReportsOf(s)) = n
        /\ \A k \in 1..n : ReportsOf(s)[k] = measured[s][k].report
  BY ReportsType
<1>2. PICK b \in Nat, stop \in Nat \ {0} : b = pods[s].bad /\ stop = StopAfter
  BY PodType, StopAfterType
<1> SUFFICES ASSUME n >= stop,
                    \A i \in n - stop + 1..n : ~ReportsOf(s)[i].pass
             PROVE  FALSE
  BY <1>1, <1>2 DEF Contract!EnoughBad
<1>3. b < n => measured[s][n - b].report.pass
  BY <1>1, <1>2 DEF Judged, JudgedPod
<1>4. b < n /\ n - b \in n - stop + 1..n /\ n - b \in 1..n
  BY <1>2
<1> QED BY <1>1, <1>3, <1>4

LEMMA EnoughIsEnough ==
  ASSUME IInv, Judged, NEW s \in Shards, pods[s].bad >= StopAfter
  PROVE  Contract(s)!EnoughBad
<1>1. PICK n \in Nat :
        /\ n = StepsDone(s) /\ Len(ReportsOf(s)) = n
        /\ \A k \in 1..n : ReportsOf(s)[k] = measured[s][k].report
  BY ReportsType
<1>2. PICK b \in Nat, stop \in Nat \ {0} : b = pods[s].bad /\ stop = StopAfter
  BY PodType, StopAfterType
<1>3. b <= n /\ stop <= b
  BY <1>1, <1>2 DEF IInv, Paced, PacedPod
<1>4. \A k \in 1..n : k > n - b => ~measured[s][k].report.pass
  BY <1>1, <1>2 DEF Judged, JudgedPod
<1>5. \A i \in n - stop + 1..n : i \in 1..n /\ i > n - b
  BY <1>2, <1>3
<1>6. \A i \in n - stop + 1..n : ~ReportsOf(s)[i].pass
  BY <1>1, <1>4, <1>5
<1> QED BY <1>1, <1>2, <1>3, <1>6 DEF Contract!EnoughBad

\* Rates rise from step to step.
LEMMA DoneRises ==
  ASSUME NEW i \in Nat, NEW j \in Nat, i <= j
  PROVE  Done(i) <= Done(j)
<1>1. Share(StartRPS) \in Nat /\ Share(StepRPS) \in Nat
  BY Shared
<1>2. \A a, b, c \in Nat : a <= b => a * c <= b * c
  OBVIOUS
<1>3. \A a, c \in Nat : a * c \in Nat
  OBVIOUS
<1> QED BY <1>1, <1>2, <1>3 DEF Done

\* The last of some positions in a list.
LEMMA LastOf ==
  ASSUME NEW n \in Nat, NEW T, T \subseteq 1..n, T # {}
  PROVE  \E k \in T : \A j \in T : j <= k
<1>1. PICK G : G = {n - k : k \in T}
  OBVIOUS
<1>2. G \subseteq Nat /\ G # {}
  <2>1. \A k \in T : n - k \in Nat
    OBVIOUS
  <2> QED BY <1>1, <2>1
<1>3. PICK x \in G : \A y \in G : x <= y
  BY <1>2, LeastNat
<1>4. PICK k \in T : x = n - k
  BY <1>1, <1>3
<1>5. \A j \in T : n - k <= n - j
  BY <1>1, <1>3, <1>4
<1> QED BY <1>5

\* The verdict on a pod's reports is one the contract allows: its breaking
\* point is the rate of the last step that passed.
LEMMA VerdictSound ==
  ASSUME IInv, Judged, NEW s \in Shards
  PROVE  Contract(s)!Sound(DetermineOutcome(ReportsOf(s)))
<1>1. PICK steps : steps = ReportsOf(s)
  OBVIOUS
<1>2. PICK n \in Nat :
        /\ n = StepsDone(s) /\ DOMAIN steps = 1..n /\ Len(steps) = n
        /\ \A k \in 1..n : steps[k] = measured[s][k].report
  BY <1>1, ReportsType
<1>3. \A k \in 1..n : steps[k].offered = Done(k - 1) /\ steps[k].offered \in Nat
  BY <1>2 DEF Judged, JudgedPod, Step
<1>4. PICK v : v = DetermineOutcome(steps)
  OBVIOUS
<1>5. CASE AnyLimited(steps)
  <2>1. v.outcome = "generator-limited"
    BY <1>4, <1>5 DEF DetermineOutcome
  <2> QED BY <1>1, <1>4, <1>5, <2>1 DEF AnyLimited, Contract!Sound
<1>6. CASE ~AnyLimited(steps) /\ Passing(steps) = {}
  <2>1. v.outcome = "inconclusive"
    BY <1>4, <1>6 DEF DetermineOutcome
  <2> QED BY <1>1, <1>4, <1>6, <2>1 DEF AnyLimited, Passing, Contract!Sound
<1>7. CASE ~AnyLimited(steps) /\ Passing(steps) # {}
  <2>1. Passing(steps) \subseteq 1..n
    BY <1>2 DEF Passing
  <2>2. PICK k \in Passing(steps) : \A j \in Passing(steps) : j <= k
    BY <1>7, <2>1, LastOf
  <2>3. k \in 1..n /\ steps[k].pass
    BY <2>1 DEF Passing
  <2>4. \A i \in Passing(steps) : steps[i].offered <= steps[k].offered
    <3> SUFFICES ASSUME NEW i \in Passing(steps) PROVE steps[i].offered <= steps[k].offered
      OBVIOUS
    <3>1. i \in 1..n /\ i - 1 \in Nat /\ k - 1 \in Nat /\ i - 1 <= k - 1
      BY <2>1, <2>2, <2>3
    <3>2. Done(i - 1) <= Done(k - 1)
      BY <3>1, DoneRises
    <3> QED BY <1>3, <2>3, <3>1, <3>2
  <2>5. \A i \in Passing(steps) : steps[i].offered \in Nat
    BY <1>3, <2>1
  <2>6. \A r \in {steps[i].offered : i \in Passing(steps)} :
          (\A i \in Passing(steps) : steps[i].offered <= r) => r = steps[k].offered
    BY <2>4, <2>5
  <2>7. BreakingPoint(steps) = steps[k].offered
    BY <2>4, <2>6 DEF BreakingPoint
  <2>8. v.outcome = "converged" /\ v.breakingPoint = steps[k].offered
    BY <1>4, <1>7, <2>7 DEF DetermineOutcome
  <2>9. \A j \in k + 1..n : ~steps[j].pass
    <3> SUFFICES ASSUME NEW j \in k + 1..n, steps[j].pass PROVE FALSE
      OBVIOUS
    <3>1. j \in 1..n
      BY <2>3
    <3>2. j \in Passing(steps)
      BY <1>2, <3>1 DEF Passing
    <3> QED BY <2>2, <2>3, <3>1, <3>2
  <2>10. \A i \in DOMAIN steps : ~steps[i].limited
    BY <1>7 DEF AnyLimited
  <2> QED BY <1>1, <1>2, <1>4, <2>3, <2>8, <2>9, <2>10 DEF Contract!Sound
<1> QED BY <1>5, <1>6, <1>7

\* A step of the ramp is a step of the contract.
LEMMA MeasureAllowed ==
  ASSUME IInv, Judged, NEW s \in Shards, RunStep(s)
  PROVE  Contract(s)!Next
<1>1. PICK e, n :
        /\ n \in Nat /\ n = StepsDone(s) /\ StepsDone(s)' = n + 1
        /\ measured'[s][n + 1] = e /\ \A k \in 1..n : measured'[s][k] = measured[s][k]
        /\ DOMAIN measured'[s] = 1..n + 1 /\ DOMAIN measured[s] = 1..n
        /\ e.report \in Step /\ e.report.offered = pods[s].rate
        /\ ~(e.report.pass /\ e.report.limited)
        /\ pods'[s].st = "report"
        /\ pods'[s].bad = IF e.report.pass THEN 0 ELSE pods[s].bad + 1
        /\ \A t \in Shards : t # s => pods'[t] = pods[t] /\ measured'[t] = measured[t]
  BY StepListed
<1>2. PICK old, new, rep : old = ReportsOf(s) /\ new = ReportsOf(s)' /\ rep = e.report
  OBVIOUS
<1>3. /\ DOMAIN old = 1..n /\ old \in Seq(Step) /\ Len(old) = n
      /\ \A k \in 1..n : old[k] = measured[s][k].report
  BY <1>1, <1>2, ReportsType
<1>4. new = [k \in 1..n + 1 |-> measured'[s][k].report]
  BY <1>1, <1>2 DEF ReportsOf
<1>5. new = Append(old, rep)
  <2>1. rep \in Step
    BY <1>1, <1>2
  <2>2. /\ Append(old, rep) \in Seq(Step) /\ Len(Append(old, rep)) = n + 1
        /\ DOMAIN Append(old, rep) = 1..n + 1
        /\ Append(old, rep)[n + 1] = rep
        /\ \A k \in 1..n : Append(old, rep)[k] = old[k]
    BY <1>3, <2>1, AppendProperties, LenProperties
  <2>3. \A k \in 1..n + 1 : new[k] = Append(old, rep)[k]
    <3>1. \A k \in 1..n + 1 : k = n + 1 \/ k \in 1..n
      BY <1>1
    <3>2. \A k \in 1..n : new[k] = measured[s][k].report
      BY <1>1, <1>4
    <3>3. new[n + 1] = rep
      BY <1>1, <1>2, <1>4
    <3> QED BY <1>3, <2>2, <3>1, <3>2, <3>3
  <2>4. DOMAIN new = 1..n + 1 /\ new = [k \in DOMAIN new |-> new[k]]
    BY <1>4
  <2>5. PICK app : app = Append(old, rep)
    OBVIOUS
  <2>6. app = [k \in DOMAIN app |-> app[k]]
    <3>1. app \in UNION {[1..m -> Step] : m \in Nat}
      BY <2>2, <2>5, SeqDef
    <3>2. PICK m \in Nat : app \in [1..m -> Step]
      BY <3>1
    <3> QED BY <3>2
  <2> QED BY <2>2, <2>3, <2>4, <2>5, <2>6
<1>6. /\ pods[s].st = "ramp" /\ pods[s].rate <= Share(MaxRPS)
      /\ pods[s].rate = Done(n) /\ Done(n) \in Nat /\ Share(MaxRPS) \in Nat
  BY <1>1, DoneType, Shared DEF RunStep, IInv, Paced, PacedPod
<1>7. pods[s].bad < StopAfter
  BY <1>6 DEF Judged, JudgedPod
<1>8. Contract(s)!Offer(Len(ReportsOf(s)) + 1) = Done(n)
  BY <1>1, <1>2, <1>3, SameOffer
<1>9. ~Contract(s)!Over
  <2>1. ~(Done(n) > Share(MaxRPS))
    BY <1>6
  <2> QED BY <1>7, <1>8, <2>1, NotEnough DEF Contract!Over
<1>10. VerdictOf(s) = [outcome |-> "none", breakingPoint |-> 0] /\ UNCHANGED VerdictOf(s)
  BY <1>1, <1>6 DEF VerdictOf
<1>11. PICK pass \in BOOLEAN, limited \in BOOLEAN : pass = rep.pass /\ limited = rep.limited
  BY <1>1, <1>2 DEF Step
<1>12. /\ rep = [offered |-> Done(n), pass |-> pass, limited |-> limited]
       /\ ~(pass /\ limited)
  BY <1>1, <1>2, <1>6, <1>11 DEF Step
<1>13. ReportsOf(s)' = Append(ReportsOf(s),
                              [offered |-> Contract(s)!Offer(Len(ReportsOf(s)) + 1),
                               pass |-> pass, limited |-> limited])
  BY <1>2, <1>5, <1>8, <1>12
<1>14. VerdictOf(s).outcome = "none"
  BY <1>10
<1>15. Contract(s)!Measure
  BY <1>9, <1>10, <1>12, <1>13, <1>14 DEF Contract!Measure
<1> QED BY <1>15 DEF Contract!Next

\* A pod that stops has a reason the contract accepts, and reports it soundly.
LEMMA ConcludeAllowed ==
  ASSUME IInv, Judged, NEW s \in Shards, UNCHANGED measured,
         pods[s].st \in {"ramp", "report", "fill"}, pods'[s].st = "finished",
         \/ pods[s].bad >= StopAfter
         \/ pods[s].st = "ramp" /\ pods[s].rate > Share(MaxRPS)
  PROVE  Contract(s)!Next
<1>1. PICK n \in Nat : n = StepsDone(s) /\ Len(ReportsOf(s)) = n
  BY ReportsType
<1>2. UNCHANGED ReportsOf(s)
  BY DEF ReportsOf
<1>3. VerdictOf(s).outcome = "none"
  BY DEF VerdictOf
<1>4. VerdictOf(s)' = DetermineOutcome(ReportsOf(s))
  <2>1. VerdictOf(s)' = DetermineOutcome(ReportsOf(s)')
    BY DEF VerdictOf
  <2> QED BY <1>2, <2>1
<1>5. Contract(s)!Over
  <2>1. CASE pods[s].bad >= StopAfter
    BY <2>1, EnoughIsEnough DEF Contract!Over
  <2>2. CASE pods[s].st = "ramp" /\ pods[s].rate > Share(MaxRPS)
    <3>1. pods[s].rate = Done(n)
      BY <1>1, <2>2 DEF IInv, Paced, PacedPod
    <3>2. Contract(s)!Offer(Len(ReportsOf(s)) + 1) = Done(n)
      BY <1>1, SameOffer
    <3> QED BY <2>2, <3>1, <3>2 DEF Contract!Over
  <2> QED BY <2>1, <2>2
<1>6. Contract(s)!Sound(VerdictOf(s)')
  BY <1>4, VerdictSound
<1>7. Contract(s)!Conclude
  BY <1>2, <1>3, <1>5, <1>6 DEF Contract!Conclude, Contract!Sound
<1> QED BY <1>7 DEF Contract!Next

\* A pod that dies has no result.
LEMMA FailAllowed ==
  ASSUME NEW s \in Shards, UNCHANGED measured, ~Over(s), pods'[s].st = "dead"
  PROVE  Contract(s)!Next
<1>1. UNCHANGED ReportsOf(s)
  BY DEF ReportsOf
<1>2. VerdictOf(s).outcome = "none"
  BY DEF VerdictOf, Over
<1>3. VerdictOf(s)' = [outcome |-> "error", breakingPoint |-> 0]
  BY DEF VerdictOf
<1> QED BY <1>1, <1>2, <1>3 DEF Contract!Next, Contract!Fail

\* What the contract does not see.
LEMMA UnseenAllowed ==
  ASSUME NEW s \in Shards, UNCHANGED measured,
         {pods[s].st, pods'[s].st} \subseteq {"ramp", "report", "fill"}
  PROVE  UNCHANGED <<ReportsOf(s), VerdictOf(s)>>
<1>1. UNCHANGED ReportsOf(s)
  BY DEF ReportsOf
<1>2. UNCHANGED VerdictOf(s)
  BY DEF VerdictOf
<1> QED BY <1>1, <1>2

LEMMA OthersUnseen ==
  ASSUME NEW t, pods'[t] = pods[t], measured'[t] = measured[t]
  PROVE  UNCHANGED <<ReportsOf(t), VerdictOf(t)>>
<1>1. UNCHANGED ReportsOf(t)
  BY DEF ReportsOf
<1>2. UNCHANGED VerdictOf(t)
  BY <1>1 DEF VerdictOf
<1> QED BY <1>1, <1>2

LEMMA PodAllowed ==
  ASSUME IInv, Judged, NEW s \in Shards, Pod(s)
  PROVE  /\ [Contract(s)!Next]_<<ReportsOf(s), VerdictOf(s)>>
         /\ \A t \in Shards : t # s => pods'[t] = pods[t] /\ measured'[t] = measured[t]
<1>1. CASE RunStep(s)
  BY <1>1, MeasureAllowed, StepListed
<1>2. CASE FillFile(s) \/ WriteFails(s)
  <2>1. EndStep(s) /\ UNCHANGED measured /\ pods[s].st \in {"report", "fill"}
    BY <1>2 DEF FillFile, WriteFails
  <2>2. /\ pods'[s].st = IF pods[s].bad >= StopAfter THEN "finished" ELSE "ramp"
        /\ \A t \in Shards : t # s => pods'[t] = pods[t]
    BY <2>1, EndStepMoves
  <2>3. CASE pods[s].bad >= StopAfter
    BY <2>1, <2>2, <2>3, ConcludeAllowed
  <2>4. CASE ~(pods[s].bad >= StopAfter)
    BY <2>1, <2>2, <2>4, UnseenAllowed
  <2> QED BY <2>1, <2>2, <2>3, <2>4
<1>3. CASE CreateFile(s)
  <2>1. Goes(s, "fill") /\ UNCHANGED measured /\ pods[s].st = "report"
    BY <1>3 DEF CreateFile
  <2> QED BY <2>1, GoesMoves, UnseenAllowed
<1>4. CASE RampOver(s)
  <2>1. /\ Goes(s, "finished") /\ UNCHANGED measured
        /\ pods[s].st = "ramp" /\ pods[s].rate > Share(MaxRPS)
    BY <1>4 DEF RampOver
  <2> QED BY <2>1, GoesMoves, ConcludeAllowed
<1>5. CASE Crash(s)
  <2>1. Goes(s, "dead") /\ UNCHANGED measured /\ ~Over(s)
    BY <1>5 DEF Crash
  <2> QED BY <2>1, GoesMoves, FailAllowed
<1> QED BY <1>1, <1>2, <1>3, <1>4, <1>5 DEF Pod

LEMMA NextAllowed ==
  IInv /\ Judged /\ [Next]_vars =>
    [\A s \in Shards : [Contract(s)!Next]_<<ReportsOf(s), VerdictOf(s)>>]_<<pods, measured>>
<1> SUFFICES ASSUME IInv, Judged, [Next]_vars, ~UNCHANGED <<pods, measured>>,
                    NEW t \in Shards
             PROVE  [Contract(t)!Next]_<<ReportsOf(t), VerdictOf(t)>>
  OBVIOUS
<1>1. PICK s \in Shards : Pod(s)
  BY DEF Next, vars, Aggregate, List, ReadFile, MergeAll
<1>2. CASE t = s
  BY <1>1, <1>2, PodAllowed
<1>3. CASE t # s
  BY <1>1, <1>3, PodAllowed, OthersUnseen
<1> QED BY <1>2, <1>3

\* Whatever the other pods, the directory and the aggregator do, each pod
\* keeps the promise of a ramp over its own share of the plan: the rates in
\* order, an end with a reason, a sound verdict, no result when it dies.
THEOREM EveryPodKeepsItsPromise == Spec => PodsKeepContract
<1>1. Init => \A s \in Shards : Contract(s)!Init
  <2> SUFFICES ASSUME Init, NEW s \in Shards PROVE Contract(s)!Init
    OBVIOUS
  <2>1. measured[s] = <<>> /\ pods[s].st = "ramp"
    BY DEF Init
  <2>2. ReportsOf(s) = <<>>
    BY <2>1 DEF ReportsOf
  <2>3. VerdictOf(s) = [outcome |-> "none", breakingPoint |-> 0]
    BY <2>1 DEF VerdictOf
  <2> QED BY <2>2, <2>3 DEF Contract!Init
<1> QED BY <1>1, NextAllowed, JudgedInvariance, PTL DEF Spec, PodsKeepContract

-------------------------------------------------------------------------------
(* Sums and counts over finite sets.                                       *)

\* A set of subsets that has each subset whose smaller ones it has, has all.
LEMMA AllSubsets ==
  ASSUME NEW S, IsFiniteSet(S), NEW P,
         \A s \in SUBSET S : (\A x \in s : s \ {x} \in P) => s \in P
  PROVE  SUBSET S \subseteq P
<1>1. PICK B : B = {s \in SUBSET S : s \notin P}
  OBVIOUS
<1> SUFFICES ASSUME B # {} PROVE FALSE
  BY <1>1
<1>2. B \subseteq FiniteSubsetsOf(S)
  BY <1>1, FS_FiniteSubsetsOfFinite
<1>3. IsWellFoundedOn(StrictSubsetOrdering(S), FiniteSubsetsOf(S))
  BY FS_StrictSubsetOrderingWellFounded
<1>4. PICK s \in B : \A y \in B : ~(<<y, s>> \in StrictSubsetOrdering(S))
  BY <1>2, <1>3, WFMin
<1>5. ASSUME NEW x \in s PROVE s \ {x} \in P
  <2>1. s \ {x} \in SUBSET S /\ s \in SUBSET S
    BY <1>1
  <2>2. <<s \ {x}, s>> \in StrictSubsetOrdering(S)
    BY <2>1 DEF StrictSubsetOrdering
  <2>3. s \ {x} \notin B
    BY <1>4, <2>2
  <2> QED BY <1>1, <2>1, <2>3
<1> QED BY <1>1, <1>4, <1>5

\* fun[i] tokens for every i in I: a sum is the number of them.
Tokens(fun, I) == {p \in I \X Nat : p[2] \in 1..fun[p[1]]}

LEMMA TokensOfOne ==
  ASSUME NEW fun, NEW i, fun[i] \in Nat
  PROVE  IsFiniteSet(Tokens(fun, {i})) /\ Cardinality(Tokens(fun, {i})) = fun[i]
<1>1. PICK n \in Nat : n = fun[i]
  OBVIOUS
<1>2. Tokens(fun, {i}) = {i} \X (1..n)
  BY <1>1 DEF Tokens
<1>3. IsFiniteSet(1..n) /\ Cardinality(1..n) = n
  <2>1. Cardinality(1..n) = IF 1 > n THEN 0 ELSE n - 1 + 1
    BY FS_Interval
  <2> QED BY <2>1, FS_Interval
<1>4. IsFiniteSet({i}) /\ Cardinality({i}) = 1
  BY FS_Singleton
<1>5. IsFiniteSet({i} \X (1..n)) /\ Cardinality({i} \X (1..n)) = 1 * n
  BY <1>3, <1>4, FS_Product
<1>6. 1 * n = n
  OBVIOUS
<1>7. Cardinality({i} \X (1..n)) = fun[i]
  BY <1>1, <1>5, <1>6
<1> QED BY <1>2, <1>5, <1>7

LEMMA TokensSplit ==
  ASSUME NEW fun, NEW I, NEW x \in I
  PROVE  /\ Tokens(fun, I) = Tokens(fun, I \ {x}) \cup Tokens(fun, {x})
         /\ Tokens(fun, I \ {x}) \cap Tokens(fun, {x}) = {}
  BY DEF Tokens

LEMMA TokensFinite ==
  ASSUME NEW I, IsFiniteSet(I), NEW fun, \A i \in I : fun[i] \in Nat
  PROVE  \A s \in SUBSET I : IsFiniteSet(Tokens(fun, s))
<1>1. PICK P : P = {s \in SUBSET I : IsFiniteSet(Tokens(fun, s))}
  OBVIOUS
<1>2. ASSUME NEW s \in SUBSET I, \A x \in s : s \ {x} \in P PROVE s \in P
  <2>1. CASE s = {}
    <3>1. Tokens(fun, s) = {}
      BY <2>1 DEF Tokens
    <3> QED BY <1>1, <3>1, FS_EmptySet
  <2>2. CASE s # {}
    <3>1. PICK x \in s : IsFiniteSet(Tokens(fun, s \ {x}))
      BY <1>1, <1>2, <2>2
    <3>2. IsFiniteSet(Tokens(fun, {x}))
      BY TokensOfOne
    <3>3. IsFiniteSet(Tokens(fun, s \ {x}) \cup Tokens(fun, {x}))
      BY <3>1, <3>2, FS_Union
    <3>4. Tokens(fun, s) = Tokens(fun, s \ {x}) \cup Tokens(fun, {x})
      BY TokensSplit
    <3> QED BY <1>1, <3>3, <3>4
  <2> QED BY <2>1, <2>2
<1>3. SUBSET I \subseteq P
  BY <1>2, AllSubsets
<1> QED BY <1>1, <1>3

LEMMA TokensAdd ==
  ASSUME NEW I, IsFiniteSet(I), NEW fun, \A i \in I : fun[i] \in Nat,
         NEW s \in SUBSET I, NEW x \in s
  PROVE  Cardinality(Tokens(fun, s)) = fun[x] + Cardinality(Tokens(fun, s \ {x}))
<1>1. PICK a, b : a = Tokens(fun, s \ {x}) /\ b = Tokens(fun, {x})
  OBVIOUS
<1>2. s \ {x} \in SUBSET I /\ fun[x] \in Nat
  OBVIOUS
<1>3. IsFiniteSet(a)
  BY <1>1, <1>2, TokensFinite
<1>4. IsFiniteSet(b) /\ Cardinality(b) = fun[x]
  BY <1>1, <1>2, TokensOfOne
<1>5. Tokens(fun, s) = a \cup b /\ a \cap b = {}
  BY <1>1, TokensSplit
<1>6. Cardinality(a \cup b) = Cardinality(a) + Cardinality(b) - Cardinality({})
  BY <1>3, <1>4, <1>5, FS_Union
<1>7. Cardinality({}) = 0 /\ Cardinality(a) \in Nat
  BY <1>3, FS_EmptySet, FS_CardinalityType
<1>8. Cardinality(a) + fun[x] - 0 = fun[x] + Cardinality(a)
  BY <1>2, <1>7
<1>9. Cardinality(a \cup b) = fun[x] + Cardinality(a)
  BY <1>4, <1>6, <1>7, <1>8
<1> QED BY <1>1, <1>5, <1>9

\* SumFunctionOnSet, whichever element it takes first.
LEMMA SumCountsTokens ==
  ASSUME NEW I, IsFiniteSet(I), NEW fun, \A i \in I : fun[i] \in Nat
  PROVE  SumFunctionOnSet(fun, I) = Cardinality(Tokens(fun, I))
<1> DEFINE Some(s) == CHOOSE x \in s : TRUE
<1>1. PICK g : g = CHOOSE h : h = [s \in SUBSET I |->
                                    IF s = {} THEN 0 ELSE fun[Some(s)] + h[s \ {Some(s)}]]
  OBVIOUS
<1>2. SumFunctionOnSet(fun, I) = g[I]
  BY <1>1 DEF SumFunctionOnSet, FoldFunctionOnSet, MapThenFoldSet
<1>3. PICK h : h = [s \in SUBSET I |-> Cardinality(Tokens(fun, s))]
  OBVIOUS
<1>4. \A s \in SUBSET I : s # {} => Some(s) \in s
  OBVIOUS
<1> HIDE DEF Some
<1>5. ASSUME NEW s \in SUBSET I
      PROVE  h[s] = IF s = {} THEN 0 ELSE fun[Some(s)] + h[s \ {Some(s)}]
  <2>1. CASE s = {}
    <3>1. Tokens(fun, s) = {}
      BY <2>1 DEF Tokens
    <3> QED BY <1>3, <2>1, <3>1, FS_EmptySet
  <2>2. CASE s # {}
    <3>1. PICK x \in s : x = Some(s)
      BY <1>4, <2>2
    <3>2. s \ {x} \in SUBSET I
      OBVIOUS
    <3>3. h[s] = Cardinality(Tokens(fun, s)) /\ h[s \ {x}] = Cardinality(Tokens(fun, s \ {x}))
      BY <1>3, <3>2
    <3>4. Cardinality(Tokens(fun, s)) = fun[x] + Cardinality(Tokens(fun, s \ {x}))
      BY TokensAdd
    <3> QED BY <2>2, <3>1, <3>3, <3>4
  <2> QED BY <2>1, <2>2
<1>6. h = [s \in SUBSET I |-> IF s = {} THEN 0 ELSE fun[Some(s)] + h[s \ {Some(s)}]]
  BY <1>3, <1>5
<1>7. g = [s \in SUBSET I |-> IF s = {} THEN 0 ELSE fun[Some(s)] + g[s \ {Some(s)}]]
  BY <1>1, <1>6
<1>8. \A s \in SUBSET I : g[s] = IF s = {} THEN 0 ELSE fun[Some(s)] + g[s \ {Some(s)}]
  BY <1>7
<1>9. PICK P : P = {s \in SUBSET I : g[s] = h[s]}
  OBVIOUS
<1>10. ASSUME NEW s \in SUBSET I, \A x \in s : s \ {x} \in P PROVE s \in P
  <2>1. CASE s = {}
    BY <1>5, <1>8, <1>9, <2>1
  <2>2. CASE s # {}
    <3>1. PICK x \in s : x = Some(s)
      BY <1>4, <2>2
    <3>2. g[s \ {x}] = h[s \ {x}]
      BY <1>9, <1>10
    <3>3. g[s] = fun[x] + g[s \ {x}] /\ h[s] = fun[x] + h[s \ {x}]
      BY <1>5, <1>8, <2>2, <3>1
    <3> QED BY <1>9, <3>2, <3>3
  <2> QED BY <2>1, <2>2
<1>11. SUBSET I \subseteq P
  BY <1>10, AllSubsets
<1>12. g[I] = h[I]
  BY <1>9, <1>11
<1>13. h[I] = Cardinality(Tokens(fun, I))
  BY <1>3
<1> QED BY <1>2, <1>12, <1>13

LEMMA SumType ==
  ASSUME NEW I, IsFiniteSet(I), NEW fun, \A i \in I : fun[i] \in Nat
  PROVE  SumFunctionOnSet(fun, I) \in Nat
<1>1. I \in SUBSET I
  OBVIOUS
<1>2. IsFiniteSet(Tokens(fun, I))
  BY <1>1, TokensFinite
<1> QED BY <1>2, SumCountsTokens, FS_CardinalityType

LEMMA SumNone ==
  ASSUME NEW fun
  PROVE  SumFunctionOnSet(fun, {}) = 0
<1>1. Tokens(fun, {}) = {}
  BY DEF Tokens
<1> QED BY <1>1, SumCountsTokens, FS_EmptySet

LEMMA SumAdds ==
  ASSUME NEW I, IsFiniteSet(I), NEW x, x \notin I, NEW fun, \A i \in I \cup {x} : fun[i] \in Nat
  PROVE  SumFunctionOnSet(fun, I \cup {x}) = fun[x] + SumFunctionOnSet(fun, I)
<1>1. PICK J : J = I \cup {x}
  OBVIOUS
<1>2. IsFiniteSet(J) /\ J \in SUBSET J /\ x \in J /\ J \ {x} = I
  BY <1>1, FS_AddElement
<1>3. \A i \in J : fun[i] \in Nat
  BY <1>1
<1>4. Cardinality(Tokens(fun, J)) = fun[x] + Cardinality(Tokens(fun, J \ {x}))
  BY <1>2, <1>3, TokensAdd
<1>5. SumFunctionOnSet(fun, J) = Cardinality(Tokens(fun, J))
  BY <1>2, <1>3, SumCountsTokens
<1>6. SumFunctionOnSet(fun, I) = Cardinality(Tokens(fun, I))
  BY SumCountsTokens
<1> QED BY <1>1, <1>2, <1>4, <1>5, <1>6

-------------------------------------------------------------------------------
(* The percentile of a histogram that counted anything is a latency that   *)
(* was counted.                                                            *)

\* How many samples a histogram has up to a bucket.
UpTo(hist, b) == SumFunctionOnSet(hist, {k \in DOMAIN hist : k <= b})

Below(hist, b) == SumFunctionOnSet(hist, {k \in DOMAIN hist : k < b})

LEMMA UpToAdds ==
  ASSUME NEW hist \in [Buckets -> Nat], NEW b \in Buckets
  PROVE  /\ UpTo(hist, b) \in Nat /\ Below(hist, b) \in Nat
         /\ UpTo(hist, b) = hist[b] + Below(hist, b)
<1>1. PICK I : I = {k \in DOMAIN hist : k < b}
  OBVIOUS
<1>2. DOMAIN hist = Buckets /\ b \in Int /\ \A k \in Buckets : k \in Int
  BY LatencyAssumption DEF Buckets
<1>3. {k \in DOMAIN hist : k <= b} = I \cup {b} /\ b \notin I /\ I \subseteq Buckets
  <2>1. b \notin I /\ I \subseteq Buckets /\ b \in Buckets
    BY <1>1, <1>2
  <2>2. \A k \in Buckets : k <= b <=> k < b \/ k = b
    BY <1>2
  <2>3. \A k : k \in {j \in DOMAIN hist : j <= b} <=> k \in I \cup {b}
    BY <1>1, <1>2, <2>1, <2>2
  <2> QED BY <2>1, <2>3
<1>4. IsFiniteSet(Buckets)
  BY LatencyAssumption, FS_Interval DEF Buckets
<1>5. IsFiniteSet(I) /\ IsFiniteSet(I \cup {b})
  BY <1>3, <1>4, FS_Subset, FS_AddElement
<1>6. \A i \in I \cup {b} : hist[i] \in Nat
  BY <1>3
<1>7. SumFunctionOnSet(hist, I) \in Nat /\ SumFunctionOnSet(hist, I \cup {b}) \in Nat
  BY <1>5, <1>6, SumType
<1>8. SumFunctionOnSet(hist, I \cup {b}) = hist[b] + SumFunctionOnSet(hist, I)
  BY <1>3, <1>5, <1>6, SumAdds
<1> QED BY <1>1, <1>3, <1>7, <1>8 DEF UpTo, Below

LEMMA BelowIsUpTo ==
  ASSUME NEW hist \in [Buckets -> Nat], NEW b \in Buckets
  PROVE  IF b = LatencyFloor THEN Below(hist, b) = 0
         ELSE b - 1 \in Buckets /\ Below(hist, b) = UpTo(hist, b - 1)
<1>1. DOMAIN hist = Buckets
  OBVIOUS
<1>2. CASE b = LatencyFloor
  <2>1. {k \in DOMAIN hist : k < b} = {}
    BY <1>1, <1>2, LatencyAssumption DEF Buckets
  <2> QED BY <1>2, <2>1, SumNone DEF Below
<1>3. CASE b # LatencyFloor
  <2>1. b - 1 \in Buckets /\ {k \in DOMAIN hist : k < b} = {k \in DOMAIN hist : k <= b - 1}
    BY <1>1, <1>3, LatencyAssumption DEF Buckets
  <2> QED BY <1>3, <2>1 DEF Below, UpTo
<1> QED BY <1>2, <1>3

LEMMA RankInRange ==
  ASSUME NEW n \in Nat, n > 0, NEW r, r = (99 * n + 50) \div 100
  PROVE  r \in 1..n /\ 100 * r > 99 * n - 50
  OBVIOUS

\* What the abort criterion compares with its limit is a latency that some call
\* of the step had, within the histogram's range, and the slower calls are
\* fewer than a hundredth of them all plus one half (the rank is rounded to the
\* nearest): the p99 of Snapshot and MergeRaw (collect.go:134, 230, 235-237).
THEOREM PercentileWasMeasured ==
  ASSUME NEW hist \in [Buckets -> Nat], SumFunction(hist) > 0
  PROVE  LET p99 == Percentile(hist, 99)
         IN  /\ p99 \in Buckets /\ hist[p99] > 0
             /\ 100 * (SumFunction(hist) - UpTo(hist, p99)) < SumFunction(hist) + 50
<1>1. PICK n : n = SumFunction(hist)
  OBVIOUS
<1>2. PICK r : r = (99 * n + 50) \div 100
  OBVIOUS
<1>3. DOMAIN hist = Buckets /\ LatencyCeiling \in Buckets /\ Buckets \subseteq Nat
  BY LatencyAssumption DEF Buckets
<1>4. {k \in DOMAIN hist : k <= LatencyCeiling} = DOMAIN hist
  BY <1>3, LatencyAssumption DEF Buckets
<1>5. n = UpTo(hist, LatencyCeiling)
  BY <1>1, <1>4 DEF SumFunction, UpTo
<1>6. n \in Nat /\ n > 0
  BY <1>1, <1>3, <1>5, UpToAdds
<1>7. r \in 1..n /\ 100 * r > 99 * n - 50
  BY <1>2, <1>6, RankInRange
<1>8. PICK T : T = {b \in Buckets : UpTo(hist, b) >= r}
  OBVIOUS
<1>9. T \subseteq Nat /\ T # {}
  <2>1. UpTo(hist, LatencyCeiling) >= r
    BY <1>5, <1>6, <1>7
  <2>2. LatencyCeiling \in T
    BY <1>3, <1>8, <2>1
  <2> QED BY <1>3, <1>8, <2>2
<1>10. PICK m \in T : \A y \in T : m <= y
  BY <1>9, LeastNat
<1>11. m \in Buckets /\ UpTo(hist, m) >= r
  BY <1>8
<1>12. Below(hist, m) < r
  <2>1. CASE m = LatencyFloor
    BY <1>7, <1>11, <2>1, BelowIsUpTo
  <2>2. CASE m # LatencyFloor
    <3>1. m - 1 \in Buckets /\ Below(hist, m) = UpTo(hist, m - 1)
      BY <1>11, <2>2, BelowIsUpTo
    <3>2. m - 1 \notin T
      BY <1>3, <1>10, <1>11, <3>1
    <3>3. UpTo(hist, m - 1) \in Nat
      BY <3>1, UpToAdds
    <3> QED BY <1>7, <1>8, <3>1, <3>2, <3>3
  <2> QED BY <2>1, <2>2
<1>13. Percentile(hist, 99)
         = CHOOSE b \in Buckets : UpTo(hist, b) >= r /\ Below(hist, b) < r
  <2>1. n # 0
    BY <1>6
  <2>2. Percentile(hist, 99)
          = CHOOSE b \in DOMAIN hist : UpTo(hist, b) >= r /\ Below(hist, b) < r
    BY <1>1, <1>2, <2>1, Zenon DEF Percentile, UpTo, Below
  <2> QED BY <1>3, <2>2, Zenon
<1>14. PICK p : p = Percentile(hist, 99)
  OBVIOUS
<1>15. p \in Buckets /\ UpTo(hist, p) >= r /\ Below(hist, p) < r
  BY <1>11, <1>12, <1>13, <1>14
<1>16. hist[p] \in Nat /\ UpTo(hist, p) \in Nat /\ Below(hist, p) \in Nat
         /\ UpTo(hist, p) = hist[p] + Below(hist, p)
  BY <1>15, UpToAdds
<1>17. hist[p] > 0
  BY <1>7, <1>15, <1>16
<1>18. 100 * (n - UpTo(hist, p)) < n + 50
  BY <1>6, <1>7, <1>15, <1>16
<1> QED BY <1>1, <1>14, <1>15, <1>17, <1>18

-------------------------------------------------------------------------------
(* The collector counts: what it holds of a step follows from how many     *)
(* samples of each kind there were, not from their order.                  *)

Samples == [latency : Nat, outcome : Outcomes]

Tally(q, s) ==
  [total    |-> Cardinality(s),
   outcomes |-> [o \in Outcomes |-> Cardinality({i \in s : q[i].outcome = o})],
   hist     |-> [b \in Buckets |-> Cardinality({i \in s : Clamp(q[i].latency) = b})]]

LEMMA ClampType ==
  ASSUME NEW latency \in Nat
  PROVE  Clamp(latency) \in Buckets
  BY LatencyAssumption DEF Clamp, Buckets

LEMMA TallyType ==
  ASSUME NEW q, NEW s, IsFiniteSet(s)
  PROVE  Tally(q, s) \in Collector
<1>1. \A o \in Outcomes : Cardinality({i \in s : q[i].outcome = o}) \in Nat
  <2> TAKE o \in Outcomes
  <2>1. {i \in s : q[i].outcome = o} \in SUBSET s
    OBVIOUS
  <2> QED BY <2>1, FS_Subset, FS_CardinalityType
<1>2. \A b \in Buckets : Cardinality({i \in s : Clamp(q[i].latency) = b}) \in Nat
  <2> TAKE b \in Buckets
  <2>1. {i \in s : Clamp(q[i].latency) = b} \in SUBSET s
    OBVIOUS
  <2> QED BY <2>1, FS_Subset, FS_CardinalityType
<1>3. Cardinality(s) \in Nat
  BY FS_CardinalityType
<1> QED BY <1>1, <1>2, <1>3 DEF Tally, Collector

\* One more element that is of a kind, or is not.
LEMMA OneMore ==
  ASSUME NEW s, IsFiniteSet(s), NEW x \in s, NEW A, A \subseteq s
  PROVE  /\ Cardinality(A \ {x}) \in Nat
         /\ Cardinality(A) = IF x \in A THEN Cardinality(A \ {x}) + 1 ELSE Cardinality(A \ {x})
<1>1. IsFiniteSet(A)
  BY FS_Subset
<1>2. IsFiniteSet(A \ {x}) /\ Cardinality(A) \in Nat
  BY <1>1, FS_RemoveElement, FS_CardinalityType
<1>3. Cardinality(A \ {x}) \in Nat
  BY <1>2, FS_CardinalityType
<1>4. Cardinality(A \ {x}) = IF x \in A THEN Cardinality(A) - 1 ELSE Cardinality(A)
  BY <1>1, FS_RemoveElement
<1> QED BY <1>2, <1>3, <1>4

LEMMA TallyAdds ==
  ASSUME NEW q, NEW s, IsFiniteSet(s), NEW x \in s, q[x] \in Samples
  PROVE  Tally(q, s) = Add(Tally(q, s \ {x}), q[x].latency, q[x].outcome)
<1>1. PICK t : t = s \ {x}
  OBVIOUS
<1>2. PICK c : c = Tally(q, t)
  OBVIOUS
<1>3. PICK k \in Buckets, o \in Outcomes : k = Clamp(q[x].latency) /\ o = q[x].outcome
  BY ClampType DEF Samples
<1>4. IsFiniteSet(t)
  BY <1>1, FS_RemoveElement
<1>5. /\ c.total = Cardinality(t)
      /\ \A p \in Outcomes : c.outcomes[p] = Cardinality({i \in t : q[i].outcome = p})
      /\ \A b \in Buckets : c.hist[b] = Cardinality({i \in t : Clamp(q[i].latency) = b})
      /\ c \in Collector
  BY <1>2, <1>4, TallyType DEF Tally
<1>6. Add(c, q[x].latency, q[x].outcome)
        = [total |-> c.total + 1, outcomes |-> [c.outcomes EXCEPT ![o] = @ + 1],
           hist |-> [c.hist EXCEPT ![k] = @ + 1]]
  <2>1. PICK outs, hs : outs = [c.outcomes EXCEPT ![o] = @ + 1] /\ hs = [c.hist EXCEPT ![k] = @ + 1]
    OBVIOUS
  <2>2. Add(c, q[x].latency, q[x].outcome)
          = [c EXCEPT !.total = @ + 1, !.outcomes[o] = @ + 1, !.hist[k] = @ + 1]
    BY <1>3 DEF Add
  <2>3. [c EXCEPT !.total = @ + 1, !.outcomes[o] = @ + 1, !.hist[k] = @ + 1]
          = [c EXCEPT !.total = @ + 1, !.outcomes = outs, !.hist = hs]
    BY <2>1
  <2>4. [c EXCEPT !.total = @ + 1, !.outcomes = outs, !.hist = hs]
          = [total |-> c.total + 1, outcomes |-> outs, hist |-> hs]
    <3>1. PICK m : m = c.total + 1
      OBVIOUS
    <3>2. PICK p : p = [c EXCEPT !.total = m, !.outcomes = outs, !.hist = hs]
      OBVIOUS
    <3>3. DOMAIN c = {"total", "outcomes", "hist"}
      BY <1>5 DEF Collector
    <3>4. p = [total |-> m, outcomes |-> outs, hist |-> hs]
      BY <3>2, <3>3
    <3>5. p = [c EXCEPT !.total = @ + 1, !.outcomes = outs, !.hist = hs]
      BY <3>1, <3>2
    <3> QED BY <3>1, <3>4, <3>5
  <2> QED BY <2>1, <2>2, <2>3, <2>4
<1>7. Cardinality(s) = c.total + 1
  BY <1>1, <1>5, OneMore
<1>8. [p \in Outcomes |-> Cardinality({i \in s : q[i].outcome = p})]
        = [c.outcomes EXCEPT ![o] = @ + 1]
  <2>1. ASSUME NEW p \in Outcomes
        PROVE  Cardinality({i \in s : q[i].outcome = p})
                 = IF p = o THEN c.outcomes[p] + 1 ELSE c.outcomes[p]
    <3>1. PICK A : A = {i \in s : q[i].outcome = p}
      OBVIOUS
    <3>2. A \subseteq s /\ A \ {x} = {i \in t : q[i].outcome = p} /\ (x \in A <=> p = o)
      BY <1>1, <1>3, <3>1
    <3>3. c.outcomes[p] = Cardinality(A \ {x})
      BY <1>5, <3>2
    <3>4. Cardinality(A) = IF x \in A THEN Cardinality(A \ {x}) + 1 ELSE Cardinality(A \ {x})
      BY <3>2, OneMore
    <3> QED BY <3>1, <3>2, <3>3, <3>4
  <2>2. c.outcomes \in [Outcomes -> Nat]
    BY <1>5 DEF Collector
  <2> QED BY <2>1, <2>2
<1>9. [b \in Buckets |-> Cardinality({i \in s : Clamp(q[i].latency) = b})]
        = [c.hist EXCEPT ![k] = @ + 1]
  <2>1. ASSUME NEW b \in Buckets
        PROVE  Cardinality({i \in s : Clamp(q[i].latency) = b})
                 = IF b = k THEN c.hist[b] + 1 ELSE c.hist[b]
    <3>1. PICK A : A = {i \in s : Clamp(q[i].latency) = b}
      OBVIOUS
    <3>2. A \subseteq s /\ A \ {x} = {i \in t : Clamp(q[i].latency) = b} /\ (x \in A <=> b = k)
      BY <1>1, <1>3, <3>1
    <3>3. c.hist[b] = Cardinality(A \ {x})
      BY <1>5, <3>2
    <3>4. Cardinality(A) = IF x \in A THEN Cardinality(A \ {x}) + 1 ELSE Cardinality(A \ {x})
      BY <3>2, OneMore
    <3> QED BY <3>1, <3>2, <3>3, <3>4
  <2>2. c.hist \in [Buckets -> Nat]
    BY <1>5 DEF Collector
  <2> QED BY <2>1, <2>2
<1> QED BY <1>1, <1>2, <1>6, <1>7, <1>8, <1>9 DEF Tally

LEMMA GreatestOf ==
  ASSUME NEW n \in Nat, NEW s, s \subseteq 1..n, s # {}
  PROVE  Max(s) \in s
<1>1. PICK T : T = {n - y : y \in s}
  OBVIOUS
<1>2. T \subseteq Nat /\ T # {}
  <2>1. \A y \in s : n - y \in Nat
    OBVIOUS
  <2>2. PICK y \in s : n - y \in T
    BY <1>1
  <2> QED BY <1>1, <2>1, <2>2
<1>3. PICK d \in T : \A e \in T : d <= e
  BY <1>2, LeastNat
<1>4. PICK x \in s : d = n - x
  BY <1>1, <1>3
<1>5. \A y \in s : x >= y
  <2> TAKE y \in s
  <2>1. n - x <= n - y /\ x \in Nat /\ y \in Nat
    BY <1>1, <1>3, <1>4
  <2> QED BY <2>1
<1> QED BY <1>4, <1>5 DEF Max

LEMMA CollectedIsTally ==
  ASSUME NEW q \in Seq(Samples)
  PROVE  Collected(q) = Tally(q, 1..Len(q))
<1>1. PICK n \in Nat : n = Len(q)
  BY LenProperties
<1>2. DOMAIN q = 1..n /\ \A i \in 1..n : q[i] \in Samples
  BY <1>1, LenProperties, ElementOfSeq
<1>3. IsFiniteSet(1..n)
  BY FS_Interval
<1>4. PICK g : g = CHOOSE h : h = [s \in SUBSET (DOMAIN q) |->
         IF s = {} THEN New ELSE Add(h[s \ {Max(s)}], q[Max(s)].latency, q[Max(s)].outcome)]
  OBVIOUS
<1>5. Collected(q) = g[DOMAIN q]
  BY <1>4 DEF Collected, FoldLeft, MapThenFoldSet
<1>6. PICK h : h = [s \in SUBSET (1..n) |-> Tally(q, s)]
  OBVIOUS
<1>7. \A s \in SUBSET (1..n) : s # {} => Max(s) \in s
  BY GreatestOf
<1>8. ASSUME NEW s \in SUBSET (1..n)
      PROVE  h[s] = IF s = {} THEN New
                    ELSE Add(h[s \ {Max(s)}], q[Max(s)].latency, q[Max(s)].outcome)
  <2>1. CASE s = {}
    <3>1. /\ \A o \in Outcomes : {i \in s : q[i].outcome = o} = {}
          /\ \A b \in Buckets : {i \in s : Clamp(q[i].latency) = b} = {}
      BY <2>1
    <3>2. Cardinality({}) = 0
      BY FS_EmptySet
    <3>3. Tally(q, s) = New
      BY <2>1, <3>1, <3>2 DEF Tally, New
    <3> QED BY <1>6, <2>1, <3>3
  <2>2. CASE s # {}
    <3>1. PICK x \in s : x = Max(s)
      BY <1>7, <2>2
    <3>2. s \ {x} \in SUBSET (1..n) /\ IsFiniteSet(s) /\ q[x] \in Samples
      BY <1>2, <1>3, FS_Subset
    <3>3. h[s] = Tally(q, s) /\ h[s \ {x}] = Tally(q, s \ {x})
      BY <1>6, <3>2
    <3>4. Tally(q, s) = Add(Tally(q, s \ {x}), q[x].latency, q[x].outcome)
      BY <3>2, TallyAdds
    <3> QED BY <2>2, <3>1, <3>3, <3>4
  <2> QED BY <2>1, <2>2
<1>9. h = [s \in SUBSET (DOMAIN q) |->
         IF s = {} THEN New ELSE Add(h[s \ {Max(s)}], q[Max(s)].latency, q[Max(s)].outcome)]
  BY <1>2, <1>6, <1>8
<1>10. g = [s \in SUBSET (DOMAIN q) |->
         IF s = {} THEN New ELSE Add(g[s \ {Max(s)}], q[Max(s)].latency, q[Max(s)].outcome)]
  BY <1>4, <1>9
<1>11. \A s \in SUBSET (1..n) :
         g[s] = IF s = {} THEN New
                ELSE Add(g[s \ {Max(s)}], q[Max(s)].latency, q[Max(s)].outcome)
  BY <1>2, <1>10
<1>12. PICK P : P = {s \in SUBSET (1..n) : g[s] = h[s]}
  OBVIOUS
<1>13. ASSUME NEW s \in SUBSET (1..n), \A x \in s : s \ {x} \in P PROVE s \in P
  <2>1. CASE s = {}
    BY <1>8, <1>11, <1>12, <2>1
  <2>2. CASE s # {}
    <3>1. PICK x \in s : x = Max(s)
      BY <1>7, <2>2
    <3>2. g[s \ {x}] = h[s \ {x}]
      BY <1>12, <1>13
    <3>3. g[s] = Add(g[s \ {x}], q[x].latency, q[x].outcome)
      BY <1>11, <2>2, <3>1
    <3>4. h[s] = Add(h[s \ {x}], q[x].latency, q[x].outcome)
      BY <1>8, <2>2, <3>1
    <3> QED BY <1>12, <3>2, <3>3, <3>4
  <2> QED BY <2>1, <2>2
<1>14. SUBSET (1..n) \subseteq P
  <2>1. PICK D : D = 1..n
    OBVIOUS
  <2>2. IsFiniteSet(D) /\ \A s \in SUBSET D : (\A x \in s : s \ {x} \in P) => s \in P
    BY <1>3, <1>13, <2>1
  <2>3. SUBSET D \subseteq P
    BY <2>2, AllSubsets
  <2> QED BY <2>1, <2>3
<1>15. g[1..n] = h[1..n]
  BY <1>12, <1>14
<1>16. h[1..n] = Tally(q, 1..n)
  BY <1>6
<1> QED BY <1>1, <1>2, <1>5, <1>15, <1>16

LEMMA CollectedType ==
  ASSUME NEW q \in Seq(Samples)
  PROVE  Collected(q) \in Collector
<1>1. IsFiniteSet(1..Len(q))
  BY FS_Interval, LenProperties
<1> QED BY <1>1, CollectedIsTally, TallyType

-------------------------------------------------------------------------------
(* Counting over sequences that are joined.                                *)

CountIn(q, A) == Cardinality({i \in 1..Len(q) : q[i] \in A})

LEMMA CountType ==
  ASSUME NEW q \in Seq(Samples), NEW A
  PROVE  IsFiniteSet({i \in 1..Len(q) : q[i] \in A}) /\ CountIn(q, A) \in Nat
<1>1. IsFiniteSet(1..Len(q))
  BY FS_Interval, LenProperties
<1>2. {i \in 1..Len(q) : q[i] \in A} \in SUBSET (1..Len(q))
  OBVIOUS
<1>3. IsFiniteSet({i \in 1..Len(q) : q[i] \in A})
  BY <1>1, <1>2, FS_Subset
<1> QED BY <1>3, FS_CardinalityType DEF CountIn

LEMMA CountJoined ==
  ASSUME NEW p \in Seq(Samples), NEW q \in Seq(Samples), NEW A
  PROVE  CountIn(p \o q, A) = CountIn(p, A) + CountIn(q, A)
<1>1. PICK m \in Nat, n \in Nat : m = Len(p) /\ n = Len(q)
  BY LenProperties
<1>2. PICK r : r = p \o q
  OBVIOUS
<1>3. /\ r \in Seq(Samples) /\ Len(r) = m + n
      /\ \A i \in 1..m + n : r[i] = IF i <= m THEN p[i] ELSE q[i - m]
  BY <1>1, <1>2, ConcatProperties
<1>4. PICK X, Y : X = {i \in 1..m : p[i] \in A} /\ Y = {i \in 1..n : q[i] \in A}
  OBVIOUS
<1>5. PICK Z : Z = {m + i : i \in Y}
  OBVIOUS
<1>6. IsFiniteSet(X) /\ IsFiniteSet(Y) /\ Cardinality(X) = CountIn(p, A) /\ Cardinality(Y) = CountIn(q, A)
  BY <1>1, <1>4, CountType DEF CountIn
<1>7. IsFiniteSet(Z) /\ Cardinality(Z) = Cardinality(Y)
  <2>1. PICK f : f = [i \in Y |-> m + i]
    OBVIOUS
  <2>2. \A i \in Y : i \in Nat
    BY <1>4
  <2>3. f \in [Y -> Z] /\ \A a, b \in Y : f[a] = f[b] => a = b
    BY <1>5, <2>1, <2>2
  <2>4. \A z \in Z : \E i \in Y : f[i] = z
    BY <1>5, <2>1
  <2>5. ExistsBijection(Y, Z)
    BY <2>3, <2>4 DEF ExistsBijection, Bijection, Injection, Surjection, IsInjective
  <2> QED BY <1>6, <2>5, FS_Bijection
<1>8. X \cap Z = {}
  <2>1. ASSUME NEW z \in Z PROVE z \notin X
    <3>1. PICK i \in Y : z = m + i
      BY <1>5
    <3>2. i \in Nat /\ i > 0
      BY <1>4
    <3> QED BY <1>4, <3>1, <3>2
  <2> QED BY <2>1
<1>9. {i \in 1..m + n : r[i] \in A} = X \cup Z
  <2>1. ASSUME NEW i \in 1..m + n, r[i] \in A PROVE i \in X \cup Z
    <3>1. CASE i <= m
      <4>1. i \in 1..m /\ r[i] = p[i]
        BY <1>3, <3>1
      <4> QED BY <1>4, <2>1, <4>1
    <3>2. CASE ~(i <= m)
      <4>1. i - m \in 1..n /\ r[i] = q[i - m] /\ i = m + (i - m)
        BY <1>3, <3>2
      <4>2. i - m \in Y
        BY <1>4, <2>1, <4>1
      <4> QED BY <1>5, <4>1, <4>2
    <3> QED BY <3>1, <3>2
  <2>2. ASSUME NEW i \in X PROVE i \in 1..m + n /\ r[i] \in A
    <3>1. i \in 1..m /\ i \in 1..m + n /\ i <= m
      BY <1>4
    <3>2. r[i] = p[i]
      BY <1>3, <3>1
    <3> QED BY <1>4, <3>1, <3>2
  <2>3. ASSUME NEW z \in Z PROVE z \in 1..m + n /\ r[z] \in A
    <3>1. PICK i \in Y : z = m + i
      BY <1>5
    <3>2. i \in 1..n /\ q[i] \in A
      BY <1>4
    <3>3. z \in 1..m + n /\ ~(z <= m) /\ z - m = i
      BY <3>1, <3>2
    <3>4. r[z] = q[i]
      BY <1>3, <3>3
    <3> QED BY <3>2, <3>3, <3>4
  <2> QED BY <2>1, <2>2, <2>3
<1>10. Cardinality(X \cup Z) = Cardinality(X) + Cardinality(Z) - Cardinality({})
  BY <1>6, <1>7, <1>8, FS_Union
<1>11. PICK a \in Nat, b \in Nat : a = Cardinality(X) /\ b = Cardinality(Z)
  BY <1>6, <1>7, FS_CardinalityType
<1>12. Cardinality(X \cup Z) = a + b
  BY <1>10, <1>11, FS_EmptySet
<1> QED BY <1>2, <1>3, <1>6, <1>7, <1>9, <1>11, <1>12 DEF CountIn

WithOutcome(o) == {x \in Samples : x.outcome = o}
InBucket(b) == {x \in Samples : Clamp(x.latency) = b}

\* Two collections that count the same are the same.
LEMMA CollectedCounts ==
  ASSUME NEW q \in Seq(Samples)
  PROVE  Collected(q) = [total    |-> CountIn(q, Samples),
                         outcomes |-> [o \in Outcomes |-> CountIn(q, WithOutcome(o))],
                         hist     |-> [b \in Buckets |-> CountIn(q, InBucket(b))]]
<1>1. \A i \in 1..Len(q) : q[i] \in Samples
  BY LenProperties, ElementOfSeq
<1>2. {i \in 1..Len(q) : q[i] \in Samples} = 1..Len(q)
  BY <1>1
<1>3. \A o \in Outcomes : {i \in 1..Len(q) : q[i] \in WithOutcome(o)}
                            = {i \in 1..Len(q) : q[i].outcome = o}
  BY <1>1 DEF WithOutcome
<1>4. \A b \in Buckets : {i \in 1..Len(q) : q[i] \in InBucket(b)}
                           = {i \in 1..Len(q) : Clamp(q[i].latency) = b}
  BY <1>1 DEF InBucket
<1> QED BY <1>2, <1>3, <1>4, CollectedIsTally DEF Tally, CountIn

\* Joining n sequences, one after the other.
LEMMA JoinsExist ==
  ASSUME NEW n \in Nat \ {0}, NEW qs \in [1..n -> Seq(Samples)]
  PROVE  \E f \in [1..n -> Seq(Samples)] :
           \A i \in 1..n : f[i] = IF i = 1 THEN qs[i] ELSE f[i - 1] \o qs[i]
<1> DEFINE Joined(m) == \E f \in [1..m -> Seq(Samples)] :
                       \A i \in 1..m : f[i] = IF i = 1 THEN qs[i] ELSE f[i - 1] \o qs[i]
<1> SUFFICES ASSUME ~Joined(n) PROVE FALSE
  OBVIOUS
<1>1. PICK T : T = {m \in 1..n : ~Joined(m)}
  OBVIOUS
<1>2. T \subseteq Nat /\ n \in T
  <2> HIDE DEF Joined
  <2>1. n \in 1..n /\ 1..n \subseteq Nat
    OBVIOUS
  <2> QED BY <1>1, <2>1
<1>3. PICK m \in T : \A k \in T : m <= k
  BY <1>2, LeastNat
<1>4. m \in 1..n /\ ~Joined(m)
  BY <1>1, <1>3
<1>5. Joined(1)
  <2>1. PICK f : f = [i \in 1..1 |-> qs[1]]
    OBVIOUS
  <2>2. f \in [1..1 -> Seq(Samples)]
    BY <2>1
  <2>3. \A i \in 1..1 : i = 1
    OBVIOUS
  <2>4. \A i \in 1..1 : f[i] = IF i = 1 THEN qs[i] ELSE f[i - 1] \o qs[i]
    BY <2>1, <2>3
  <2> QED BY <2>2, <2>4
<1>6. m # 1
  BY <1>4, <1>5
<1>7. m - 1 \in 1..n /\ m - 1 < m /\ m \in 1..n
  BY <1>4, <1>6
<1>8. Joined(m - 1)
  <2>1. m - 1 \notin T
    <3>1. m \in Nat /\ m - 1 \in Nat /\ ~(m <= m - 1)
      BY <1>2, <1>7
    <3> QED BY <1>3, <3>1
  <2>2. PICK k : k = m - 1
    OBVIOUS
  <2>3. k \in 1..n /\ k \notin T
    BY <1>7, <2>1, <2>2
  <2> HIDE DEF Joined
  <2>4. Joined(k)
    BY <1>1, <2>3
  <2> QED BY <2>2, <2>4
<1>9. PICK f \in [1..m - 1 -> Seq(Samples)] :
        \A i \in 1..m - 1 : f[i] = IF i = 1 THEN qs[i] ELSE f[i - 1] \o qs[i]
  BY <1>8
<1>10. PICK q \in Seq(Samples) : q = f[m - 1] \o qs[m]
  <2>1. m - 1 \in 1..m - 1
    BY <1>7
  <2>2. f[m - 1] \in Seq(Samples) /\ qs[m] \in Seq(Samples)
    BY <1>7, <1>9, <2>1
  <2> QED BY <2>2, ConcatProperties
<1>11. PICK g : g = [i \in 1..m |-> IF i = m THEN q ELSE f[i]]
  OBVIOUS
<1>12. g \in [1..m -> Seq(Samples)]
  <2>1. \A i \in 1..m : i # m => i \in 1..m - 1
    BY <1>7
  <2> QED BY <1>9, <1>11, <2>1
<1>13. ASSUME NEW i \in 1..m PROVE g[i] = IF i = 1 THEN qs[i] ELSE g[i - 1] \o qs[i]
  <2>1. CASE i = m
    <3>1. m - 1 \in 1..m /\ m - 1 # m
      BY <1>7
    <3> QED BY <1>6, <1>10, <1>11, <2>1, <3>1
  <2>2. CASE i # m
    <3>1. i \in 1..m - 1
      BY <1>7, <2>2
    <3>2. i # 1 => i - 1 \in 1..m /\ i - 1 # m
      BY <1>7, <3>1
    <3>3. g[i] = f[i] /\ (i # 1 => g[i - 1] = f[i - 1])
      BY <1>11, <2>2, <3>2
    <3> QED BY <1>9, <3>1, <3>3
  <2> QED BY <2>1, <2>2
<1>14. Joined(m)
  BY <1>12, <1>13
<1> QED BY <1>4, <1>14

LEMMA FlattenJoins ==
  ASSUME NEW n \in Nat \ {0}, NEW qs \in [1..n -> Seq(Samples)]
  PROVE  \E f \in [1..n -> Seq(Samples)] :
           /\ \A i \in 1..n : f[i] = IF i = 1 THEN qs[i] ELSE f[i - 1] \o qs[i]
           /\ FlattenSeq(qs) = f[n]
<1>1. qs \in Seq(Seq(Samples)) /\ Len(qs) = n
  BY SeqDef, LenProperties
<1>2. PICK f \in [1..n -> Seq(Samples)] :
        \A i \in 1..n : f[i] = IF i = 1 THEN qs[i] ELSE f[i - 1] \o qs[i]
  BY JoinsExist
<1>3. f = [i \in 1..Len(qs) |-> IF i = 1 THEN qs[i] ELSE f[i - 1] \o qs[i]]
  BY <1>1, <1>2
<1>4. PICK g : g = CHOOSE h : h = [i \in 1..Len(qs) |-> IF i = 1 THEN qs[i] ELSE h[i - 1] \o qs[i]]
  OBVIOUS
<1>5. FlattenSeq(qs) = g[Len(qs)]
  BY <1>1, <1>4 DEF FlattenSeq
<1>6. g = [i \in 1..Len(qs) |-> IF i = 1 THEN qs[i] ELSE g[i - 1] \o qs[i]]
  BY <1>3, <1>4
<1>7. \A i \in 1..n : g[i] = IF i = 1 THEN qs[i] ELSE g[i - 1] \o qs[i]
  BY <1>1, <1>6
<1>8. ASSUME NEW b \in 1..n, g[b] # f[b] PROVE FALSE
  <2>1. PICK T : T = {m \in 1..n : g[m] # f[m]}
    OBVIOUS
  <2>2. T \subseteq Nat /\ b \in T
    BY <1>8, <2>1
  <2>3. PICK m \in T : \A k \in T : m <= k
    BY <2>2, LeastNat
  <2>4. m \in 1..n /\ g[m] # f[m]
    BY <2>1, <2>3
  <2>5. CASE m = 1
    BY <1>2, <1>7, <2>4, <2>5
  <2>6. CASE m # 1
    <3>1. m - 1 \in 1..n /\ ~(m <= m - 1)
      BY <2>4, <2>6
    <3>2. g[m - 1] = f[m - 1]
      BY <2>1, <2>3, <3>1
    <3> QED BY <1>2, <1>7, <2>4, <2>6, <3>2
  <2> QED BY <2>5, <2>6
<1>9. n \in 1..n
  OBVIOUS
<1>10. FlattenSeq(qs) = f[n]
  BY <1>1, <1>5, <1>8, <1>9
<1> QED BY <1>2, <1>10

\* The exports of n pods, no two the same; acc adds up what fun says of them.
AllOf(raw, n) == {raw[i] : i \in 0..n - 1}

Distinct(raw, n) == \A i, j \in 0..n - 1 : raw[i] = raw[j] => i = j

AddsUp(acc, fun, raw, n) ==
  /\ \A i \in 0..n - 1 : fun[raw[i]] \in Nat
  /\ \A i \in 1..n :
       /\ acc[i] \in Nat
       /\ acc[i] = IF i = 1 THEN fun[raw[0]] ELSE acc[i - 1] + fun[raw[i - 1]]

LEMMA SumOverPods ==
  ASSUME NEW n \in Nat \ {0}, NEW raw, NEW fun, NEW acc,
         Distinct(raw, n), AddsUp(acc, fun, raw, n)
  PROVE  SumFunctionOnSet(fun, AllOf(raw, n)) = acc[n]
<1> USE DEF Distinct, AddsUp
<1> DEFINE Of(m) == {raw[i] : i \in 0..m - 1}
<1> DEFINE Good(m) == IsFiniteSet(Of(m)) /\ SumFunctionOnSet(fun, Of(m)) = acc[m]
<1>1. \A m \in 1..n : Of(m) = Of(m - 1) \cup {raw[m - 1]} /\ raw[m - 1] \notin Of(m - 1)
  <2> TAKE m \in 1..n
  <2>1. \A i \in 0..m - 1 : i = m - 1 \/ i \in 0..m - 1 - 1
    OBVIOUS
  <2>2. \A i \in 0..m - 1 - 1 : i \in 0..m - 1 /\ i # m - 1 /\ i \in 0..n - 1
    OBVIOUS
  <2>3. m - 1 \in 0..m - 1 /\ m - 1 \in 0..n - 1
    OBVIOUS
  <2> QED BY <2>1, <2>2, <2>3
<1>2. Of(0) = {}
  OBVIOUS
<1>3. \A m \in 1..n : \A x \in Of(m) : fun[x] \in Nat
  <2> TAKE m \in 1..n
  <2>1. \A i \in 0..m - 1 : i \in 0..n - 1
    OBVIOUS
  <2> QED BY <2>1
<1> HIDE DEF Of
<1>4. Good(1)
  <2>1. Of(1) = {} \cup {raw[0]} /\ fun[raw[0]] \in Nat /\ 1 \in 1..n
    BY <1>1, <1>2
  <2>2. \A x \in {} \cup {raw[0]} : fun[x] \in Nat
    BY <2>1
  <2>3. IsFiniteSet({} \cup {raw[0]})
    BY FS_EmptySet, FS_AddElement
  <2>4. SumFunctionOnSet(fun, {} \cup {raw[0]}) = fun[raw[0]] + SumFunctionOnSet(fun, {})
    <3>1. PICK I, x : I = {} /\ x = raw[0]
      OBVIOUS
    <3>2. IsFiniteSet(I) /\ x \notin I /\ \A i \in I \cup {x} : fun[i] \in Nat
      BY <2>2, <3>1, FS_EmptySet
    <3>3. SumFunctionOnSet(fun, I \cup {x}) = fun[x] + SumFunctionOnSet(fun, I)
      BY <3>2, SumAdds
    <3> QED BY <3>1, <3>3
  <2>5. fun[raw[0]] + 0 = fun[raw[0]]
    BY <2>1
  <2> QED BY <2>1, <2>3, <2>4, <2>5, SumNone
<1>5. ASSUME NEW m \in 1..n, m # 1, Good(m - 1) PROVE Good(m)
  <2>1. PICK I, x : I = Of(m - 1) /\ x = raw[m - 1]
    OBVIOUS
  <2>2. IsFiniteSet(I) /\ x \notin I /\ Of(m) = I \cup {x}
    BY <1>1, <1>5, <2>1
  <2>3. \A y \in I \cup {x} : fun[y] \in Nat
    BY <1>3, <2>2
  <2>4. SumFunctionOnSet(fun, I \cup {x}) = fun[x] + SumFunctionOnSet(fun, I)
    BY <2>2, <2>3, SumAdds
  <2>5. IsFiniteSet(I \cup {x})
    BY <2>2, FS_AddElement
  <2>6. SumFunctionOnSet(fun, I) = acc[m - 1] /\ acc[m] = acc[m - 1] + fun[x]
    BY <1>5, <2>1
  <2>7. m - 1 \in 1..n
    BY <1>5
  <2>8. acc[m - 1] \in Nat /\ fun[x] \in Nat
    BY <2>3, <2>7
  <2>9. fun[x] + acc[m - 1] = acc[m]
    BY <2>6, <2>8
  <2> QED BY <2>2, <2>4, <2>5, <2>6, <2>9
<1> SUFFICES ASSUME ~Good(n) PROVE FALSE
  BY DEF Of, AllOf
<1> HIDE DEF Good
<1>6. PICK T : T = {m \in 1..n : ~Good(m)}
  OBVIOUS
<1>7. T \subseteq Nat /\ n \in T
  BY <1>6
<1>8. PICK m \in T : \A k \in T : m <= k
  BY <1>7, LeastNat
<1>9. m \in 1..n /\ ~Good(m) /\ m # 1
  BY <1>4, <1>6, <1>8
<1>10. PICK k \in 1..n : k = m - 1 /\ ~(m <= k)
  BY <1>9
<1>11. Good(k)
  BY <1>6, <1>8, <1>10
<1> QED BY <1>5, <1>9, <1>10, <1>11

-------------------------------------------------------------------------------
(* The worst health over the pods: in each metric the greatest reading.    *)

IsGreatest(t, s, m) ==
  (t = 0 \/ \E h \in s : h[m] = t) /\ \A h \in s : h[m] <= t

Greatest(s, m) == CHOOSE t \in Nat : IsGreatest(t, s, m)

LEMMA OneGreatest ==
  ASSUME NEW s \in SUBSET Reading, NEW m \in Metrics,
         NEW t \in Nat, NEW u \in Nat, IsGreatest(t, s, m), IsGreatest(u, s, m)
  PROVE  t = u
<1>1. t <= u
  BY DEF IsGreatest
<1>2. u <= t
  BY DEF IsGreatest
<1> QED BY <1>1, <1>2

LEMMA GreatestAdds ==
  ASSUME NEW s \in SUBSET Reading, NEW m \in Metrics, NEW x \in s,
         NEW t \in Nat, IsGreatest(t, s \ {x}, m)
  PROVE  /\ (IF x[m] > t THEN x[m] ELSE t) \in Nat
         /\ IsGreatest(IF x[m] > t THEN x[m] ELSE t, s, m)
<1>1. \A h \in s : h[m] \in Nat
  BY DEF Reading
<1>2. PICK u \in Nat : u = IF x[m] > t THEN x[m] ELSE t
  BY <1>1
<1>3. x[m] <= u /\ t <= u
  BY <1>1, <1>2
<1>4. \A h \in s : h[m] <= u
  <2> TAKE h \in s
  <2>1. h # x => h[m] <= t
    BY DEF IsGreatest
  <2> QED BY <1>1, <1>3, <2>1
<1>5. u = 0 \/ \E h \in s : h[m] = u
  BY <1>2 DEF IsGreatest
<1> QED BY <1>2, <1>4, <1>5 DEF IsGreatest

LEMMA GreatestExists ==
  ASSUME NEW S \in SUBSET Reading, IsFiniteSet(S), NEW m \in Metrics
  PROVE  \A s \in SUBSET S : Greatest(s, m) \in Nat /\ IsGreatest(Greatest(s, m), s, m)
<1>1. PICK P : P = {s \in SUBSET S : \E t \in Nat : IsGreatest(t, s, m)}
  OBVIOUS
<1>2. ASSUME NEW s \in SUBSET S, \A x \in s : s \ {x} \in P PROVE s \in P
  <2>1. CASE s = {}
    <3>1. IsGreatest(0, s, m)
      BY <2>1 DEF IsGreatest
    <3> QED BY <1>1, <3>1
  <2>2. CASE s # {}
    <3>1. PICK x \in s, t \in Nat : IsGreatest(t, s \ {x}, m)
      BY <1>1, <1>2, <2>2
    <3>2. s \in SUBSET Reading
      OBVIOUS
    <3>3. \E u \in Nat : IsGreatest(u, s, m)
      BY <3>1, <3>2, GreatestAdds
    <3> QED BY <1>1, <3>3
  <2> QED BY <2>1, <2>2
<1>3. SUBSET S \subseteq P
  BY <1>2, AllSubsets
<1>4. \A s \in SUBSET S : \E t \in Nat : IsGreatest(t, s, m)
  BY <1>1, <1>3
<1> QED BY <1>4 DEF Greatest

LEMMA WorstIsGreatest ==
  ASSUME NEW S \in SUBSET Reading, IsFiniteSet(S)
  PROVE  FoldSet(WorstHealth, NoReading, S) = [m \in Metrics |-> Greatest(S, m)]
<1> DEFINE Some(s) == CHOOSE x \in s : TRUE
<1>1. PICK g : g = CHOOSE h : h = [s \in SUBSET S |->
                 IF s = {} THEN NoReading ELSE WorstHealth(Some(s), h[s \ {Some(s)}])]
  OBVIOUS
<1>2. FoldSet(WorstHealth, NoReading, S) = g[S]
  BY <1>1 DEF FoldSet, MapThenFoldSet
<1>3. PICK h : h = [s \in SUBSET S |-> [m \in Metrics |-> Greatest(s, m)]]
  OBVIOUS
<1>4. \A s \in SUBSET S : s # {} => Some(s) \in s
  OBVIOUS
<1> HIDE DEF Some
<1>5. ASSUME NEW s \in SUBSET S
      PROVE  h[s] = IF s = {} THEN NoReading ELSE WorstHealth(Some(s), h[s \ {Some(s)}])
  <2>1. CASE s = {}
    <3>1. \A m \in Metrics : Greatest(s, m) = 0
      <4> TAKE m \in Metrics
      <4>1. IsGreatest(0, s, m) /\ s \in SUBSET Reading
        BY <2>1 DEF IsGreatest
      <4>2. Greatest(s, m) \in Nat /\ IsGreatest(Greatest(s, m), s, m)
        BY GreatestExists
      <4> QED BY <4>1, <4>2, OneGreatest
    <3> QED BY <1>3, <2>1, <3>1 DEF NoReading
  <2>2. CASE s # {}
    <3>1. PICK x \in s : x = Some(s)
      BY <1>4, <2>2
    <3>2. PICK r : r = s \ {x}
      OBVIOUS
    <3>3. r \in SUBSET S /\ s \in SUBSET Reading
      BY <3>2
    <3>4. \A m \in Metrics :
            Greatest(s, m) = IF x[m] > Greatest(r, m) THEN x[m] ELSE Greatest(r, m)
      <4> TAKE m \in Metrics
      <4>1. PICK t \in Nat : t = Greatest(r, m) /\ IsGreatest(t, s \ {x}, m)
        BY <3>2, <3>3, GreatestExists
      <4>2. PICK u \in Nat : u = Greatest(s, m) /\ IsGreatest(u, s, m)
        BY <3>3, GreatestExists
      <4>3. PICK v : v = IF x[m] > t THEN x[m] ELSE t
        OBVIOUS
      <4>4. v \in Nat /\ IsGreatest(v, s, m)
        BY <3>3, <4>1, <4>3, GreatestAdds
      <4>5. u = v
        BY <3>3, <4>2, <4>4, OneGreatest
      <4> QED BY <4>1, <4>2, <4>3, <4>5
    <3>5. /\ h[s] = [m \in Metrics |-> Greatest(s, m)]
          /\ h[r] = [m \in Metrics |-> Greatest(r, m)]
      BY <1>3, <3>3
    <3>6. WorstHealth(x, h[r])
            = [m \in Metrics |-> IF x[m] > Greatest(r, m) THEN x[m] ELSE Greatest(r, m)]
      BY <3>5 DEF WorstHealth
    <3>7. h[s] = WorstHealth(x, h[r])
      BY <3>4, <3>5, <3>6
    <3> QED BY <2>2, <3>1, <3>2, <3>7
  <2> QED BY <2>1, <2>2
<1>6. h = [s \in SUBSET S |->
             IF s = {} THEN NoReading ELSE WorstHealth(Some(s), h[s \ {Some(s)}])]
  BY <1>3, <1>5
<1>7. g = [s \in SUBSET S |->
             IF s = {} THEN NoReading ELSE WorstHealth(Some(s), g[s \ {Some(s)}])]
  BY <1>1, <1>6
<1>8. \A s \in SUBSET S :
        g[s] = IF s = {} THEN NoReading ELSE WorstHealth(Some(s), g[s \ {Some(s)}])
  BY <1>7
<1>9. PICK P : P = {s \in SUBSET S : g[s] = h[s]}
  OBVIOUS
<1>10. ASSUME NEW s \in SUBSET S, \A x \in s : s \ {x} \in P PROVE s \in P
  <2>1. CASE s = {}
    BY <1>5, <1>8, <1>9, <2>1
  <2>2. CASE s # {}
    <3>1. PICK x \in s : x = Some(s)
      BY <1>4, <2>2
    <3>2. g[s \ {x}] = h[s \ {x}]
      BY <1>9, <1>10
    <3>3. g[s] = WorstHealth(x, g[s \ {x}]) /\ h[s] = WorstHealth(x, h[s \ {x}])
      BY <1>5, <1>8, <2>2, <3>1
    <3> QED BY <1>9, <3>2, <3>3
  <2> QED BY <2>1, <2>2
<1>11. SUBSET S \subseteq P
  BY <1>10, AllSubsets
<1>12. g[S] = h[S]
  BY <1>9, <1>11
<1> QED BY <1>2, <1>3, <1>12

\* A metric of the worst health is over its limit when it is on some pod.
LEMMA WorstExceeds ==
  ASSUME NEW S \in SUBSET Reading, IsFiniteSet(S)
  PROVE  Exceeds(FoldSet(WorstHealth, NoReading, S)) <=> \E h \in S : Exceeds(h)
<1>1. PICK w : w = FoldSet(WorstHealth, NoReading, S)
  OBVIOUS
<1>2. \A m \in Metrics : w[m] = Greatest(S, m)
  BY <1>1, WorstIsGreatest
<1>3. \A m \in Metrics : w[m] \in Nat /\ IsGreatest(w[m], S, m)
  BY <1>2, GreatestExists
<1>4. \A m \in Metrics : Limits[m] \in Nat /\ \A h \in S : h[m] \in Nat
  BY VerdictAssumption DEF Reading
<1>5. ASSUME NEW m \in Metrics
      PROVE  w[m] > Limits[m] <=> \E h \in S : h[m] > Limits[m]
  <2>1. w[m] = 0 \/ \E h \in S : h[m] = w[m]
    BY <1>3 DEF IsGreatest
  <2>2. \A h \in S : h[m] <= w[m]
    BY <1>3 DEF IsGreatest
  <2> QED BY <1>3, <1>4, <2>1, <2>2
<1> QED BY <1>1, <1>5 DEF Exceeds

-------------------------------------------------------------------------------
(* Merging, and the type invariant.                                        *)

\* What a finite set of exports has in a field is finite.
LEMMA FieldFinite ==
  ASSUME NEW S, IsFiniteSet(S), NEW f, DOMAIN f = S
  PROVE  IsFiniteSet({f[x] : x \in S})
<1>1. PICK T : T = {f[x] : x \in S}
  OBVIOUS
<1>2. PICK g : g = [x \in S |-> f[x]]
  OBVIOUS
<1>3. g \in [S -> T] /\ \A t \in T : \E x \in S : g[x] = t
  BY <1>1, <1>2
<1>4. g \in Surjection(S, T)
  BY <1>3 DEF Surjection
<1> QED BY <1>1, <1>4, FS_Surjection

LEMMA OfferedType ==
  ASSUME NEW raws \in SUBSET RawStep, IsFiniteSet(raws)
  PROVE  OfferedBy(raws) \in Nat
<1>1. PICK fun : fun = [r \in raws |-> r.offered]
  OBVIOUS
<1>2. \A r \in raws : fun[r] \in Nat
  BY <1>1 DEF RawStep
<1> QED BY <1>1, <1>2, SumType DEF OfferedBy

LEMMA MergedStepType ==
  ASSUME NEW raws \in SUBSET RawStep, IsFiniteSet(raws)
  PROVE  MergedStep(raws) \in Step
<1>1. PICK snap : snap = MergeRaw(raws, StepDuration)
  OBVIOUS
<1>2. snap.offered \in Nat
  BY <1>1, OfferedType DEF MergeRaw, Snapshot
<1>3. PICK health : health = FoldSet(WorstHealth, NoReading, {r.health : r \in raws})
  OBVIOUS
<1>4. /\ Exceeds(health) \in BOOLEAN
      /\ (EvaluateStep(snap) /\ ~Exceeds(health)) \in BOOLEAN
  BY DEF Exceeds
<1>5. MergedStep(raws) = [offered |-> snap.offered,
                          pass |-> EvaluateStep(snap) /\ ~Exceeds(health),
                          limited |-> Exceeds(health)]
  BY <1>1, <1>3 DEF MergedStep
<1> QED BY <1>2, <1>4, <1>5 DEF Step

LEMMA MergeType ==
  ASSUME NEW raws \in SUBSET RawStep, IsFiniteSet(raws)
  PROVE  Merge(raws) \in Seq(Step)
<1>1. PICK indices : indices = {r.step : r \in raws}
  OBVIOUS
<1>2. PICK n \in Nat : n = Cardinality(indices)
  <2>1. PICK f : f = [r \in raws |-> r.step]
    OBVIOUS
  <2>2. indices = {f[r] : r \in raws}
    BY <1>1, <2>1
  <2>3. IsFiniteSet(indices)
    BY <2>1, <2>2, FieldFinite
  <2> QED BY <2>3, FS_CardinalityType
<1>3. DOMAIN StepIndices(raws) = 1..n
  BY <1>1, <1>2 DEF StepIndices
<1>4. ASSUME NEW k PROVE MergedStep({r \in raws : r.step = k}) \in Step
  <2>1. PICK at : at = {r \in raws : r.step = k}
    OBVIOUS
  <2>2. at \in SUBSET raws /\ at \in SUBSET RawStep
    BY <2>1
  <2>3. IsFiniteSet(at)
    BY <2>2, FS_Subset
  <2> QED BY <2>1, <2>2, <2>3, MergedStepType
<1>5. PICK m : m = Merge(raws)
  OBVIOUS
<1>6. m = [i \in 1..n |-> MergedStep({r \in raws : r.step = StepIndices(raws)[i]})]
  BY <1>3, <1>5 DEF Merge
<1>7. m \in [1..n -> Step]
  BY <1>4, <1>6
<1> QED BY <1>5, <1>7, SeqDef

Entry == [load : Loads, raw : RawStep, report : Step]

\* e records step n of pod s: the load it took there, and its export.
Recorded(s, n, e) ==
  /\ e \in Entry
  /\ e.raw = [step |-> n, shard |-> s, offered |-> Done(n),
              data |-> Collected(e.load.samples), health |-> e.load.health]

Recording ==
  \A s \in Shards : \A k \in 1..StepsDone(s) : Recorded(s, k - 1, measured[s][k])

Clean ==
  /\ \A f \in DOMAIN files : IsFiniteSet(files[f])
  /\ IsFiniteSet(agg.raws)
  /\ agg.st \in {"idle", "reading", "failed", "done"}
  /\ agg.steps \in Seq(Step)
  /\ agg.whole \in BOOLEAN
  /\ lost \in BOOLEAN

LEMMA StepRecorded ==
  ASSUME IInv, Judged, NEW s \in Shards, RunStep(s)
  PROVE  Recorded(s, StepsDone(s), measured'[s][StepsDone(s) + 1])
<1>1. PICK l \in Loads, elapsed \in Elapsed :
        LET raw  == [step |-> StepsDone(s), shard |-> s, offered |-> pods[s].rate,
                     data |-> Collected(l.samples), health |-> l.health]
            limited == Exceeds(l.health)
            pass == EvaluateStep(Snapshot(raw.data, raw.offered, elapsed)) /\ ~limited
            report == [offered |-> raw.offered, pass |-> pass, limited |-> limited]
        IN  measured' = [measured EXCEPT ![s] =
                           Append(@, [load |-> l, raw |-> raw, report |-> report])]
  BY DEF RunStep
<1>2. PICK raw : raw = [step |-> StepsDone(s), shard |-> s, offered |-> pods[s].rate,
                        data |-> Collected(l.samples), health |-> l.health]
  OBVIOUS
<1>3. PICK report :
        report = [offered |-> raw.offered,
                  pass |-> EvaluateStep(Snapshot(raw.data, raw.offered, elapsed))
                             /\ ~Exceeds(l.health),
                  limited |-> Exceeds(l.health)]
  OBVIOUS
<1>4. PICK e : e = [load |-> l, raw |-> raw, report |-> report]
  OBVIOUS
<1>5. measured' = [measured EXCEPT ![s] = Append(@, e)]
  BY <1>1, <1>2, <1>3, <1>4
<1>6. PICK n \in Nat : n = StepsDone(s)
  BY StepsDoneType DEF IInv
<1>7. measured'[s][n + 1] = e
  <2>1. PICK q, p : q = measured[s] /\ p = measured'[s]
    OBVIOUS
  <2>2. DOMAIN measured = Shards /\ q \in Seq(Elements(q)) /\ n = Len(q)
    BY <1>6, <2>1 DEF IInv, Shape, StepsDone
  <2>3. p = Append(q, e)
    BY <1>5, <2>1, <2>2
  <2>4. p[Len(q) + 1] = e
    BY <2>2, <2>3, AppendAny
  <2> QED BY <2>1, <2>2, <2>4
<1>8. pods[s].rate = Done(n) /\ pods[s].rate \in Nat
  <2>1. pods[s].st = "ramp"
    BY DEF RunStep
  <2> QED BY <1>6, <2>1, PodType DEF IInv, Paced, PacedPod
<1>9. l.samples \in Seq(Samples) /\ l.health \in Reading
  BY FleetAssumption DEF Samples
<1>10. raw \in RawStep
  <2>1. Collected(l.samples) \in Collector
    BY <1>9, CollectedType
  <2> QED BY <1>2, <1>6, <1>8, <1>9, <2>1 DEF RawStep
<1>11. report \in Step
  <2>1. /\ Exceeds(l.health) \in BOOLEAN
        /\ (EvaluateStep(Snapshot(raw.data, raw.offered, elapsed)) /\ ~Exceeds(l.health))
             \in BOOLEAN
    BY DEF Exceeds
  <2>2. raw.offered \in Nat
    BY <1>2, <1>8
  <2> QED BY <1>3, <2>1, <2>2 DEF Step
<1>12. e \in Entry
  BY <1>4, <1>10, <1>11 DEF Entry
<1>13. e.raw = [step |-> n, shard |-> s, offered |-> Done(n),
                data |-> Collected(e.load.samples), health |-> e.load.health]
  BY <1>2, <1>4, <1>6, <1>8
<1> QED BY <1>6, <1>7, <1>12, <1>13 DEF Recorded

LEMMA NextRecording == IInv /\ Judged /\ Recording /\ [Next]_vars => Recording'
<1> SUFFICES ASSUME IInv, Judged, Recording, [Next]_vars PROVE Recording'
  OBVIOUS
<1>1. ASSUME NEW s \in Shards, RunStep(s) PROVE Recording'
  <2>1. PICK e, n :
          /\ n \in Nat /\ n = StepsDone(s) /\ StepsDone(s)' = n + 1
          /\ measured'[s][n + 1] = e /\ \A k \in 1..n : measured'[s][k] = measured[s][k]
          /\ \A t \in Shards : t # s => measured'[t] = measured[t]
    BY <1>1, StepListed
  <2>2. Recorded(s, n, e)
    BY <1>1, <2>1, StepRecorded
  <2>3. \A k \in 1..n + 1 : Recorded(s, k - 1, measured'[s][k])
    <3>1. \A k \in 1..n + 1 : k \in 1..n \/ (k = n + 1 /\ k - 1 = n)
      BY <2>1
    <3>2. \A k \in 1..n : Recorded(s, k - 1, measured[s][k])
      BY <2>1 DEF Recording
    <3> QED BY <2>1, <2>2, <3>1, <3>2
  <2>4. \A t \in Shards : t # s => \A k \in 1..StepsDone(t)' : Recorded(t, k - 1, measured'[t][k])
    BY <2>1 DEF Recording, StepsDone
  <2>5. \A t \in Shards : \A k \in 1..StepsDone(t)' : Recorded(t, k - 1, measured'[t][k])
    BY <2>1, <2>3, <2>4
  <2> QED BY <2>5 DEF Recording, Recorded, Done, Share
<1>2. CASE UNCHANGED measured
  BY <1>2 DEF Recording, Recorded, StepsDone, Done, Share
<1> QED BY <1>1, <1>2 DEF Next, Pod, Aggregate, CreateFile, FillFile, WriteFails, RampOver,
                          Crash, List, ReadFile, MergeAll, vars

\* Every export that the aggregator can have read is typed.
LEMMA MeasuredType ==
  ASSUME IInv, Recording, NEW r, Measured(r)
  PROVE  r \in RawStep
<1>1. PICK s \in Shards, n \in Nat : s = r.shard /\ n = r.step /\ n < StepsDone(s)
                                     /\ measured[s][n + 1].raw = r
  BY DEF Measured
<1>2. n + 1 \in 1..StepsDone(s)
  <2>1. StepsDone(s) \in Nat
    BY StepsDoneType DEF IInv
  <2> QED BY <1>1, <2>1
<1>3. measured[s][n + 1] \in Entry
  BY <1>2 DEF Recording, Recorded
<1> QED BY <1>1, <1>3 DEF Entry

LEMMA InitClean == Init => Recording /\ Clean
<1> SUFFICES ASSUME Init PROVE Recording /\ Clean
  OBVIOUS
<1>1. \A s \in Shards : StepsDone(s) = 0
  BY EmptyAny DEF Init, StepsDone
<1>2. DOMAIN files = {}
  BY EmptyAny DEF Init
<1>3. agg.raws = {} /\ agg.st = "idle" /\ agg.steps = <<>> /\ agg.whole = FALSE /\ lost = FALSE
  BY DEF Init, NotRun
<1>4. Recording
  BY <1>1 DEF Recording
<1>5. <<>> \in Seq(Step) /\ IsFiniteSet({})
  BY FS_EmptySet
<1> QED BY <1>2, <1>3, <1>4, <1>5 DEF Clean

LEMMA PutFinite ==
  ASSUME \A f \in DOMAIN files : IsFiniteSet(files[f]),
         NEW s, NEW content, IsFiniteSet(content), Put(s, content)
  PROVE  \A f \in DOMAIN files' : IsFiniteSet(files'[f])
  BY DEF Put

LEMMA NextClean == IInv /\ Judged /\ Recording /\ Clean /\ [Next]_vars => Clean'
<1> SUFFICES ASSUME IInv, Judged, Recording, Clean, [Next]_vars PROVE Clean'
  OBVIOUS
<1>1. /\ \A f \in DOMAIN files : IsFiniteSet(files[f])
      /\ IsFiniteSet(agg.raws)
      /\ agg.st \in {"idle", "reading", "failed", "done"}
      /\ agg.steps \in Seq(Step)
      /\ agg.whole \in BOOLEAN
      /\ lost \in BOOLEAN
  BY DEF Clean
<1>2. ASSUME NEW s \in Shards, Pod(s) PROVE Clean'
  <2>1. UNCHANGED agg /\ lost' \in BOOLEAN
    BY <1>1, <1>2 DEF Pod, RunStep, CreateFile, FillFile, WriteFails, RampOver, Crash
  <2>2. \A f \in DOMAIN files' : IsFiniteSet(files'[f])
    <3>1. CASE CreateFile(s)
      <4>1. Put(s, {})
        BY <3>1 DEF CreateFile, Partial
      <4> QED BY <1>1, <4>1, PutFinite, FS_EmptySet
    <3>2. CASE FillFile(s)
      <4>1. Put(s, {Report(s)})
        BY <3>2 DEF FillFile, Full
      <4>2. IsFiniteSet({Report(s)})
        BY FS_Singleton
      <4> QED BY <1>1, <4>1, <4>2, PutFinite
    <3>3. CASE UNCHANGED files
      BY <1>1, <3>3
    <3> QED BY <1>2, <3>1, <3>2, <3>3 DEF Pod, RunStep, WriteFails, RampOver, Crash
  <2> QED BY <1>1, <2>1, <2>2 DEF Clean
<1>3. CASE Aggregate
  <2>1. UNCHANGED <<files, lost>>
    BY <1>3 DEF Aggregate, List, ReadFile, MergeAll
  <2>2. ASSUME NEW st \in {"idle", "failed"}, agg' = NotRun(st)
        PROVE  Clean'
    <3>1. agg'.raws = {} /\ agg'.st = st /\ agg'.steps = <<>> /\ agg'.whole = FALSE
      BY <2>2 DEF NotRun
    <3>2. <<>> \in Seq(Step) /\ IsFiniteSet({})
      BY FS_EmptySet
    <3> QED BY <1>1, <2>1, <3>1, <3>2 DEF Clean
  <2>3. CASE List
    <3>1. CASE files = <<>>
      BY <2>2, <2>3, <3>1 DEF List
    <3>2. CASE files # <<>>
      <4>1. agg'.raws = {} /\ agg'.st = "reading" /\ agg'.steps = <<>>
            /\ agg'.whole = (AllFinished /\ ~lost)
        BY <2>3, <3>2 DEF List
      <4>2. agg'.whole \in BOOLEAN
        BY <4>1 DEF AllFinished
      <4>3. <<>> \in Seq(Step) /\ IsFiniteSet({})
        BY FS_EmptySet
      <4> QED BY <1>1, <2>1, <4>1, <4>2, <4>3 DEF Clean
    <3> QED BY <3>1, <3>2
  <2>4. CASE ReadFile
    <3>1. PICK f : f = First(agg.todo)
      OBVIOUS
    <3>2. f \in DOMAIN files
      BY <2>4, <3>1, FirstIsOne DEF ReadFile, IInv, Shape
    <3>3. agg' = IF files[f] = Partial
                 THEN NotRun("failed")
                 ELSE [agg EXCEPT !.todo = @ \ {f}, !.raws = @ \cup files[f]]
      BY <2>4, <3>1 DEF ReadFile
    <3>4. CASE files[f] = Partial
      BY <2>2, <3>3, <3>4
    <3>5. CASE files[f] # Partial
      <4>1. /\ agg'.raws = agg.raws \cup files[f] /\ agg'.st = agg.st
            /\ agg'.steps = agg.steps /\ agg'.whole = agg.whole
        BY <3>3, <3>5 DEF IInv, Shape
      <4>2. IsFiniteSet(agg.raws \cup files[f])
        BY <1>1, <3>2, FS_Union
      <4> QED BY <1>1, <2>1, <4>1, <4>2 DEF Clean
    <3> QED BY <3>4, <3>5
  <2>5. CASE MergeAll
    <3>1. /\ agg'.raws = {} /\ agg'.st = "done"
          /\ agg'.steps = Merge(agg.raws) /\ agg'.whole = agg.whole
      BY <2>5 DEF MergeAll, IInv, Shape
    <3>2. agg.raws \in SUBSET RawStep
      BY MeasuredType DEF IInv, Genuine
    <3>3. Merge(agg.raws) \in Seq(Step)
      BY <1>1, <3>2, MergeType
    <3> QED BY <1>1, <2>1, <3>1, <3>3, FS_EmptySet DEF Clean
  <2> QED BY <1>3, <2>3, <2>4, <2>5 DEF Aggregate
<1>4. CASE UNCHANGED vars
  BY <1>4 DEF vars, Clean
<1> QED BY <1>2, <1>3, <1>4 DEF Next

LEMMA CleanInvariance == Spec => [](IInv /\ Judged /\ Recording /\ Clean)
<1>1. IInv /\ Judged /\ Recording /\ Clean /\ [Next]_vars
        => IInv' /\ Judged' /\ Recording' /\ Clean'
  BY NextIInv, NextJudged, NextRecording, NextClean
<1> QED BY <1>1, InitIInv, InitJudged, InitClean, PTL DEF Spec

\* The results directory holds exports of the fleet's shards and nothing
\* else, the aggregator makes step reports of them, and a pod's record of a
\* step is complete: every value a pod, a file or the aggregator may hold.
THEOREM FleetTypeOK == Spec => []TypeOK
<1>1. IInv /\ Recording /\ Clean => TypeOK
  <2> SUFFICES ASSUME IInv, Recording, Clean PROVE TypeOK
    OBVIOUS
  <2>1. \A s \in Shards : measured[s] \in Seq(Entry)
    <3> TAKE s \in Shards
    <3>1. PICK q : q = measured[s]
      OBVIOUS
    <3>2. q \in Seq(Elements(q)) /\ StepsDone(s) = Len(q)
      BY <3>1 DEF IInv, Shape, StepsDone
    <3>3. \A k \in 1..Len(q) : q[k] \in Entry
      BY <3>1, <3>2 DEF Recording, Recorded
    <3>4. q \in Seq(Entry)
      BY <3>2, <3>3
    <3> QED BY <3>1, <3>4
  <2>2. \A f \in DOMAIN files : f \in Nat \X Shards /\ files[f] \subseteq RawStep
    BY MeasuredType DEF IInv, Shape, Genuine
  <2>3. agg.todo \subseteq Nat \X Shards /\ agg.raws \subseteq RawStep
    BY MeasuredType DEF IInv, Shape, Genuine
  <2>4. pods \in [Shards -> [st : {"ramp", "report", "fill", "finished", "dead"},
                             rate : Nat, bad : Nat]]
    BY DEF IInv, Shape
  <2> QED BY <2>1, <2>2, <2>3, <2>4 DEF TypeOK, Entry, Clean
<1> QED BY <1>1, CleanInvariance, PTL

-------------------------------------------------------------------------------
(* What the pods exported of one step, merged, is what one generator would *)
(* have collected.                                                         *)

LEMMA CountsOverPods ==
  ASSUME NEW n \in Nat \ {0}, NEW qs \in [1..n -> Seq(Samples)], NEW A, NEW raw, NEW fun,
         Distinct(raw, n), \A i \in 0..n - 1 : fun[raw[i]] = CountIn(qs[i + 1], A)
  PROVE  SumFunctionOnSet(fun, AllOf(raw, n)) = CountIn(FlattenSeq(qs), A)
<1>1. PICK f \in [1..n -> Seq(Samples)] :
        /\ \A i \in 1..n : f[i] = IF i = 1 THEN qs[i] ELSE f[i - 1] \o qs[i]
        /\ FlattenSeq(qs) = f[n]
  BY FlattenJoins
<1>2. PICK acc : acc = [i \in 1..n |-> CountIn(f[i], A)]
  OBVIOUS
<1>3. ASSUME NEW i \in 1..n
      PROVE  acc[i] \in Nat
  <2>1. f[i] \in Seq(Samples)
    OBVIOUS
  <2>2. CountIn(f[i], A) \in Nat
    BY <2>1, CountType
  <2> QED BY <1>2, <2>2
<1>4. ASSUME NEW i \in 0..n - 1
      PROVE  fun[raw[i]] \in Nat
  <2>1. i + 1 \in 1..n
    OBVIOUS
  <2>2. PICK q \in Seq(Samples) : q = qs[i + 1]
    BY <2>1
  <2>3. CountIn(q, A) \in Nat
    BY CountType
  <2>4. fun[raw[i]] = CountIn(qs[i + 1], A)
    OBVIOUS
  <2> QED BY <2>2, <2>3, <2>4
<1>5. ASSUME NEW i \in 1..n
      PROVE  acc[i] = IF i = 1 THEN fun[raw[0]] ELSE acc[i - 1] + fun[raw[i - 1]]
  <2>1. fun[raw[i - 1]] = CountIn(qs[i], A)
    <3>1. i - 1 \in 0..n - 1 /\ (i - 1) + 1 = i
      OBVIOUS
    <3>2. PICK k \in 0..n - 1 : k = i - 1 /\ k + 1 = i
      BY <3>1
    <3> QED BY <3>2
  <2>2. CASE i = 1
    <3>1. f[i] = qs[i]
      BY <1>1, <2>2
    <3>2. i - 1 = 0
      BY <2>2
    <3> QED BY <1>2, <2>1, <2>2, <3>1, <3>2
  <2>3. CASE i # 1
    <3>1. i - 1 \in 1..n
      BY <2>3
    <3>2. f[i] = f[i - 1] \o qs[i] /\ f[i - 1] \in Seq(Samples) /\ qs[i] \in Seq(Samples)
      BY <1>1, <2>3, <3>1
    <3>3. CountIn(f[i], A) = CountIn(f[i - 1], A) + CountIn(qs[i], A)
      BY <3>2, CountJoined
    <3> QED BY <1>2, <2>1, <2>3, <3>1, <3>3
  <2> QED BY <2>2, <2>3
<1>6. AddsUp(acc, fun, raw, n)
  BY <1>3, <1>4, <1>5 DEF AddsUp
<1>7. SumFunctionOnSet(fun, AllOf(raw, n)) = acc[n]
  BY <1>6, SumOverPods
<1>8. acc[n] = CountIn(f[n], A)
  BY <1>2
<1> QED BY <1>1, <1>7, <1>8

LEMMA EqualShares ==
  ASSUME NEW n \in Nat \ {0}, NEW c \in Nat, NEW raw, NEW fun,
         Distinct(raw, n), \A i \in 0..n - 1 : fun[raw[i]] = c
  PROVE  SumFunctionOnSet(fun, AllOf(raw, n)) = n * c
<1>1. PICK acc : acc = [i \in 1..n |-> i * c]
  OBVIOUS
<1>2. \A i \in 1..n : acc[i] \in Nat
  BY <1>1
<1>3. ASSUME NEW i \in 1..n
      PROVE  acc[i] = IF i = 1 THEN fun[raw[0]] ELSE acc[i - 1] + fun[raw[i - 1]]
  <2>1. fun[raw[i - 1]] = c /\ fun[raw[0]] = c
    <3>1. i - 1 \in 0..n - 1 /\ 0 \in 0..n - 1
      OBVIOUS
    <3> QED BY <3>1
  <2>2. acc[i] = i * c /\ (i # 1 => acc[i - 1] = (i - 1) * c)
    <3>1. i # 1 => i - 1 \in 1..n
      OBVIOUS
    <3> QED BY <1>1, <3>1
  <2>3. i * c = (i - 1) * c + c /\ 1 * c = c
    OBVIOUS
  <2> QED BY <2>1, <2>2, <2>3
<1>4. AddsUp(acc, fun, raw, n)
  BY <1>2, <1>3 DEF AddsUp
<1>5. SumFunctionOnSet(fun, AllOf(raw, n)) = acc[n]
  BY <1>4, SumOverPods
<1> QED BY <1>1, <1>5

\* The exports of a step, one per pod.
Exports(j, load, raw) ==
  \A s \in Shards :
    raw[s] = [step |-> j, shard |-> s, offered |-> Done(j),
              data |-> Collected(load[s].samples), health |-> load[s].health]

LEMMA LoadType ==
  ASSUME NEW load \in [Shards -> Loads], NEW s \in Shards
  PROVE  load[s] \in Loads /\ load[s].samples \in Seq(Samples) /\ load[s].health \in Reading
<1>1. PICK l \in Loads : l = load[s]
  OBVIOUS
<1>2. l \in [samples : Seq(Samples), health : Reading]
  BY FleetAssumption DEF Samples
<1>3. l.samples \in Seq(Samples) /\ l.health \in Reading
  BY <1>2
<1> QED BY <1>1, <1>3

LEMMA ExportOf ==
  ASSUME NEW j \in Nat, NEW load, NEW raw, Exports(j, load, raw), NEW s \in Shards
  PROVE  /\ raw[s].shard = s /\ raw[s].offered = Done(j)
         /\ raw[s].data = Collected(load[s].samples) /\ raw[s].health = load[s].health
<1>1. PICK data, health, offered :
        data = Collected(load[s].samples) /\ health = load[s].health /\ offered = Done(j)
  OBVIOUS
<1>2. PICK r : r = raw[s]
  OBVIOUS
<1>3. r = [step |-> j, shard |-> s, offered |-> offered, data |-> data, health |-> health]
  BY <1>1, <1>2 DEF Exports
<1>4. r.shard = s /\ r.offered = offered /\ r.data = data /\ r.health = health
  BY <1>3
<1> QED BY <1>1, <1>2, <1>4

LEMMA ExportsDiffer ==
  ASSUME NEW j \in Nat, NEW load, NEW raw, Exports(j, load, raw)
  PROVE  /\ ShardCount \in Nat \ {0} /\ Shards = 0..ShardCount - 1
         /\ Distinct(raw, ShardCount)
<1>1. ShardCount \in Nat \ {0} /\ Shards = 0..ShardCount - 1
  BY FleetAssumption DEF Shards
<1>2. \A s \in Shards : raw[s].shard = s
  BY ExportOf
<1> QED BY <1>1, <1>2 DEF Distinct

LEMMA MergedIsCollected ==
  ASSUME NEW j \in Nat, NEW load \in [Shards -> Loads], NEW raw, Exports(j, load, raw)
  PROVE  Merged({raw[s] : s \in Shards})
           = Collected(FlattenSeq([i \in 1..ShardCount |-> load[i - 1].samples]))
<1>1. PICK n : n = ShardCount
  OBVIOUS
<1>2. /\ n \in Nat \ {0} /\ Shards = 0..n - 1
      /\ Distinct(raw, n)
  BY <1>1, ExportsDiffer
<1>3. PICK qs : qs = [i \in 1..n |-> load[i - 1].samples]
  OBVIOUS
<1>4. ASSUME NEW s \in 0..n - 1
      PROVE  load[s] \in Loads /\ load[s].samples \in Seq(Samples)
  BY <1>2, LoadType
<1>5. qs \in [1..n -> Seq(Samples)]
  <2>1. \A i \in 1..n : i - 1 \in 0..n - 1
    BY <1>2
  <2> QED BY <1>3, <1>4, <2>1
<1>6. \A s \in 0..n - 1 : qs[s + 1] = load[s].samples
  <2> TAKE s \in 0..n - 1
  <2>1. s + 1 \in 1..n /\ (s + 1) - 1 = s
    BY <1>2
  <2> QED BY <1>3, <2>1
<1>7. PICK at : at = AllOf(raw, n)
  OBVIOUS
<1>8. ASSUME NEW s \in 0..n - 1
      PROVE  raw[s] \in at /\ raw[s].data = Collected(qs[s + 1]) /\ qs[s + 1] \in Seq(Samples)
  <2>1. raw[s] \in at
    BY <1>7 DEF AllOf
  <2>2. raw[s].data = Collected(load[s].samples)
    BY <1>2, ExportOf
  <2>3. qs[s + 1] = load[s].samples /\ load[s].samples \in Seq(Samples)
    BY <1>4, <1>6
  <2> QED BY <2>1, <2>2, <2>3
<1>9. ASSUME NEW s \in 0..n - 1
      PROVE  /\ raw[s].data.total = CountIn(qs[s + 1], Samples)
             /\ \A o \in Outcomes : raw[s].data.outcomes[o] = CountIn(qs[s + 1], WithOutcome(o))
             /\ \A b \in Buckets : raw[s].data.hist[b] = CountIn(qs[s + 1], InBucket(b))
  <2>1. PICK q \in Seq(Samples) : q = qs[s + 1] /\ raw[s].data = Collected(q)
    BY <1>8
  <2>2. Collected(q) = [total    |-> CountIn(q, Samples),
                        outcomes |-> [o \in Outcomes |-> CountIn(q, WithOutcome(o))],
                        hist     |-> [b \in Buckets |-> CountIn(q, InBucket(b))]]
    BY CollectedCounts
  <2> QED BY <2>1, <2>2
<1>10. PICK whole : whole = FlattenSeq(qs)
  OBVIOUS
<1>11. whole \in Seq(Samples)
  <2>1. PICK f \in [1..n -> Seq(Samples)] : FlattenSeq(qs) = f[n]
    BY <1>2, <1>5, FlattenJoins
  <2> QED BY <1>2, <1>10, <2>1
<1>12. SumFunctionOnSet([r \in at |-> r.data.total], at) = CountIn(whole, Samples)
  <2>1. PICK fun : fun = [r \in at |-> r.data.total]
    OBVIOUS
  <2>2. \A s \in 0..n - 1 : fun[raw[s]] = CountIn(qs[s + 1], Samples)
    BY <1>8, <1>9, <2>1
  <2>3. SumFunctionOnSet(fun, at) = CountIn(whole, Samples)
    BY <1>2, <1>5, <1>7, <1>10, <2>2, CountsOverPods
  <2> QED BY <2>1, <2>3
<1>13. ASSUME NEW o \in Outcomes
       PROVE  SumFunctionOnSet([r \in at |-> r.data.outcomes[o]], at)
                = CountIn(whole, WithOutcome(o))
  <2>1. PICK fun : fun = [r \in at |-> r.data.outcomes[o]]
    OBVIOUS
  <2>2. PICK A : A = WithOutcome(o)
    OBVIOUS
  <2>3. \A s \in 0..n - 1 : fun[raw[s]] = CountIn(qs[s + 1], A)
    BY <1>8, <1>9, <2>1, <2>2
  <2>4. SumFunctionOnSet(fun, at) = CountIn(whole, A)
    BY <1>2, <1>5, <1>7, <1>10, <2>3, CountsOverPods
  <2> QED BY <2>1, <2>2, <2>4
<1>14. ASSUME NEW b \in Buckets
       PROVE  SumFunctionOnSet([r \in at |-> r.data.hist[b]], at) = CountIn(whole, InBucket(b))
  <2>1. PICK fun : fun = [r \in at |-> r.data.hist[b]]
    OBVIOUS
  <2>2. PICK A : A = InBucket(b)
    OBVIOUS
  <2>3. \A s \in 0..n - 1 : fun[raw[s]] = CountIn(qs[s + 1], A)
    BY <1>8, <1>9, <2>1, <2>2
  <2>4. SumFunctionOnSet(fun, at) = CountIn(whole, A)
    BY <1>2, <1>5, <1>7, <1>10, <2>3, CountsOverPods
  <2> QED BY <2>1, <2>2, <2>4
<1>15. Merged(at) = [total    |-> CountIn(whole, Samples),
                     outcomes |-> [o \in Outcomes |-> CountIn(whole, WithOutcome(o))],
                     hist     |-> [b \in Buckets |-> CountIn(whole, InBucket(b))]]
  BY <1>12, <1>13, <1>14 DEF Merged
<1>16. Merged(at) = Collected(whole)
  BY <1>11, <1>15, CollectedCounts
<1> QED BY <1>1, <1>2, <1>3, <1>7, <1>10, <1>16 DEF AllOf

LEMMA OfferedIsPlanned ==
  ASSUME NEW j \in Nat, NEW load, NEW raw, Exports(j, load, raw)
  PROVE  OfferedBy({raw[s] : s \in Shards}) = PlannedRate(j)
<1>1. PICK n : n = ShardCount
  OBVIOUS
<1>2. /\ n \in Nat \ {0} /\ Shards = 0..n - 1
      /\ Distinct(raw, n)
  BY <1>1, ExportsDiffer
<1>3. PICK at : at = AllOf(raw, n)
  OBVIOUS
<1>4. PICK fun : fun = [r \in at |-> r.offered]
  OBVIOUS
<1>5. PICK c \in Nat : c = Done(j)
  BY DoneType
<1>6. ASSUME NEW s \in 0..n - 1
      PROVE  fun[raw[s]] = c
  <2>1. raw[s] \in at
    BY <1>3 DEF AllOf
  <2>2. raw[s].offered = Done(j)
    BY <1>2, ExportOf
  <2> QED BY <1>4, <1>5, <2>1, <2>2
<1>7. SumFunctionOnSet(fun, at) = n * c
  BY <1>2, <1>3, <1>6, EqualShares
<1>8. PICK a \in Nat, b \in Nat : a = Share(StartRPS) /\ b = Share(StepRPS)
                                  /\ StartRPS = a * n /\ StepRPS = b * n
  BY <1>1, Shared
<1>9. c = a + j * b
  BY <1>5, <1>8 DEF Done
<1>10. n * (a + j * b) = a * n + j * (b * n)
  BY <1>2
<1>11. PlannedRate(j) = n * c
  BY <1>8, <1>9, <1>10 DEF PlannedRate
<1>12. {raw[s] : s \in Shards} = at
  BY <1>2, <1>3 DEF AllOf
<1>13. OfferedBy(at) = SumFunctionOnSet(fun, at)
  BY <1>4 DEF OfferedBy
<1> QED BY <1>7, <1>11, <1>12, <1>13

LEMMA LimitedSomewhere ==
  ASSUME NEW j \in Nat, NEW load \in [Shards -> Loads], NEW raw, Exports(j, load, raw)
  PROVE  Exceeds(FoldSet(WorstHealth, NoReading, {r.health : r \in {raw[s] : s \in Shards}}))
           <=> \E s \in Shards : Exceeds(load[s].health)
<1>1. PICK fun : fun = [s \in Shards |-> load[s].health]
  OBVIOUS
<1>2. PICK S : S = {fun[s] : s \in Shards}
  OBVIOUS
<1>3. \A s \in Shards : raw[s].health = fun[s] /\ fun[s] = load[s].health /\ fun[s] \in Reading
  <2>1. \A s \in Shards : load[s].health \in Reading
    BY LoadType
  <2> QED BY <1>1, <2>1, ExportOf
<1>4. {r.health : r \in {raw[s] : s \in Shards}} = S
  BY <1>2, <1>3
<1>5. IsFiniteSet(S)
  <2>1. IsFiniteSet(Shards)
    BY FS_Interval, FleetAssumption DEF Shards
  <2> QED BY <1>1, <1>2, <2>1, FieldFinite
<1>6. S \in SUBSET Reading
  BY <1>2, <1>3
<1>7. Exceeds(FoldSet(WorstHealth, NoReading, S)) <=> \E h \in S : Exceeds(h)
  BY <1>5, <1>6, WorstExceeds
<1>8. (\E h \in S : Exceeds(h)) <=> \E s \in Shards : Exceeds(load[s].health)
  BY <1>2, <1>3
<1> QED BY <1>4, <1>7, <1>8

\* The merged step is the one generator's.
LEMMA MergedStepIs ==
  ASSUME NEW j \in Nat, NEW load \in [Shards -> Loads], NEW raw, Exports(j, load, raw)
  PROVE  LET samples == FlattenSeq([i \in 1..ShardCount |-> load[i - 1].samples])
             limited == \E s \in Shards : Exceeds(load[s].health)
             rate    == PlannedRate(j)
             pass    == EvaluateStep(Snapshot(Collected(samples), rate, StepDuration))
         IN  MergedStep({raw[s] : s \in Shards})
               = [offered |-> rate, pass |-> pass /\ ~limited, limited |-> limited]
<1>1. PICK at : at = {raw[s] : s \in Shards}
  OBVIOUS
<1>2. PICK samples : samples = FlattenSeq([i \in 1..ShardCount |-> load[i - 1].samples])
  OBVIOUS
<1>3. PICK limited \in BOOLEAN : limited = (\E s \in Shards : Exceeds(load[s].health))
  OBVIOUS
<1>4. PICK snap : snap = Snapshot(Collected(samples), PlannedRate(j), StepDuration)
  OBVIOUS
<1>5. MergeRaw(at, StepDuration) = snap
  BY <1>1, <1>2, <1>4, MergedIsCollected, OfferedIsPlanned DEF MergeRaw
<1>6. Exceeds(FoldSet(WorstHealth, NoReading, {r.health : r \in at})) = limited
  <2>1. Exceeds(FoldSet(WorstHealth, NoReading, {r.health : r \in at})) <=> limited
    BY <1>1, <1>3, LimitedSomewhere
  <2>2. Exceeds(FoldSet(WorstHealth, NoReading, {r.health : r \in at})) \in BOOLEAN
    BY DEF Exceeds
  <2> QED BY <2>1, <2>2
<1>7. snap.offered = PlannedRate(j)
  BY <1>4 DEF Snapshot
<1>8. MergedStep(at) = [offered |-> PlannedRate(j), pass |-> EvaluateStep(snap) /\ ~limited,
                        limited |-> limited]
  BY <1>5, <1>6, <1>7 DEF MergedStep
<1> QED BY <1>1, <1>2, <1>3, <1>4, <1>8

-------------------------------------------------------------------------------
(* While nothing is lost, every step a pod has reported is on file; an     *)
(* aggregator that waited for the pods gathers them all.                   *)

Filed(s, k) ==
  /\ <<k - 1, s>> \in DOMAIN files
  /\ files[<<k - 1, s>>] = {measured[s][k].raw}

Written ==
  ~lost => \A s \in Shards : \A k \in 1..StepsDone(s) :
             Filed(s, k) \/ (k = StepsDone(s) /\ pods[s].st \in {"report", "fill"})

\* Every export there is.
AllMeasured == UNION {{measured[s][k].raw : k \in 1..StepsDone(s)} : s \in Shards}

Gathered ==
  agg.whole /\ agg.st \in {"reading", "done"} =>
    /\ AllFinished /\ ~lost
    /\ agg.st = "reading" =>
         \A s \in Shards : \A k \in 1..StepsDone(s) :
           <<k - 1, s>> \in agg.todo \/ measured[s][k].raw \in agg.raws
    /\ agg.st = "done" => agg.steps = Merge(AllMeasured)

LEMMA InitGathered == Init => Written /\ Gathered
<1> SUFFICES ASSUME Init PROVE Written /\ Gathered
  OBVIOUS
<1>1. \A s \in Shards : StepsDone(s) = 0
  BY EmptyAny DEF Init, StepsDone
<1>2. agg.st = "idle"
  BY DEF Init, NotRun
<1> QED BY <1>1, <1>2 DEF Written, Gathered

\* A file is written: it is the one of the pod's last step.
LEMMA PutFiled ==
  ASSUME IInv, NEW s \in Shards, pods[s].st \in {"report", "fill"},
         NEW content, Put(s, content), UNCHANGED measured, NEW n, n = StepsDone(s)
  PROVE  /\ Report(s) = measured[s][n].raw
         /\ <<n - 1, s>> \in DOMAIN files' /\ files'[<<n - 1, s>>] = content
         /\ \A t \in Shards : \A k \in 1..StepsDone(t) :
              (t # s \/ k # n) /\ Filed(t, k) => Filed(t, k)'
<1>1. n \in Nat /\ n = StepsDone(s)
  BY StepsDoneType DEF IInv
<1>0. n \in Nat
  BY <1>1
<1>2. n > 0
  BY <1>1 DEF IInv, Paced, PacedPod
<1>3. Report(s) = measured[s][n].raw
  BY <1>1 DEF Report, Last, StepsDone
<1>4. Report(s).step = n - 1
  <2>1. n \in 1..n
    BY <1>0, <1>2
  <2> QED BY <1>1, <1>3, <2>1 DEF IInv, Numbered
<1>5. PICK name : name = <<n - 1, s>>
  OBVIOUS
<1>6. files' = [f \in DOMAIN files \cup {name} |-> IF f = name THEN content ELSE files[f]]
  BY <1>4, <1>5 DEF Put, FileName
<1>7. name \in DOMAIN files' /\ files'[name] = content
  BY <1>6
<1>8. ASSUME NEW t \in Shards, NEW k \in 1..StepsDone(t), t # s \/ k # n, Filed(t, k)
      PROVE  Filed(t, k)'
  <2>1. k \in Int
    OBVIOUS
  <2>2. <<k - 1, t>> # name
    BY <1>0, <1>5, <1>8, <2>1
  <2>3. <<k - 1, t>> \in DOMAIN files /\ files[<<k - 1, t>>] = {measured[t][k].raw}
    BY <1>8 DEF Filed
  <2>4. <<k - 1, t>> \in DOMAIN files' /\ files'[<<k - 1, t>>] = files[<<k - 1, t>>]
    BY <1>6, <2>2, <2>3
  <2> QED BY <2>3, <2>4 DEF Filed
<1> QED BY <1>3, <1>5, <1>7, <1>8

LEMMA PodWritten ==
  ASSUME IInv, Judged, Written, NEW s \in Shards, Pod(s)
  PROVE  Written'
<1> SUFFICES ASSUME ~lost'
             PROVE  \A t \in Shards : \A k \in 1..StepsDone(t)' :
                      Filed(t, k)' \/ (k = StepsDone(t)' /\ pods'[t].st \in {"report", "fill"})
  BY DEF Written
<1>1. ~lost
  BY DEF Pod, RunStep, CreateFile, FillFile, WriteFails, RampOver, Crash
<1>2. \A t \in Shards : \A k \in 1..StepsDone(t) :
        Filed(t, k) \/ (k = StepsDone(t) /\ pods[t].st \in {"report", "fill"})
  BY <1>1 DEF Written
<1>3. CASE RunStep(s)
  <2>1. PICK e, n :
          /\ n \in Nat /\ n = StepsDone(s) /\ StepsDone(s)' = n + 1
          /\ \A k \in 1..n : measured'[s][k] = measured[s][k]
          /\ pods'[s].st = "report"
          /\ \A t \in Shards : t # s => pods'[t] = pods[t] /\ measured'[t] = measured[t]
    BY <1>3, StepListed
  <2>2. UNCHANGED files /\ pods[s].st = "ramp"
    BY <1>3 DEF RunStep
  <2>3. ASSUME NEW k \in 1..n + 1
        PROVE  Filed(s, k)' \/ k = n + 1
    <3>1. CASE k \in 1..n
      BY <1>2, <2>1, <2>2, <3>1 DEF Filed
    <3> QED BY <2>1, <3>1
  <2>4. ASSUME NEW t \in Shards, t # s, NEW k \in 1..StepsDone(t)'
        PROVE  Filed(t, k)' \/ (k = StepsDone(t)' /\ pods'[t].st \in {"report", "fill"})
    BY <1>2, <2>1, <2>2, <2>4 DEF Filed, StepsDone
  <2>5. \A k \in 1..StepsDone(s)' :
          Filed(s, k)' \/ (k = StepsDone(s)' /\ pods'[s].st \in {"report", "fill"})
    BY <2>1, <2>3
  <2> QED BY <2>4, <2>5
<1>4. CASE CreateFile(s)
  <2>1. /\ pods[s].st = "report" /\ Put(s, Partial) /\ Goes(s, "fill") /\ UNCHANGED measured
    BY <1>4 DEF CreateFile
  <2>2. PICK n : n = StepsDone(s)
    OBVIOUS
  <2>5. \A t \in Shards : \A k \in 1..StepsDone(t) :
          (t # s \/ k # n) /\ Filed(t, k) => Filed(t, k)'
    BY <2>1, <2>2, PutFiled
  <2>3. pods'[s].st = "fill" /\ \A t \in Shards : t # s => pods'[t] = pods[t]
    BY <2>1, GoesMoves
  <2>4. \A t \in Shards : StepsDone(t)' = StepsDone(t)
    BY <2>1 DEF StepsDone
  <2> QED BY <1>2, <2>1, <2>2, <2>3, <2>4, <2>5
<1>5. CASE FillFile(s)
  <2>0. PICK content : content = {Report(s)}
    OBVIOUS
  <2>1. /\ pods[s].st = "fill" /\ Put(s, content) /\ EndStep(s) /\ UNCHANGED measured
    BY <1>5, <2>0 DEF FillFile, Full
  <2>2. PICK n : n = StepsDone(s)
    OBVIOUS
  <2>6. /\ Report(s) = measured[s][n].raw
        /\ <<n - 1, s>> \in DOMAIN files' /\ files'[<<n - 1, s>>] = content
    BY <2>1, <2>2, PutFiled
  <2>7. \A t \in Shards : \A k \in 1..StepsDone(t) :
          (t # s \/ k # n) /\ Filed(t, k) => Filed(t, k)'
    BY <2>1, <2>2, PutFiled
  <2>3. \A t \in Shards : t # s => pods'[t] = pods[t]
    BY <2>1, EndStepMoves
  <2>4. \A t \in Shards : StepsDone(t)' = StepsDone(t)
    BY <2>1 DEF StepsDone
  <2>5. Filed(s, n)'
    BY <2>0, <2>1, <2>6 DEF Filed
  <2> QED BY <1>2, <2>1, <2>2, <2>3, <2>4, <2>5, <2>7
<1>6. CASE WriteFails(s) \/ Crash(s)
  BY <1>6 DEF WriteFails, Crash
<1>7. CASE RampOver(s)
  <2>1. pods[s].st = "ramp" /\ Goes(s, "finished") /\ UNCHANGED <<files, measured>>
    BY <1>7 DEF RampOver
  <2>2. \A t \in Shards : t # s => pods'[t] = pods[t]
    BY <2>1, GoesMoves
  <2>3. \A t \in Shards : StepsDone(t)' = StepsDone(t)
    BY <2>1 DEF StepsDone
  <2>4. \A t \in Shards : \A k \in 1..StepsDone(t) : Filed(t, k) => Filed(t, k)'
    BY <2>1 DEF Filed
  <2> QED BY <1>2, <2>1, <2>2, <2>3, <2>4
<1> QED BY <1>3, <1>4, <1>5, <1>6, <1>7 DEF Pod

LEMMA NextWritten == IInv /\ Judged /\ Written /\ [Next]_vars => Written'
<1> SUFFICES ASSUME IInv, Judged, Written, [Next]_vars PROVE Written'
  OBVIOUS
<1>1. ASSUME NEW s \in Shards, Pod(s) PROVE Written'
  BY <1>1, PodWritten
<1>2. CASE Aggregate \/ UNCHANGED vars
  <2>1. UNCHANGED <<pods, files, measured, lost>>
    BY <1>2 DEF Aggregate, List, ReadFile, MergeAll, vars
  <2> QED BY <2>1 DEF Written, Filed, StepsDone
<1> QED BY <1>1, <1>2 DEF Next

LEMMA MeasuredAll ==
  ASSUME IInv, NEW r
  PROVE  r \in AllMeasured <=> Measured(r)
<1>1. ASSUME r \in AllMeasured PROVE Measured(r)
  <2>1. PICK s \in Shards : \E k \in 1..StepsDone(s) : r = measured[s][k].raw
    BY <1>1 DEF AllMeasured
  <2>2. PICK n \in Nat : n = StepsDone(s)
    BY StepsDoneType DEF IInv
  <2>3. PICK k \in 1..n : r = measured[s][k].raw
    BY <2>1, <2>2
  <2>4. r.step = k - 1 /\ r.shard = s
    BY <2>2, <2>3 DEF IInv, Numbered
  <2>5. k - 1 \in Nat /\ k - 1 < n /\ (k - 1) + 1 = k
    BY <2>2
  <2> QED BY <2>2, <2>3, <2>4, <2>5 DEF Measured
<1>2. ASSUME Measured(r) PROVE r \in AllMeasured
  <2>1. PICK s \in Shards, m \in Nat : s = r.shard /\ m = r.step /\ m < StepsDone(s)
                                       /\ measured[s][m + 1].raw = r
    BY <1>2 DEF Measured
  <2>2. m + 1 \in 1..StepsDone(s)
    <3>1. StepsDone(s) \in Nat
      BY StepsDoneType DEF IInv
    <3> QED BY <2>1, <3>1
  <2> QED BY <2>1, <2>2 DEF AllMeasured
<1> QED BY <1>1, <1>2

LEMMA NextGathered ==
  IInv /\ Clean /\ Written /\ Gathered /\ [Next]_vars => Gathered'
<1> SUFFICES ASSUME IInv, Clean, Written, Gathered, [Next]_vars,
                    agg'.whole, agg'.st \in {"reading", "done"}
             PROVE  /\ AllFinished' /\ ~lost'
                    /\ agg'.st = "reading" =>
                         \A s \in Shards : \A k \in 1..StepsDone(s)' :
                           <<k - 1, s>> \in agg'.todo \/ measured'[s][k].raw \in agg'.raws
                    /\ agg'.st = "done" => agg'.steps = Merge(AllMeasured)'
  BY DEF Gathered
<1>1. ASSUME NEW s \in Shards, Pod(s) PROVE FALSE
  <2>1. UNCHANGED agg
    BY <1>1 DEF Pod, RunStep, CreateFile, FillFile, WriteFails, RampOver, Crash
  <2>2. pods[s].st = "finished"
    BY <2>1 DEF Gathered, AllFinished
  <2> QED BY <1>1, <2>2 DEF Pod, RunStep, CreateFile, FillFile, WriteFails, RampOver, Crash, Over
<1>2. UNCHANGED <<pods, files, measured, lost>>
  BY <1>1 DEF Next, Aggregate, List, ReadFile, MergeAll, vars
<1>3. /\ AllFinished' <=> AllFinished
      /\ \A s \in Shards : StepsDone(s)' = StepsDone(s)
      /\ AllMeasured' = AllMeasured
  BY <1>2 DEF AllFinished, StepsDone, AllMeasured
<1>4. CASE UNCHANGED vars
  <2>1. UNCHANGED agg
    BY <1>4 DEF vars
  <2>2. AllFinished /\ ~lost
    BY <2>1 DEF Gathered
  <2>3. agg.st = "reading" =>
          \A s \in Shards : \A k \in 1..StepsDone(s) :
            <<k - 1, s>> \in agg.todo \/ measured[s][k].raw \in agg.raws
    BY <2>1 DEF Gathered
  <2>4. agg.st = "done" => agg.steps = Merge(AllMeasured)
    BY <2>1 DEF Gathered
  <2>5. Merge(AllMeasured)' = Merge(AllMeasured)
    BY <1>3 DEF Merge
  <2> QED BY <1>2, <1>3, <2>1, <2>2, <2>3, <2>4, <2>5
<1>5. CASE List
  <2>1. files # <<>>
    BY <1>5 DEF List, NotRun
  <2>2. /\ agg'.st = "reading" /\ agg'.todo = DOMAIN files /\ agg'.whole = (AllFinished /\ ~lost)
    BY <1>5, <2>1 DEF List
  <2>3. AllFinished /\ ~lost
    BY <2>2
  <2>4. \A s \in Shards : \A k \in 1..StepsDone(s) : <<k - 1, s>> \in agg'.todo
    BY <2>2, <2>3 DEF Written, Filed, AllFinished
  <2> QED BY <1>2, <1>3, <2>2, <2>3, <2>4
<1>6. CASE ReadFile
  <2>1. PICK f : f = First(agg.todo)
    OBVIOUS
  <2>2. agg.st = "reading" /\ f \in DOMAIN files
    BY <1>6, <2>1, FirstIsOne DEF ReadFile, IInv, Shape
  <2>3. agg' = IF files[f] = Partial
               THEN NotRun("failed")
               ELSE [agg EXCEPT !.todo = @ \ {f}, !.raws = @ \cup files[f]]
    BY <1>6, <2>1 DEF ReadFile
  <2>4. files[f] # Partial
    BY <2>3 DEF NotRun
  <2>5. /\ agg'.todo = agg.todo \ {f} /\ agg'.raws = agg.raws \cup files[f]
        /\ agg'.st = "reading" /\ agg'.whole = agg.whole
    BY <2>2, <2>3, <2>4 DEF IInv, Shape
  <2>6. /\ AllFinished /\ ~lost
        /\ \A s \in Shards : \A k \in 1..StepsDone(s) :
             <<k - 1, s>> \in agg.todo \/ measured[s][k].raw \in agg.raws
    BY <2>2, <2>5 DEF Gathered
  <2>7. ASSUME NEW s \in Shards, NEW k \in 1..StepsDone(s)
        PROVE  <<k - 1, s>> \in agg'.todo \/ measured[s][k].raw \in agg'.raws
    <3>1. CASE <<k - 1, s>> = f
      <4>1. Filed(s, k)
        BY <2>6 DEF Written, AllFinished
      <4>2. files[f] = {measured[s][k].raw}
        BY <3>1, <4>1 DEF Filed
      <4> QED BY <2>5, <4>2
    <3>2. CASE <<k - 1, s>> # f
      BY <2>5, <2>6, <3>2
    <3> QED BY <3>1, <3>2
  <2> QED BY <1>2, <1>3, <2>5, <2>6, <2>7
<1>7. CASE MergeAll
  <2>1. /\ agg.st = "reading" /\ agg.todo = {}
        /\ agg'.st = "done" /\ agg'.steps = Merge(agg.raws) /\ agg'.whole = agg.whole
    BY <1>7 DEF MergeAll, IInv, Shape
  <2>2. /\ AllFinished /\ ~lost
        /\ \A s \in Shards : \A k \in 1..StepsDone(s) : measured[s][k].raw \in agg.raws
    BY <2>1 DEF Gathered
  <2>3. AllMeasured \subseteq agg.raws
    BY <2>2 DEF AllMeasured
  <2>4. agg.raws \subseteq AllMeasured
    BY MeasuredAll DEF IInv, Genuine
  <2>5. agg.raws = AllMeasured
    BY <2>3, <2>4
  <2>6. Merge(AllMeasured)' = Merge(AllMeasured)
    BY <1>3 DEF Merge
  <2> QED BY <1>2, <1>3, <2>1, <2>2, <2>5, <2>6
<1> QED BY <1>1, <1>4, <1>5, <1>6, <1>7 DEF Next, Aggregate

-------------------------------------------------------------------------------
(* The merged run is one generator's.                                      *)

LEMMA IndicesInOrder ==
  ASSUME NEW raws, NEW n \in Nat, {r.step : r \in raws} = 0..n - 1
  PROVE  StepIndices(raws) = [i \in 1..n |-> i - 1]
<1>1. Cardinality(0..n - 1) = n
  <2>1. Cardinality(0..n - 1) = IF 0 > n - 1 THEN 0 ELSE n - 1 - 0 + 1
    BY FS_Interval
  <2> QED BY <2>1
<1>2. ASSUME NEW k \in 0..n - 1
      PROVE  Cardinality({j \in 0..n - 1 : j < k}) = k
  <2>1. {j \in 0..n - 1 : j < k} = 0..k - 1
    OBVIOUS
  <2>2. Cardinality(0..k - 1) = IF 0 > k - 1 THEN 0 ELSE k - 1 - 0 + 1
    BY FS_Interval
  <2>3. (IF 0 > k - 1 THEN 0 ELSE k - 1 - 0 + 1) = k
    OBVIOUS
  <2> QED BY <2>1, <2>2, <2>3
<1>3. PICK D : D = 0..n - 1
  OBVIOUS
<1>4. StepIndices(raws)
        = [i \in 1..n |-> CHOOSE k \in D : Cardinality({j \in D : j < k}) = i - 1]
  <2>1. PICK indices : indices = {r.step : r \in raws}
    OBVIOUS
  <2>2. StepIndices(raws) = [i \in 1..Cardinality(indices) |->
          CHOOSE k \in indices : Cardinality({j \in indices : j < k}) = i - 1]
    BY <2>1 DEF StepIndices
  <2>3. indices = D /\ Cardinality(D) = n
    BY <1>1, <1>3, <2>1
  <2> QED BY <2>2, <2>3
<1>5. ASSUME NEW i \in 1..n
      PROVE  (CHOOSE k \in D : Cardinality({j \in D : j < k}) = i - 1) = i - 1
  <2>1. i - 1 \in D
    BY <1>3
  <2>2. \A k \in D : Cardinality({j \in D : j < k}) = i - 1 <=> k = i - 1
    BY <1>2, <1>3
  <2> QED BY <2>1, <2>2
<1> QED BY <1>4, <1>5

\* When every pod has measured n steps, those of each index are one per pod.
LEMMA OneStepOfEach ==
  ASSUME IInv, Recording, NEW n \in Nat, \A s \in Shards : StepsDone(s) = n, NEW k \in 1..n
  PROVE  MergedStep({r \in AllMeasured : r.step = k - 1}) = OneGenerator(k)
<1>1. PICK load, raw : /\ load = [s \in Shards |-> measured[s][k].load]
                       /\ raw = [s \in Shards |-> measured[s][k].raw]
  OBVIOUS
<1>2. \A s \in Shards : Recorded(s, k - 1, measured[s][k])
  BY DEF Recording
<1>3. load \in [Shards -> Loads]
  <2>1. \A s \in Shards : measured[s][k].load \in Loads
    BY <1>2 DEF Recorded, Entry
  <2> QED BY <1>1, <2>1
<1>4. Exports(k - 1, load, raw)
  BY <1>1, <1>2 DEF Recorded, Exports
<1>5. {r \in AllMeasured : r.step = k - 1} = {raw[s] : s \in Shards}
  <2>1. ASSUME NEW s \in Shards PROVE raw[s] \in AllMeasured /\ raw[s].step = k - 1
    BY <1>1 DEF AllMeasured, IInv, Numbered
  <2>2. ASSUME NEW r \in AllMeasured, r.step = k - 1 PROVE \E s \in Shards : r = raw[s]
    <3>1. PICK s \in Shards : r.step \in Nat /\ measured[s][r.step + 1].raw = r
      BY <2>2, MeasuredAll DEF Measured
    <3>2. r.step + 1 = k
      BY <2>2
    <3> QED BY <1>1, <3>1, <3>2
  <2> QED BY <2>1, <2>2
<1>6. k - 1 \in Nat
  OBVIOUS
<1>7. PICK j \in Nat : j = k - 1
  BY <1>6
<1>8. PICK samples, limited, pass :
        /\ samples = FlattenSeq([i \in 1..ShardCount |-> load[i - 1].samples])
        /\ limited = (\E s \in Shards : Exceeds(load[s].health))
        /\ pass = EvaluateStep(Snapshot(Collected(samples), PlannedRate(j), StepDuration))
  OBVIOUS
<1>9. MergedStep({raw[s] : s \in Shards})
        = [offered |-> PlannedRate(j), pass |-> pass /\ ~limited, limited |-> limited]
  BY <1>3, <1>4, <1>7, <1>8, MergedStepIs
<1>10. OneGenerator(k)
        = [offered |-> PlannedRate(j), pass |-> pass /\ ~limited, limited |-> limited]
  BY <1>1, <1>7, <1>8 DEF OneGenerator
<1> QED BY <1>5, <1>9, <1>10

\* The merged steps of a run that the aggregator waited for and that lost
\* nothing are those one generator would have reported, had it offered the
\* whole rate, taken every pod's samples and seen every pod's health: for any
\* number of pods, any plan they can share and whatever they measured.
THEOREM AggregateIsOneGenerator == Spec => []MergeIsLossless
<1>1. IInv /\ Recording /\ Gathered /\ FullRange => MergeIsLossless
  <2> SUFFICES ASSUME IInv, Recording, Gathered, FullRange, agg.st = "done", agg.whole
               PROVE  /\ DOMAIN agg.steps = DOMAIN measured[0]
                      /\ \A k \in DOMAIN agg.steps : agg.steps[k] = OneGenerator(k)
    BY DEF MergeIsLossless
  <2>1. AllFinished /\ agg.steps = Merge(AllMeasured)
    BY DEF Gathered
  <2>2. 0 \in Shards
    BY FleetAssumption DEF Shards
  <2>3. PICK n \in Nat : n = StepsDone(0)
    BY <2>2, StepsDoneType DEF IInv
  <2>4. \A s \in Shards : StepsDone(s) = n
    <3>1. CASE ShardCount = 1
      <4>1. \A s \in Shards : s = 0
        BY <3>1 DEF Shards
      <4> QED BY <2>3, <4>1
    <3>2. CASE ShardCount > 1
      BY <2>1, <2>2, <2>3, <3>2 DEF FullRange, AllFinished
    <3> QED BY <3>1, <3>2, FleetAssumption
  <2>5. DOMAIN measured[0] = 1..n
    <3>1. PICK q : q = measured[0]
      OBVIOUS
    <3>2. q \in Seq(Elements(q)) /\ n = Len(q)
      BY <2>2, <2>3, <3>1 DEF IInv, Shape, StepsDone
    <3> QED BY <3>1, <3>2, LenProperties
  <2>6. {r.step : r \in AllMeasured} = 0..n - 1
    <3>1. ASSUME NEW r \in AllMeasured PROVE r.step \in 0..n - 1
      <4>1. r.step \in Nat /\ r.step < n
        BY <2>4, MeasuredAll DEF Measured
      <4> QED BY <4>1
    <3>2. ASSUME NEW m \in 0..n - 1 PROVE \E r \in AllMeasured : r.step = m
      <4>1. m + 1 \in 1..n /\ (m + 1) - 1 = m
        OBVIOUS
      <4>2. PICK k \in 1..n : k - 1 = m
        BY <4>1
      <4>3. measured[0][k].raw \in AllMeasured /\ measured[0][k].raw.step = m
        BY <2>2, <2>4, <4>2 DEF AllMeasured, IInv, Numbered
      <4> QED BY <4>3
    <3> QED BY <3>1, <3>2
  <2>7. StepIndices(AllMeasured) = [i \in 1..n |-> i - 1]
    BY <2>6, IndicesInOrder
  <2>8. agg.steps = [i \in 1..n |-> MergedStep({r \in AllMeasured : r.step = i - 1})]
    BY <2>1, <2>7 DEF Merge
  <2>9. \A k \in 1..n : MergedStep({r \in AllMeasured : r.step = k - 1}) = OneGenerator(k)
    BY <2>4, OneStepOfEach
  <2> QED BY <2>5, <2>8, <2>9
<1>2. /\ Init => Written /\ Gathered
      /\ IInv /\ Judged /\ Clean /\ Written /\ Gathered /\ [Next]_vars => Written' /\ Gathered'
  BY InitGathered, NextWritten, NextGathered
<1> QED BY <1>1, <1>2, CleanInvariance, WholePlanMeasured, PTL DEF Spec

\* ... so the merged steps offered what the plan says, the fleet-wide target
\* (runbook.md:174-175), as long as every pod's files are there.
THEOREM WholeFleetOffersTarget ==
  Spec => [](agg.st = "done" /\ agg.whole =>
               \A k \in DOMAIN agg.steps : agg.steps[k].offered = PlannedRate(k - 1))
<1>1. MergeIsLossless =>
        (agg.st = "done" /\ agg.whole =>
           \A k \in DOMAIN agg.steps : agg.steps[k].offered = PlannedRate(k - 1))
  <2>1. ASSUME NEW k PROVE OneGenerator(k).offered = PlannedRate(k - 1)
    BY DEF OneGenerator
  <2> QED BY <2>1 DEF MergeIsLossless
<1> QED BY <1>1, AggregateIsOneGenerator, PTL

-------------------------------------------------------------------------------
(* Steps past the knee.                                                    *)

LEMMA KneeIsPrefix ==
  ASSUME NEW q \in Seq(Step)
  PROVE  LET knee == UpToTheKnee(q)
         IN  /\ knee \in Seq(Step) /\ Len(knee) \in 0..Len(q)
             /\ \A i \in 1..Len(knee) : knee[i] = q[i]
<1> DEFINE Bad(n) == /\ n >= Abort.consecutiveBad
                     /\ \A i \in n - Abort.consecutiveBad + 1..n : ~q[i].pass
           stops  == {n \in DOMAIN q : Bad(n)}
<1>1. DOMAIN q = 1..Len(q) /\ Len(q) \in Nat
  OBVIOUS
<1>2. CASE stops = {}
  <2>1. UpToTheKnee(q) = q
    BY <1>2 DEF UpToTheKnee
  <2> QED BY <1>1, <2>1
<1>3. CASE stops # {}
  <2>1. UpToTheKnee(q) = SubSeq(q, 1, Min(stops))
    BY <1>3 DEF UpToTheKnee
  <2>2. stops \subseteq Nat
    BY <1>1
  <2>3. \E x \in stops : \A y \in stops : x <= y
    <3> HIDE DEF stops
    <3> QED BY <1>3, <2>2, LeastNat
  <2>4. Min(stops) \in stops
    <3> HIDE DEF stops
    <3> QED BY <2>3 DEF Min
  <2>5. PICK m : m = Min(stops)
    OBVIOUS
  <2>6. m \in 1..Len(q)
    BY <1>1, <2>4, <2>5
  <2>7. /\ SubSeq(q, 1, m) \in Seq(Step) /\ Len(SubSeq(q, 1, m)) = m
        /\ \A i \in 1..m : SubSeq(q, 1, m)[i] = q[i]
    BY <1>1, <2>6, SubSeqProperties
  <2>8. PICK knee : knee = UpToTheKnee(q)
    OBVIOUS
  <2>9. knee = SubSeq(q, 1, m)
    BY <2>1, <2>5, <2>8
  <2>10. knee \in Seq(Step) /\ Len(knee) \in 0..Len(q) /\ \A i \in 1..Len(knee) : knee[i] = q[i]
    BY <1>1, <2>6, <2>7, <2>9
  <2> QED BY <2>8, <2>10
<1> QED BY <1>2, <1>3

LEMMA BreakingPointIs ==
  ASSUME NEW steps, NEW R, R = {steps[i].offered : i \in Passing(steps)}
  PROVE  BreakingPoint(steps)
           = IF Passing(steps) = {} THEN 0 ELSE CHOOSE r \in R : \A x \in R : x <= r
<1>1. PICK S : S = {steps[i].offered : i \in Passing(steps)}
  OBVIOUS
<1>2. (CHOOSE r \in {steps[i].offered : i \in Passing(steps)} :
         \A i \in Passing(steps) : steps[i].offered <= r)
        = CHOOSE r \in S : \A i \in Passing(steps) : steps[i].offered <= r
  BY <1>1
<1>3. \A r : (\A i \in Passing(steps) : steps[i].offered <= r) <=> (\A x \in S : x <= r)
  BY <1>1
<1>4. (CHOOSE r \in S : \A i \in Passing(steps) : steps[i].offered <= r)
        = CHOOSE r \in S : \A x \in S : x <= r
  BY <1>3
<1>5. S = R
  BY <1>1
<1>6. (CHOOSE r \in {steps[i].offered : i \in Passing(steps)} :
         \A i \in Passing(steps) : steps[i].offered <= r)
        = CHOOSE r \in R : \A x \in R : x <= r
  BY <1>2, <1>4, <1>5
<1>7. BreakingPoint(steps)
        = IF Passing(steps) = {} THEN 0
          ELSE CHOOSE r \in {steps[i].offered : i \in Passing(steps)} :
                 \A i \in Passing(steps) : steps[i].offered <= r
  BY DEF BreakingPoint
<1> QED BY <1>6, <1>7

LEMMA VerdictOfPrefix ==
  ASSUME NEW q \in Seq(Step), NEW knee \in Seq(Step), Len(knee) \in 0..Len(q),
         \A i \in 1..Len(knee) : knee[i] = q[i],
         \A i \in Len(knee) + 1..Len(q) : ~q[i].pass,
         AnyLimited(q) => AnyLimited(knee)
  PROVE  DetermineOutcome(q) = DetermineOutcome(knee)
<1>1. DOMAIN q = 1..Len(q) /\ DOMAIN knee = 1..Len(knee) /\ Len(q) \in Nat
  OBVIOUS
<1>2. AnyLimited(q) <=> AnyLimited(knee)
  BY <1>1 DEF AnyLimited
<1>3. Passing(q) = Passing(knee)
  BY <1>1 DEF Passing
<1>4. \A i \in Passing(q) : q[i].offered = knee[i].offered
  BY <1>1, <1>3 DEF Passing
<1>5. BreakingPoint(q) = BreakingPoint(knee)
  <2>1. {q[i].offered : i \in Passing(q)} = {knee[i].offered : i \in Passing(knee)}
    BY <1>3, <1>4
  <2>2. PICK R : R = {q[i].offered : i \in Passing(q)}
    OBVIOUS
  <2> QED BY <1>3, <2>1, <2>2, BreakingPointIs
<1> QED BY <1>2, <1>3, <1>5 DEF DetermineOutcome

\* No step past the knee passes, and the generator was not saturated there
\* for the first time.
QuietPastTheKnee(steps) ==
  LET knee == UpToTheKnee(steps)
  IN  /\ \A i \in Len(knee) + 1..Len(steps) : ~steps[i].pass
      /\ AnyLimited(steps) => AnyLimited(knee)

\* The steps past the knee that main.go:281-294 makes every pod run: if they
\* all fail, and none of them was generator-limited unless one before the knee
\* was, the merged outcome and breaking point are those of the steps up to the
\* knee.  A generator saturated only past the knee is thus the one cause of the
\* finding about TrailingStepsDontMatter.
THEOREM OnlySaturationPastTheKneeMatters ==
  Spec => [](QuietPastTheKnee(agg.steps)
               => DetermineOutcome(agg.steps) = DetermineOutcome(UpToTheKnee(agg.steps)))
<1>1. ASSUME TypeOK, QuietPastTheKnee(agg.steps)
      PROVE  DetermineOutcome(agg.steps) = DetermineOutcome(UpToTheKnee(agg.steps))
  <2>1. PICK q, knee : q = agg.steps /\ knee = UpToTheKnee(q)
    OBVIOUS
  <2>2. q \in Seq(Step)
    BY <1>1, <2>1 DEF TypeOK
  <2>3. knee \in Seq(Step) /\ Len(knee) \in 0..Len(q) /\ \A i \in 1..Len(knee) : knee[i] = q[i]
    BY <2>1, <2>2, KneeIsPrefix
  <2>4. (\A i \in Len(knee) + 1..Len(q) : ~q[i].pass) /\ (AnyLimited(q) => AnyLimited(knee))
    BY <1>1, <2>1 DEF QuietPastTheKnee
  <2> QED BY <2>1, <2>2, <2>3, <2>4, VerdictOfPrefix
<1> QED BY <1>1, FleetTypeOK, PTL

================================================================================
