------------------------------ MODULE HealthProofs ------------------------------
(***************************************************************************)
(* When procSampler reports the truth: from one good read of               *)
(* /proc/self/stat on, as long as none fails, for every number of cores    *)
(* and every order of work and samples.  What the run health_cpu shows can *)
(* therefore happen only at the first reading and after a failed one.      *)
(***************************************************************************)
EXTENDS Health, TLAPS

\* Right after a read that succeeded.
JustRead ==
  /\ now \in Nat /\ cpuTime \in Nat
  /\ lastWall = now /\ lastCPUTime = cpuTime

\* From there on every read succeeds.
ReadableSpec == JustRead /\ [][Work \/ Sample]_vars

\* The work since the last read fits into the time since then.
IInv ==
  /\ now \in Nat /\ lastWall \in Nat /\ cpuTime \in Nat /\ lastCPUTime \in Nat
  /\ lastWall <= now
  /\ cpuTime - lastCPUTime <= Cores * (now - lastWall)

LEMMA OneMoreTick ==
  ASSUME NEW k \in Nat, NEW d \in Nat
  PROVE  k * (d + 1) = k * d + k /\ k * 0 = 0 /\ k * d \in Nat
<1>1. \A a, b \in Nat : a * (b + 1) = a * b + a /\ a * 0 = 0 /\ a * b \in Nat
  OBVIOUS
<1> QED BY <1>1

LEMMA WorkKeeps == ASSUME Cores \in Nat, IInv, Work PROVE IInv'
<1>1. PICK c \in 0..Cores : cpuTime' = cpuTime + c
  BY DEF Work
<1>2. now' = now + 1 /\ UNCHANGED <<lastWall, lastCPUTime>>
  BY DEF Work
<1>3. PICK d \in Nat : d = now - lastWall
  BY DEF IInv
<1>4. now' - lastWall' = d + 1 /\ Cores * (d + 1) = Cores * d + Cores /\ Cores * d \in Nat
  BY <1>2, <1>3, OneMoreTick DEF IInv
<1>5. cpuTime - lastCPUTime <= Cores * d
  BY <1>3 DEF IInv
<1>6. cpuTime' - lastCPUTime' <= Cores * (d + 1)
  BY <1>1, <1>2, <1>4, <1>5 DEF IInv
<1> QED BY <1>1, <1>2, <1>4, <1>6 DEF IInv

LEMMA SampleKeeps == ASSUME Cores \in Nat, IInv, Sample PROVE IInv'
<1>1. /\ lastWall' = now /\ lastCPUTime' = cpuTime
      /\ now' = now /\ cpuTime' = cpuTime
  BY DEF Sample
<1>2. now' - lastWall' = 0 /\ cpuTime' - lastCPUTime' = 0 /\ Cores * 0 = 0
  BY <1>1, OneMoreTick DEF IInv
<1> QED BY <1>1, <1>2 DEF IInv

\* A reading is the use of the time since the last read, which fits the machine.
LEMMA SampleReportsTruth == ASSUME Cores \in Nat, IInv, Sample PROVE NeverOverReports'
<1>1. CASE now > lastWall
  <2>1. reading'.cpu = cpuTime - lastCPUTime /\ reading'.wall = now - lastWall
    BY <1>1 DEF Sample
  <2> QED BY <2>1 DEF IInv, NeverOverReports
<1>2. CASE ~(now > lastWall)
  <2>1. reading'.cpu = 0 /\ reading'.wall = 0
    BY <1>2 DEF Sample, Nothing
  <2> QED BY <2>1, OneMoreTick DEF NeverOverReports
<1> QED BY <1>1, <1>2 DEF IInv

\* Once the sampler has read the CPU time, and while its reads succeed, no reading
\* is above what the machine has (health.go:106-119).  The first reading of a run
\* and the one after a failure are the exceptions.
THEOREM ReadsTrueFromTheSecondOn ==
  ASSUME Cores \in Nat
  PROVE  ReadableSpec => [][Sample => NeverOverReports']_vars
<1>1. JustRead => IInv
  BY OneMoreTick DEF JustRead, IInv
<1>2. IInv /\ [Work \/ Sample]_vars => IInv'
  <2>1. IInv /\ UNCHANGED vars => IInv'
    BY DEF IInv, vars
  <2> QED BY <2>1, WorkKeeps, SampleKeeps
<1>3. IInv /\ [Work \/ Sample]_vars => [Sample => NeverOverReports']_vars
  BY SampleReportsTruth
<1> QED BY <1>1, <1>2, <1>3, PTL DEF ReadableSpec

=================================================================================
