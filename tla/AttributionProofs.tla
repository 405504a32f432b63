----------------------------- MODULE AttributionProofs ----------------------------
(***************************************************************************)
(* Proofs about Attribution, for every number of targets, steps, profiles  *)
(* and restarts.                                                           *)
(*                                                                         *)
(* IInv ties the indices kept apart in the code together: what onStep calls*)
(* nextIndex is the number of steps reported, the snapshots in prev are    *)
(* those taken at the end of the step before, and the baseline is the last *)
(* step that passed.  LInv relates what a target exposes to what it really *)
(* served, as long as it is the same process.                              *)
(***************************************************************************)
EXTENDS Attribution, SequenceTheorems, TLAPS

\* Both hooks see one count of steps.
Indexed ==
  /\ nextIndex = Len(steps) /\ Len(steps) <= MaxSteps
  /\ pc = "measuring" => Len(steps) < MaxSteps
  /\ pc = "start" => steps = <<>>

Labelled == \A c \in captures \cup files : c.label = c.of

\* No snapshot in prev is older than the last step.
PrevIsFresh == \A t \in DOMAIN prev : prev[t].at = Len(steps) - 1

\* Of the first n steps k was the last to pass, or none did and k is -1.
LastPass(passed, n, k) ==
  /\ k \in -1..n - 1
  /\ k # -1 => k \in passed
  /\ \A j \in 0..n - 1 : j \in passed => j <= k

Judged == \A i \in DOMAIN evidence : LastPass(Passed, i, evidence[i].baseline.step)

\* What is ranked, and on what.
RankedAreDue ==
  /\ DOMAIN ranked = {i \in 0..Len(steps) - 1 : Due(steps[i + 1])}
  /\ \A i \in DOMAIN ranked : ranked[i] = Rank(evidence[i], detectors)

IInv ==
  /\ TypeOK
  /\ Indexed
  /\ Labelled
  /\ PrevIsFresh
  /\ LastPass(Passed, Len(steps), baseline.step)
  /\ Judged
  /\ EvidenceOfOneStep
  /\ RankedAreDue
  /\ BlamesOnlyFailures

-------------------------------------------------------------------------------

LEMMA EmptyDomain == DOMAIN <<>> = {} /\ Len(<<>>) = 0
  OBVIOUS

\* Nothing is known before the first step and after the last.
LEMMA NothingYet ==
  ASSUME ranked' = <<>>, evidence' = <<>>, steps' = <<>>, prev' = <<>>, nextIndex' = 0,
         baseline' = NoMetrics, pc' \notin {"measuring", "ramped"}
  PROVE  /\ Indexed' /\ PrevIsFresh' /\ LastPass(Passed', Len(steps'), baseline'.step) /\ Judged'
         /\ EvidenceOfOneStep' /\ RankedAreDue' /\ BlamesOnlyFailures'
<1>1. DOMAIN ranked' = {} /\ DOMAIN evidence' = {} /\ DOMAIN prev' = {} /\ Len(steps') = 0
  BY EmptyDomain
<1>2. baseline'.step = -1
  BY DEF NoMetrics
<1>3. Indexed'
  BY <1>1, AttributionAssumption DEF Indexed
<1>4. PrevIsFresh' /\ Judged' /\ EvidenceOfOneStep'
  BY <1>1 DEF PrevIsFresh, Judged, EvidenceOfOneStep
<1>5. LastPass(Passed', Len(steps'), baseline'.step)
  BY <1>1, <1>2 DEF LastPass
<1>6. RankedAreDue'
  BY <1>1 DEF RankedAreDue
<1> QED BY <1>3, <1>4, <1>5, <1>6 DEF BlamesOnlyFailures

LEMMA InitIInv == Init => IInv
<1> SUFFICES ASSUME Init PROVE IInv
  OBVIOUS
<1>1. DOMAIN ranked = {} /\ DOMAIN evidence = {} /\ DOMAIN prev = {} /\ Len(steps) = 0
  BY EmptyDomain DEF Init
<1>2. baseline.step = -1
  BY DEF Init, NoMetrics
<1>3. \A t \in Targets : server[t] \in Server(t)
  BY DEF Init, Server, Sampled, Zero
<1>4. TypeOK
  <2>1. DOMAIN server = Targets /\ steps \in Seq(Verdicts) /\ nextIndex \in 0..MaxSteps
    BY AttributionAssumption DEF Init
  <2>2. budget \in [work : [Targets -> Nat], restarts : [Targets -> Nat]] /\ config \in Configs
    BY AttributionAssumption DEF Init
  <2>3. baseline.step \in -1..MaxSteps - 1
    BY <1>2, AttributionAssumption
  <2> QED BY <1>1, <1>3, <2>1, <2>2, <2>3 DEF Init, TypeOK
<1>5. Indexed /\ Labelled
  BY <1>1, AttributionAssumption DEF Init, Indexed, Labelled
<1>6. PrevIsFresh /\ Judged /\ EvidenceOfOneStep
  BY <1>1 DEF PrevIsFresh, Judged, EvidenceOfOneStep
<1>7. LastPass(Passed, Len(steps), baseline.step) /\ RankedAreDue
  BY <1>1, <1>2 DEF LastPass, RankedAreDue
<1>8. BlamesOnlyFailures
  BY DEF Init, BlamesOnlyFailures
<1> QED BY <1>4, <1>5, <1>6, <1>7, <1>8 DEF IInv

-------------------------------------------------------------------------------
(* The targets and the goroutines leave the indices alone.                 *)

LEMMA RampUntouched ==
  ASSUME IInv, UNCHANGED ramp_vars, UNCHANGED detectors, UNCHANGED report,
         pc' = pc \/ pc' = "discard" \/ (pc' = "measuring" /\ Len(steps) < MaxSteps)
  PROVE  /\ Indexed' /\ PrevIsFresh' /\ LastPass(Passed', Len(steps'), baseline'.step) /\ Judged'
         /\ EvidenceOfOneStep' /\ RankedAreDue' /\ BlamesOnlyFailures'
<1>1. UNCHANGED <<prev, baseline, ranked, nextIndex, steps, evidence>>
  BY DEF ramp_vars
<1>2. Indexed'
  BY <1>1 DEF IInv, Indexed
<1>3. PrevIsFresh' /\ Judged' /\ EvidenceOfOneStep' /\ LastPass(Passed', Len(steps'), baseline'.step)
  BY <1>1 DEF IInv, PrevIsFresh, Judged, EvidenceOfOneStep, LastPass, Passed
<1>4. RankedAreDue'
  BY <1>1 DEF IInv, RankedAreDue
<1>5. BlamesOnlyFailures'
  BY <1>1 DEF IInv, BlamesOnlyFailures, Passed
<1> QED BY <1>2, <1>3, <1>4, <1>5

LEMMA BumpType ==
  ASSUME NEW s \in Sampled, NEW by \in Sampled
  PROVE  Bump(s, by) \in Sampled
  BY DEF Bump, Sampled

\* One target's record is replaced, whole or in part.
LEMMA ServerUpdated ==
  ASSUME DOMAIN server = Targets, \A u \in Targets : server[u] \in Server(u),
         NEW t \in Targets, NEW families \in [Exposed[t] -> Sampled],
         NEW served \in [Histograms -> Sampled],
         server' = [server EXCEPT ![t].families = families, ![t].served = served]
  PROVE  DOMAIN server' = Targets /\ \A u \in Targets : server'[u] \in Server(u)
<1>1. server[t] \in Server(t)
  OBVIOUS
<1>2. PICK s : s = [server[t] EXCEPT !.families = families, !.served = served]
  OBVIOUS
<1>3. s \in Server(t)
  BY <1>1, <1>2 DEF Server
<1>4. DOMAIN server' = Targets /\ server'[t] = s /\ \A u \in Targets \ {t} : server'[u] = server[u]
  BY <1>2
<1> QED BY <1>3, <1>4

LEMMA ServeIInv ==
  ASSUME IInv, NEW t \in Targets, Serve(t)
  PROVE  IInv'
<1>1. /\ DOMAIN server = Targets /\ server[t] \in Server(t) /\ Exposed[t] \subseteq Metrics
      /\ \A u \in Targets : server[u] \in Server(u)
  BY AttributionAssumption DEF IInv, TypeOK
<1>2. PICK load \in Loads :
        server' = [server EXCEPT
          ![t].families = [x \in Exposed[t] |->
             IF x = "goroutines" THEN load[x] ELSE Bump(@[x], load[x])],
          ![t].served = [x \in Histograms |-> IF x \in Exposed[t] THEN Bump(@[x], load[x]) ELSE @[x]]]
  BY DEF Serve
<1>11. PICK families, served :
        /\ families = [x \in Exposed[t] |->
             IF x = "goroutines" THEN load[x] ELSE Bump(server[t].families[x], load[x])]
        /\ served = [x \in Histograms |->
             IF x \in Exposed[t] THEN Bump(server[t].served[x], load[x]) ELSE server[t].served[x]]
        /\ server' = [server EXCEPT ![t].families = families, ![t].served = served]
  BY <1>1, <1>2
<1>3. load \in [Metrics -> Sampled]
  BY AttributionAssumption DEF Sampled
<1>12. /\ server[t].families \in [Exposed[t] -> Sampled]
       /\ server[t].served \in [Histograms -> Sampled]
  BY <1>1 DEF Server
<1>4. families \in [Exposed[t] -> Sampled]
  <2>1. \A x \in Exposed[t] : load[x] \in Sampled /\ Bump(server[t].families[x], load[x]) \in Sampled
    BY <1>1, <1>3, <1>12, BumpType
  <2> QED BY <1>11, <2>1
<1>5. served \in [Histograms -> Sampled]
  <2>1. \A x \in Histograms : server[t].served[x] \in Sampled
                           /\ (x \in Exposed[t] => Bump(server[t].served[x], load[x]) \in Sampled)
    BY <1>1, <1>3, <1>12, BumpType
  <2> QED BY <1>11, <2>1
<1>6. DOMAIN server' = Targets /\ \A u \in Targets : server'[u] \in Server(u)
  BY <1>1, <1>4, <1>5, <1>11, ServerUpdated
<1>7. budget' \in [work : [Targets -> Nat], restarts : [Targets -> Nat]]
  <2>1. budget \in [work : [Targets -> Nat], restarts : [Targets -> Nat]] /\ budget.work[t] > 0
    BY DEF IInv, TypeOK, Serve
  <2>4. budget.work \in [Targets -> Nat] /\ budget.work[t] - 1 \in Nat
    BY <2>1
  <2>5. [budget.work EXCEPT ![t] = @ - 1] \in [Targets -> Nat]
    BY <2>4
  <2>2. PICK left \in [Targets -> Nat] : left = [budget.work EXCEPT ![t] = @ - 1]
    BY <2>5
  <2>3. budget' = [budget EXCEPT !.work = left]
    BY <2>1, <2>2 DEF Serve
  <2> QED BY <2>1, <2>2, <2>3
<1>8. UNCHANGED <<pc, config, detectors, captures, files, report>> /\ UNCHANGED ramp_vars
  BY DEF Serve
<1>9. TypeOK'
  BY <1>6, <1>7, <1>8 DEF IInv, TypeOK, ramp_vars
<1>10. Labelled'
  BY <1>8 DEF IInv, Labelled
<1> QED BY <1>8, <1>9, <1>10, RampUntouched DEF IInv

LEMMA RestartIInv ==
  ASSUME IInv, NEW t \in Targets, Restart(t)
  PROVE  IInv'
<1>1. DOMAIN server = Targets /\ \A u \in Targets : server[u] \in Server(u)
  BY DEF IInv, TypeOK
<1>2. PICK families : /\ families = [x \in Exposed[t] |-> Zero]
                      /\ server' = [server EXCEPT ![t].families = families, ![t].boots = @ + 1]
  BY DEF Restart
<1>3. families \in [Exposed[t] -> Sampled]
  BY <1>2 DEF Zero, Sampled
<1>4. DOMAIN server' = Targets /\ \A u \in Targets : server'[u] \in Server(u)
  BY <1>1, <1>2, <1>3 DEF Server
<1>5. budget' \in [work : [Targets -> Nat], restarts : [Targets -> Nat]]
  <2>1. budget \in [work : [Targets -> Nat], restarts : [Targets -> Nat]] /\ budget.restarts[t] > 0
    BY DEF IInv, TypeOK, Restart
  <2>4. budget.restarts \in [Targets -> Nat] /\ budget.restarts[t] - 1 \in Nat
    BY <2>1
  <2>5. [budget.restarts EXCEPT ![t] = @ - 1] \in [Targets -> Nat]
    BY <2>4
  <2>2. PICK left \in [Targets -> Nat] : left = [budget.restarts EXCEPT ![t] = @ - 1]
    BY <2>5
  <2>3. budget' = [budget EXCEPT !.restarts = left]
    BY <2>1, <2>2 DEF Restart
  <2> QED BY <2>1, <2>2, <2>3
<1>6. UNCHANGED <<pc, config, detectors, captures, files, report>> /\ UNCHANGED ramp_vars
  BY DEF Restart
<1>7. TypeOK'
  BY <1>4, <1>5, <1>6 DEF IInv, TypeOK, ramp_vars
<1>8. Labelled'
  BY <1>6 DEF IInv, Labelled
<1> QED BY <1>6, <1>7, <1>8, RampUntouched DEF IInv

\* A profile keeps its name through all its states.
LEMMA NowKeeps ==
  ASSUME NEW sts, NEW c \in Profile(sts), NEW st, NEW others, st \in others
  PROVE  Now(c, st) \in Profile(others) /\ Now(c, st).label = c.label /\ Now(c, st).of = c.of
  BY DEF Now, Profile

LEMMA CaptureIInv ==
  ASSUME IInv, Capture
  PROVE  IInv'
<1>1. PICK c \in captures : Refuse(c) \/ Receive(c) \/ Finish(c) \/ Fail(c)
  BY DEF Capture
<1>2. /\ UNCHANGED <<pc, config, server, budget, detectors, report>> /\ UNCHANGED ramp_vars
      /\ captures \subseteq Profile({"asked", "writing"})
      /\ files \subseteq Profile({"partial", "complete"})
      /\ c \in Profile({"asked", "writing"}) /\ c.label = c.of
  BY DEF Capture, server_vars, IInv, TypeOK, Labelled
<1>3. PICK w \in Profile({"asked", "writing"}), p \in Profile({"partial", "complete"}),
           d \in Profile({"partial", "complete"}) :
        /\ w = Now(c, "writing") /\ p = Now(c, "partial") /\ d = Now(c, "complete")
        /\ w.label = w.of /\ p.label = p.of /\ d.label = d.of
  BY <1>2, NowKeeps
<1>4. captures' \subseteq captures \cup {w} /\ files' \subseteq files \cup {p, d}
  BY <1>1, <1>3 DEF Refuse, Receive, Finish, Fail
<1>5. Labelled'
  BY <1>3, <1>4 DEF IInv, Labelled
<1>6. TypeOK'
  BY <1>2, <1>3, <1>4 DEF IInv, TypeOK, ramp_vars
<1> QED BY <1>2, <1>5, <1>6, RampUntouched DEF IInv
-------------------------------------------------------------------------------
(* The hooks.                                                              *)

LEMMA SetupIInv ==
  ASSUME IInv, SetupAttribution
  PROVE  IInv'
<1>1. PICK up \in SUBSET Targets :
        /\ prev' = Fetch(up, -1)
        /\ detectors' = {RateLimiterDetector} \cup UNION {BuildDetectors(t, Exposed[t]) : t \in up}
  BY DEF SetupAttribution
<1>2. /\ pc = "start" /\ pc' = "discard" /\ steps = <<>> /\ Len(steps) = 0
      /\ UNCHANGED <<config, server, budget, baseline, ranked, nextIndex, captures, files,
                     steps, report, evidence>>
  BY EmptyDomain DEF SetupAttribution, server_vars, IInv, Indexed
<1>3. DOMAIN prev' \subseteq Targets /\ \A t \in DOMAIN prev' : prev'[t].at = -1
  BY <1>1 DEF Fetch
<1>4. detectors' \subseteq {RateLimiterDetector} \cup (Kinds \X Targets)
  BY <1>1 DEF BuildDetectors
<1>5. TypeOK'
  BY <1>2, <1>3, <1>4 DEF IInv, TypeOK
<1>6. Indexed' /\ Labelled' /\ PrevIsFresh'
  BY <1>2, <1>3 DEF IInv, Indexed, Labelled, PrevIsFresh
<1>7. LastPass(Passed', Len(steps'), baseline'.step) /\ Judged' /\ EvidenceOfOneStep'
  BY <1>2 DEF IInv, LastPass, Passed, Judged, EvidenceOfOneStep
<1>8. DOMAIN ranked = {}
  BY <1>2 DEF IInv, RankedAreDue
<1>9. RankedAreDue' /\ BlamesOnlyFailures'
  BY <1>2, <1>8 DEF IInv, RankedAreDue, BlamesOnlyFailures
<1> QED BY <1>5, <1>6, <1>7, <1>9 DEF IInv

LEMMA OnStepStartIInv ==
  ASSUME IInv, OnStepStart
  PROVE  IInv'
<1>1. /\ pc' = "measuring" /\ Len(steps) < MaxSteps /\ nextIndex = Len(steps)
      /\ nextIndex \in Nat /\ MaxSteps \in Nat
      /\ UNCHANGED <<config, server, budget, detectors, files, report>> /\ UNCHANGED ramp_vars
  BY AttributionAssumption DEF OnStepStart, server_vars, IInv, Indexed, TypeOK
<1>2. nextIndex \in 0..MaxSteps - 1
  BY <1>1
<1>3. \A c \in captures' \ captures :
        c \in Profile({"asked", "writing"}) /\ c.label = nextIndex /\ c.of = nextIndex
  BY <1>1, <1>2 DEF OnStepStart, Profile
<1>4. Labelled'
  BY <1>1, <1>3 DEF IInv, Labelled
<1>5. TypeOK'
  BY <1>1, <1>3 DEF IInv, TypeOK, ramp_vars
<1> QED BY <1>1, <1>4, <1>5, RampUntouched DEF IInv

\* What appending a verdict does to the indices of the steps before.
LEMMA Reported ==
  ASSUME steps \in Seq(Verdicts), NEW v \in Verdicts, steps' = Append(steps, v)
  PROVE  /\ steps' \in Seq(Verdicts) /\ Len(steps') = Len(steps) + 1
         /\ Len(steps) \in Nat
         /\ steps'[Len(steps) + 1] = v
         /\ \A i \in 0..Len(steps) - 1 : steps'[i + 1] = steps[i + 1]
         /\ \A i \in 0..Len(steps) - 1 : i \in Passed' <=> i \in Passed
         /\ Len(steps) \in Passed' <=> v.pass
<1>1. /\ steps' \in Seq(Verdicts) /\ Len(steps') = Len(steps) + 1 /\ Len(steps) \in Nat
      /\ steps'[Len(steps) + 1] = v
      /\ \A i \in 1..Len(steps) : steps'[i] = steps[i]
  BY AppendProperties, LenProperties
<1>2. \A i \in 0..Len(steps) - 1 : i + 1 \in 1..Len(steps)
  BY <1>1
<1> QED BY <1>1, <1>2 DEF Passed

\* A step does not change which of the earlier ones passed last.
LEMMA StillLastPass ==
  ASSUME steps \in Seq(Verdicts), NEW v \in Verdicts, steps' = Append(steps, v),
         NEW n \in 0..Len(steps), NEW k \in Int, LastPass(Passed, n, k)
  PROVE  LastPass(Passed', n, k)
<1>1. Len(steps) \in Nat /\ \A i \in 0..Len(steps) - 1 : i \in Passed' <=> i \in Passed
  BY Reported
<1>2. 0..n - 1 \subseteq 0..Len(steps) - 1
  BY <1>1
<1>3. k \in -1..n - 1 /\ (k # -1 => k \in 0..n - 1)
  BY <1>1 DEF LastPass
<1> QED BY <1>1, <1>2, <1>3 DEF LastPass

\* The step that is reported becomes the last that passed, or the one before it
\* still is.
LEMMA NextLastPass ==
  ASSUME steps \in Seq(Verdicts), NEW v \in Verdicts, steps' = Append(steps, v),
         NEW n, n = Len(steps), NEW k \in Int, LastPass(Passed, n, k)
  PROVE  (v.pass => LastPass(Passed', n + 1, n)) /\ (~v.pass => LastPass(Passed', n + 1, k))
<1>1. n \in Nat /\ n \in 0..Len(steps) /\ (n \in Passed' <=> v.pass)
  BY Reported
<1>2. LastPass(Passed', n, k)
  BY <1>1, StillLastPass
<1>3. \A j \in 0..n : j = n \/ j \in 0..n - 1
  BY <1>1
<1>4. k \in -1..n - 1 /\ (k # -1 => k \in Passed') /\ \A j \in 0..n - 1 : j \in Passed' => j <= k
  BY <1>2 DEF LastPass
<1>5. CASE v.pass
  <2>1. n \in -1..n /\ \A j \in 0..n : j <= n
    BY <1>1
  <2> QED BY <1>1, <1>5, <2>1 DEF LastPass
<1>6. CASE ~v.pass
  <2>1. k \in -1..n /\ n + 1 - 1 = n
    BY <1>1, <1>4
  <2>2. \A j \in 0..n : j \in Passed' => j <= k
    BY <1>1, <1>3, <1>4, <1>6
  <2> QED BY <1>4, <1>6, <2>1, <2>2 DEF LastPass
<1> QED BY <1>5, <1>6

LEMMA OnStepIInv ==
  ASSUME IInv, OnStep
  PROVE  IInv'
<1> DEFINE n == Len(steps)
<1>1. /\ steps \in Seq(Verdicts) /\ nextIndex = n /\ n < MaxSteps /\ n \in Nat /\ MaxSteps \in Nat
      /\ pc' = "discard" /\ nextIndex' = n + 1
      /\ UNCHANGED <<config, server, budget, detectors, captures, files, report>>
  BY AttributionAssumption, LenProperties DEF OnStep, server_vars, IInv, Indexed, TypeOK
<1>2. PICK up \in SUBSET Targets, verdict \in Verdicts, gen \in Generators :
        LET metrics == [step |-> nextIndex, before |-> prev, after |-> Fetch(up, nextIndex),
                        total |-> gen.total, limited |-> gen.limited]
            ev == [failing |-> metrics, baseline |-> baseline]
            ranks == IF Due(verdict) THEN {nextIndex} ELSE {}
        IN  /\ baseline' = NextBaseline(verdict, metrics)
            /\ ranked' = Store(ranked, ranks, Rank(ev, detectors))
            /\ evidence' = Store(evidence, ranks, ev)
            /\ prev' = NextPrev(metrics.after)
            /\ steps' = Append(steps, verdict)
  BY DEF OnStep
<1>3. PICK metrics, ev :
        /\ metrics = [step |-> n, before |-> prev, after |-> Fetch(up, n),
                       total |-> gen.total, limited |-> gen.limited]
        /\ ev = [failing |-> metrics, baseline |-> baseline]
  OBVIOUS
<1>4. /\ metrics.step = n /\ metrics.before = prev /\ metrics.after = Fetch(up, n)
      /\ ev.failing = metrics /\ ev.baseline = baseline
  BY <1>3
<1>5. PICK ranks : ranks = IF Due(verdict) THEN {n} ELSE {}
  OBVIOUS
<1>6. /\ baseline' = IF verdict.pass THEN metrics ELSE baseline
      /\ ranked' = Store(ranked, ranks, Rank(ev, detectors))
      /\ evidence' = Store(evidence, ranks, ev)
      /\ prev' = metrics.after
      /\ steps' = Append(steps, verdict)
  BY <1>1, <1>2, <1>3, <1>5 DEF NextBaseline, NextPrev
<1>7. /\ steps' \in Seq(Verdicts) /\ Len(steps') = n + 1 /\ steps'[n + 1] = verdict
      /\ \A i \in 0..n - 1 : steps'[i + 1] = steps[i + 1]
      /\ \A i \in 0..n - 1 : i \in Passed' <=> i \in Passed
  BY <1>1, <1>6, Reported
<1> HIDE DEF n
<1>8. /\ DOMAIN ranked' = ranks \cup DOMAIN ranked /\ DOMAIN evidence' = ranks \cup DOMAIN evidence
      /\ \A i \in ranks : ranked'[i] = Rank(ev, detectors) /\ evidence'[i] = ev
      /\ \A i \in DOMAIN ranked \ ranks : ranked'[i] = ranked[i]
      /\ \A i \in DOMAIN evidence \ ranks : evidence'[i] = evidence[i]
  BY <1>6 DEF Store
<1>9. /\ DOMAIN ranked = {i \in 0..n - 1 : Due(steps[i + 1])} /\ DOMAIN evidence = DOMAIN ranked
      /\ \A i \in DOMAIN ranked : ranked[i] = Rank(evidence[i], detectors)
  BY DEF IInv, TypeOK, RankedAreDue, n
<1>10. n \notin DOMAIN ranked
  BY <1>1, <1>9
<1>11. DOMAIN prev' \subseteq Targets /\ \A t \in DOMAIN prev' : prev'[t].at = n
  BY <1>4, <1>6 DEF Fetch
<1>12. baseline'.step \in -1..MaxSteps - 1
  BY <1>1, <1>4, <1>6 DEF IInv, TypeOK
<1>13. TypeOK'
  <2>1. DOMAIN ranked' \subseteq 0..MaxSteps - 1 /\ DOMAIN evidence' = DOMAIN ranked'
    BY <1>1, <1>5, <1>8, <1>9
  <2>2. nextIndex' \in 0..MaxSteps
    BY <1>1
  <2> QED BY <1>1, <1>7, <1>11, <1>12, <2>1, <2>2 DEF IInv, TypeOK
<1>14. Indexed' /\ Labelled' /\ PrevIsFresh'
  BY <1>1, <1>7, <1>11 DEF IInv, Indexed, Labelled, PrevIsFresh
<1>16. PICK k \in Int : k = baseline.step /\ LastPass(Passed, n, k)
  BY DEF IInv, TypeOK, n
<1>17. (verdict.pass => LastPass(Passed', n + 1, n)) /\ (~verdict.pass => LastPass(Passed', n + 1, k))
  BY <1>1, <1>6, <1>16, NextLastPass DEF n
<1>15. LastPass(Passed', Len(steps'), baseline'.step)
  <2>1. Len(steps') = n + 1 /\ baseline'.step = IF verdict.pass THEN n ELSE k
    BY <1>4, <1>6, <1>7, <1>16
  <2> QED BY <1>17, <2>1 DEF LastPass
<1>18. Judged'
  <2> SUFFICES ASSUME NEW i \in DOMAIN evidence' PROVE LastPass(Passed', i, evidence'[i].baseline.step)
    BY DEF Judged
  <2>1. CASE i \in ranks
    <3>1. i = n /\ evidence'[i].baseline.step = k /\ n \in 0..Len(steps)
      BY <1>1, <1>4, <1>5, <1>8, <1>16, <2>1 DEF n
    <3>2. LastPass(Passed', n, k)
      BY <1>1, <1>6, <1>16, <3>1, StillLastPass
    <3> QED BY <3>1, <3>2 DEF LastPass
  <2>2. CASE i \notin ranks
    <3>1. i \in DOMAIN evidence /\ evidence'[i] = evidence[i] /\ i \in 0..Len(steps)
      BY <1>1, <1>8, <1>9, <2>2 DEF n
    <3>2. PICK j : j = evidence[i].baseline.step /\ LastPass(Passed, i, j)
      BY <3>1 DEF IInv, Judged
    <3>3. j \in Int
      BY <3>1, <3>2, <1>1 DEF LastPass
    <3>4. LastPass(Passed', i, j)
      BY <1>1, <1>6, <3>1, <3>2, <3>3, StillLastPass
    <3> QED BY <3>1, <3>2, <3>4 DEF LastPass
  <2> QED BY <2>1, <2>2
<1>19. EvidenceOfOneStep'
  <2> SUFFICES ASSUME NEW i \in DOMAIN evidence',
                      NEW t \in DOMAIN evidence'[i].failing.before \cap DOMAIN evidence'[i].failing.after
               PROVE  /\ evidence'[i].failing.before[t].at = i - 1
                      /\ evidence'[i].failing.after[t].at = i
    BY DEF EvidenceOfOneStep
  <2>1. CASE i \in ranks
    <3>1. i = n /\ evidence'[i].failing = metrics
      BY <1>4, <1>5, <1>8, <2>1
    <3>2. \A u \in DOMAIN prev : prev[u].at = n - 1
      BY DEF IInv, PrevIsFresh, n
    <3>3. \A u \in DOMAIN Fetch(up, n) : Fetch(up, n)[u].at = n
      BY DEF Fetch
    <3> QED BY <1>4, <3>1, <3>2, <3>3
  <2>2. CASE i \notin ranks
    <3>1. i \in DOMAIN evidence /\ evidence'[i] = evidence[i]
      BY <1>8, <2>2
    <3> QED BY <3>1 DEF IInv, EvidenceOfOneStep
  <2> QED BY <2>1, <2>2
<1>20. RankedAreDue'
  <2>1. \A i \in DOMAIN ranked' : ranked'[i] = Rank(evidence'[i], detectors')
    BY <1>1, <1>8, <1>9
  <2>2. 0..n = (0..n - 1) \cup {n} /\ n \notin 0..n - 1
    BY <1>1
  <2>3. ranks = {i \in {n} : Due(verdict)}
    BY <1>5
  <2>4. DOMAIN ranked' = {i \in 0..n : Due(steps'[i + 1])}
    BY <1>7, <1>8, <1>9, <2>2, <2>3
  <2>5. Len(steps') - 1 = n
    BY <1>1, <1>7
  <2> QED BY <2>1, <2>4, <2>5 DEF RankedAreDue
<1>21. BlamesOnlyFailures'
  BY <1>1 DEF BlamesOnlyFailures
<1> QED BY <1>13, <1>14, <1>15, <1>18, <1>19, <1>20, <1>21 DEF IInv

LEMMA WriteReportIInv ==
  ASSUME IInv, WriteReport
  PROVE  IInv'
<1>1. /\ pc' = "ramped" /\ UNCHANGED ramp_vars
      /\ UNCHANGED <<config, server, budget, detectors, captures, files>>
      /\ report' = [i \in 0..Len(steps) - 1 |-> IF i \in DOMAIN ranked THEN ranked[i] ELSE {}]
  BY DEF WriteReport, server_vars
<1>2. UNCHANGED <<prev, baseline, ranked, nextIndex, steps, evidence>>
  BY <1>1 DEF ramp_vars
<1>3. TypeOK' /\ Indexed' /\ Labelled' /\ PrevIsFresh'
  BY <1>1, <1>2 DEF IInv, TypeOK, Indexed, Labelled, PrevIsFresh
<1>4. LastPass(Passed', Len(steps'), baseline'.step) /\ Judged' /\ EvidenceOfOneStep' /\ RankedAreDue'
  BY <1>1, <1>2 DEF IInv, LastPass, Passed, Judged, EvidenceOfOneStep, RankedAreDue
<1>5. BlamesOnlyFailures'
  <2> SUFFICES ASSUME NEW i \in 0..Len(steps) - 1
               PROVE  report'[i] = IF i \in Passed \/ steps[i + 1].limited THEN {}
                                   ELSE Rank(evidence[i], detectors)
    BY <1>1, <1>2 DEF BlamesOnlyFailures, Passed
  <2>1. i \in DOMAIN ranked <=> ~(i \in Passed \/ steps[i + 1].limited)
    BY DEF IInv, RankedAreDue, Due, Passed
  <2>2. i \in DOMAIN ranked => ranked[i] = Rank(evidence[i], detectors)
    BY DEF IInv, RankedAreDue
  <2> QED BY <1>1, <2>1, <2>2
<1> QED BY <1>3, <1>4, <1>5 DEF IInv

LEMMA ExitIInv ==
  ASSUME IInv, Exit
  PROVE  IInv'
<1>1. /\ pc' = "exited" /\ captures' = {} /\ detectors' = {} /\ prev' = <<>>
      /\ baseline' = NoMetrics /\ ranked' = <<>> /\ evidence' = <<>> /\ nextIndex' = 0
      /\ steps' = <<>> /\ UNCHANGED <<config, server, budget, files, report>>
  BY DEF Exit, server_vars
<1>2. DOMAIN ranked' = {} /\ DOMAIN evidence' = {} /\ DOMAIN prev' = {}
  BY <1>1, EmptyDomain
<1>3. baseline'.step \in -1..MaxSteps - 1 /\ nextIndex' \in 0..MaxSteps
  BY <1>1, AttributionAssumption DEF NoMetrics
<1>4. TypeOK'
  BY <1>1, <1>2, <1>3 DEF IInv, TypeOK
<1>5. Labelled'
  BY <1>1 DEF IInv, Labelled
<1>6. /\ Indexed' /\ PrevIsFresh' /\ LastPass(Passed', Len(steps'), baseline'.step) /\ Judged'
      /\ EvidenceOfOneStep' /\ RankedAreDue' /\ BlamesOnlyFailures'
  BY <1>1, NothingYet
<1> QED BY <1>4, <1>5, <1>6 DEF IInv

LEMMA NextIInv == IInv /\ [Next]_vars => IInv'
<1> SUFFICES ASSUME IInv, [Next]_vars PROVE IInv'
  OBVIOUS
<1>1. ASSUME NEW t \in Targets, Serve(t) PROVE IInv'
  BY <1>1, ServeIInv
<1>2. ASSUME NEW t \in Targets, Restart(t) PROVE IInv'
  BY <1>2, RestartIInv
<1>3. CASE SetupAttribution
  BY <1>3, SetupIInv
<1>4. CASE OnStepStart
  BY <1>4, OnStepStartIInv
<1>5. CASE OnStep
  BY <1>5, OnStepIInv
<1>6. CASE WriteReport
  BY <1>6, WriteReportIInv
<1>7. CASE Exit
  BY <1>7, ExitIInv
<1>8. CASE Capture
  BY <1>8, CaptureIInv
<1>9. CASE UNCHANGED vars
  <2>1. UNCHANGED <<pc, config, server, budget, detectors, captures, files, report>>
        /\ UNCHANGED ramp_vars
    BY <1>9 DEF vars, ramp_vars
  <2>2. TypeOK' /\ Labelled'
    BY <2>1 DEF IInv, TypeOK, Labelled, ramp_vars
  <2> QED BY <2>1, <2>2, RampUntouched DEF IInv
<1> QED BY <1>1, <1>2, <1>3, <1>4, <1>5, <1>6, <1>7, <1>8, <1>9 DEF Next

LEMMA Invariance == Spec => []IInv
  BY InitIInv, NextIInv, PTL DEF Spec

-------------------------------------------------------------------------------
(* What the latency detector reads.  A snapshot s is followed by a later   *)
(* one r: what was served only grows, and while the process is the same,   *)
(* its histograms grow by just that.                                       *)

Snapshot(s, t) ==
  /\ s.families \in [Exposed[t] -> Sampled]
  /\ s.served \in [Histograms -> Sampled]
  /\ s.boots \in Nat

Grows(a, b) == a.sum <= b.sum /\ a.count <= b.count /\ (a.count = b.count => a.sum = b.sum)

\* The histogram went from a to b while the target served what took c to d.
InStep(a, b, c, d) == b.sum - a.sum = d.sum - c.sum /\ b.count - a.count = d.count - c.count

Follows(s, r, t) ==
  /\ Snapshot(s, t) /\ Snapshot(r, t)
  /\ s.boots <= r.boots
  /\ \A x \in Histograms : Grows(s.served[x], r.served[x])
  /\ \A x \in Histograms : x \notin Exposed[t] => s.served[x] = r.served[x]
  /\ s.boots = r.boots =>
       \A x \in Histograms \cap Exposed[t] :
         InStep(s.families[x], r.families[x], s.served[x], r.served[x])

\* Metrics of a step were read in this order, and before now.
GroundedIn(m, now) ==
  /\ DOMAIN m.before \subseteq Targets /\ DOMAIN m.after \subseteq Targets
  /\ \A t \in DOMAIN m.after : Follows(m.after[t], now[t], t)
  /\ \A t \in DOMAIN m.before \cap DOMAIN m.after : Follows(m.before[t], m.after[t], t)

LInv ==
  /\ \A t \in DOMAIN prev : Follows(prev[t], server[t], t)
  /\ GroundedIn(baseline, server)
  /\ \A i \in DOMAIN evidence :
       GroundedIn(evidence[i].failing, server) /\ GroundedIn(evidence[i].baseline, server)

LEMMA FollowsSelf ==
  ASSUME NEW s, NEW t, Snapshot(s, t)
  PROVE  Follows(s, s, t)
<1>1. \A x \in Histograms : Grows(s.served[x], s.served[x])
  BY DEF Snapshot, Grows, Sampled
<1>2. \A x \in Histograms \cap Exposed[t] :
        InStep(s.families[x], s.families[x], s.served[x], s.served[x])
  BY DEF Snapshot, InStep, Sampled
<1> QED BY <1>1, <1>2 DEF Follows, Snapshot

LEMMA FollowsOn ==
  ASSUME NEW s, NEW r, NEW q, NEW t, Follows(s, r, t), Follows(r, q, t)
  PROVE  Follows(s, q, t)
<1>1. Snapshot(s, t) /\ Snapshot(r, t) /\ Snapshot(q, t)
  BY DEF Follows
<1>2. s.boots \in Nat /\ r.boots \in Nat /\ q.boots \in Nat /\ s.boots <= r.boots /\ r.boots <= q.boots
  BY <1>1 DEF Follows, Snapshot
<1>3. ASSUME NEW x \in Histograms PROVE Grows(s.served[x], q.served[x])
  <2>1. s.served[x] \in Sampled /\ r.served[x] \in Sampled /\ q.served[x] \in Sampled
    BY <1>1 DEF Snapshot
  <2>2. Grows(s.served[x], r.served[x]) /\ Grows(r.served[x], q.served[x])
    BY DEF Follows
  <2> QED BY <2>1, <2>2 DEF Grows, Sampled
<1>4. ASSUME NEW x \in Histograms, x \notin Exposed[t] PROVE s.served[x] = q.served[x]
  BY <1>4 DEF Follows
<1>5. ASSUME s.boots = q.boots, NEW x \in Histograms \cap Exposed[t]
      PROVE  InStep(s.families[x], q.families[x], s.served[x], q.served[x])
  <2>1. s.boots = r.boots /\ r.boots = q.boots
    BY <1>2, <1>5
  <2>2. /\ InStep(s.families[x], r.families[x], s.served[x], r.served[x])
        /\ InStep(r.families[x], q.families[x], r.served[x], q.served[x])
    BY <2>1 DEF Follows
  <2>3. /\ s.served[x] \in Sampled /\ r.served[x] \in Sampled /\ q.served[x] \in Sampled
        /\ s.families[x] \in Sampled /\ r.families[x] \in Sampled /\ q.families[x] \in Sampled
    BY <1>1 DEF Snapshot
  <2> QED BY <2>2, <2>3 DEF InStep, Sampled
<1>6. s.boots <= q.boots
  BY <1>2
<1> QED BY <1>1, <1>3, <1>4, <1>5, <1>6 DEF Follows

\* Only the fields a scrape copies matter.
LEMMA FollowsCopy ==
  ASSUME NEW s, NEW r, NEW q, NEW t, Follows(s, r, t),
         q.families = r.families, q.served = r.served, q.boots = r.boots
  PROVE  Follows(s, q, t)
  BY DEF Follows, Snapshot

LEMMA CopyFollows ==
  ASSUME NEW s, NEW r, NEW t, Snapshot(r, t),
         s.families = r.families, s.served = r.served, s.boots = r.boots
  PROVE  Follows(s, r, t)
<1>1. Snapshot(s, t)
  BY DEF Snapshot
<1>2. Follows(s, s, t)
  BY <1>1, FollowsSelf
<1> QED BY <1>2, FollowsCopy

LEMMA ServerSnapshot ==
  ASSUME IInv, NEW t \in Targets
  PROVE  Snapshot(server[t], t)
  BY DEF IInv, TypeOK, Server, Snapshot

\* A burst of work moves a histogram and what was served alike.
LEMMA BumpGrows ==
  ASSUME NEW s \in Sampled, NEW by \in Sampled, by.count = 0 => by.sum = 0
  PROVE  Grows(s, Bump(s, by))
  BY DEF Bump, Grows, Sampled

LEMMA BumpInStep ==
  ASSUME NEW f \in Sampled, NEW s \in Sampled, NEW by \in Sampled
  PROVE  InStep(f, Bump(f, by), s, Bump(s, by))
  BY DEF Bump, InStep, Sampled

LEMMA ServeFollows ==
  ASSUME IInv, NEW t \in Targets, Serve(t), NEW r, r = server'[t], Snapshot(r, t)
  PROVE  Follows(server[t], r, t)
<1>1. PICK s : s = server[t]
  OBVIOUS
<1>2. Snapshot(s, t) /\ DOMAIN server = Targets
  BY <1>1, ServerSnapshot DEF IInv, TypeOK
<1>3. PICK load \in Loads :
        server' = [server EXCEPT
          ![t].families = [x \in Exposed[t] |->
             IF x = "goroutines" THEN load[x] ELSE Bump(@[x], load[x])],
          ![t].served = [x \in Histograms |-> IF x \in Exposed[t] THEN Bump(@[x], load[x]) ELSE @[x]]]
  BY DEF Serve
<1>4. PICK families, served :
        /\ families = [x \in Exposed[t] |->
             IF x = "goroutines" THEN load[x] ELSE Bump(s.families[x], load[x])]
        /\ served = [x \in Histograms |->
             IF x \in Exposed[t] THEN Bump(s.served[x], load[x]) ELSE s.served[x]]
        /\ server' = [server EXCEPT ![t].families = families, ![t].served = served]
  BY <1>1, <1>2, <1>3
<1>5. server[t] \in Server(t) /\ r = [server[t] EXCEPT !.families = families, !.served = served]
  BY <1>2, <1>4 DEF IInv, TypeOK
<1>6. r.families = families /\ r.served = served /\ r.boots = s.boots
  BY <1>1, <1>5 DEF Server
<1>7. ASSUME NEW x \in Histograms
      PROVE  load[x] \in Sampled /\ (load[x].count = 0 => load[x].sum = 0) /\ x # "goroutines"
  BY AttributionAssumption DEF Sampled, Histograms, Metrics
<1>8. ASSUME NEW x \in Histograms PROVE Grows(s.served[x], r.served[x])
  <2>1. s.served[x] \in Sampled
    BY <1>2 DEF Snapshot
  <2>2. CASE x \in Exposed[t]
    <3>1. r.served[x] = Bump(s.served[x], load[x])
      BY <1>4, <1>6, <2>2
    <3> QED BY <1>7, <2>1, <3>1, BumpGrows
  <2>3. CASE x \notin Exposed[t]
    <3>1. r.served[x] = s.served[x]
      BY <1>4, <1>6, <2>3
    <3> QED BY <2>1, <3>1 DEF Grows, Sampled
  <2> QED BY <2>2, <2>3
<1>9. ASSUME NEW x \in Histograms, x \notin Exposed[t] PROVE s.served[x] = r.served[x]
  BY <1>4, <1>6, <1>9
<1>10. ASSUME NEW x \in Histograms \cap Exposed[t]
       PROVE  InStep(s.families[x], r.families[x], s.served[x], r.served[x])
  <2>1. s.served[x] \in Sampled /\ s.families[x] \in Sampled
    BY <1>2 DEF Snapshot
  <2>2. r.families[x] = Bump(s.families[x], load[x]) /\ r.served[x] = Bump(s.served[x], load[x])
    BY <1>4, <1>6, <1>7
  <2> QED BY <1>7, <2>1, <2>2, BumpInStep
<1>11. s.boots <= r.boots
  BY <1>2, <1>6 DEF Snapshot
<1> QED BY <1>1, <1>2, <1>8, <1>9, <1>10, <1>11 DEF Follows

LEMMA RestartFollows ==
  ASSUME IInv, NEW t \in Targets, Restart(t), NEW r, r = server'[t], Snapshot(r, t)
  PROVE  Follows(server[t], r, t)
<1>1. PICK s : s = server[t]
  OBVIOUS
<1>2. Snapshot(s, t) /\ DOMAIN server = Targets /\ server[t] \in Server(t)
  BY <1>1, ServerSnapshot DEF IInv, TypeOK
<1>3. r.served = s.served /\ r.boots = s.boots + 1
  BY <1>1, <1>2 DEF Restart, Server
<1>4. \A x \in Histograms : Grows(s.served[x], r.served[x])
  BY <1>2, <1>3 DEF Snapshot, Grows, Sampled
<1>5. s.boots \in Nat /\ s.boots <= r.boots /\ s.boots # r.boots
  BY <1>2, <1>3 DEF Snapshot
<1> QED BY <1>1, <1>2, <1>3, <1>4, <1>5 DEF Follows

\* Whatever happens, a target's counts follow those it had.
LEMMA ServersGoOn ==
  ASSUME IInv, [Next]_vars, IInv', NEW t \in Targets
  PROVE  Follows(server[t], server'[t], t)
<1>1. PICK r : r = server'[t]
  OBVIOUS
<1>2. Snapshot(server[t], t) /\ Snapshot(r, t)
  BY <1>1, ServerSnapshot DEF IInv, TypeOK, Server, Snapshot
<1>3. CASE r = server[t]
  BY <1>1, <1>2, <1>3, FollowsSelf
<1>4. CASE Serve(t)
  BY <1>1, <1>2, <1>4, ServeFollows
<1>5. CASE Restart(t)
  BY <1>1, <1>2, <1>5, RestartFollows
<1>6. ASSUME NEW u \in Targets, u # t, Serve(u) \/ Restart(u) PROVE r = server[t]
  <2>3. DOMAIN server = Targets
    BY DEF IInv, TypeOK
  <2>1. CASE Serve(u)
    <3>1. PICK families, served :
            server' = [server EXCEPT ![u].families = families, ![u].served = served]
      BY <2>1 DEF Serve
    <3> QED BY <1>1, <1>6, <2>3, <3>1
  <2>2. CASE Restart(u)
    <3>1. PICK families :
            server' = [server EXCEPT ![u].families = families, ![u].boots = @ + 1]
      BY <2>2 DEF Restart
    <3> QED BY <1>1, <1>6, <2>3, <3>1
  <2> QED BY <1>6, <2>1, <2>2
<1>7. CASE SetupAttribution \/ OnStepStart \/ OnStep \/ WriteReport \/ Exit \/ Capture \/ UNCHANGED vars
  BY <1>1, <1>7, <1>3
     DEF SetupAttribution, OnStepStart, OnStep, WriteReport, Exit, Capture, server_vars, vars
<1> QED BY <1>1, <1>3, <1>4, <1>5, <1>6, <1>7 DEF Next

LEMMA StillGrounded ==
  ASSUME NEW m, NEW now, NEW later, GroundedIn(m, now),
         \A t \in Targets : Follows(now[t], later[t], t)
  PROVE  GroundedIn(m, later)
<1>1. ASSUME NEW t \in DOMAIN m.after PROVE Follows(m.after[t], later[t], t)
  <2>1. t \in Targets /\ Follows(m.after[t], now[t], t) /\ Follows(now[t], later[t], t)
    BY DEF GroundedIn
  <2> QED BY <2>1, FollowsOn
<1> QED BY <1>1 DEF GroundedIn

LEMMA NothingGrounded ==
  ASSUME NEW now
  PROVE  GroundedIn(NoMetrics, now)
<1>1. DOMAIN NoMetrics.before = {} /\ DOMAIN NoMetrics.after = {}
  BY EmptyDomain DEF NoMetrics
<1> QED BY <1>1 DEF GroundedIn

LEMMA InitLInv == Init => LInv
<1> SUFFICES ASSUME Init PROVE LInv
  OBVIOUS
<1>1. DOMAIN prev = {} /\ DOMAIN evidence = {} /\ baseline = NoMetrics
  BY EmptyDomain DEF Init
<1> QED BY <1>1, NothingGrounded DEF LInv

LEMMA NextLInv == IInv /\ IInv' /\ LInv /\ [Next]_vars => LInv'
<1> SUFFICES ASSUME IInv, IInv', LInv, [Next]_vars PROVE LInv'
  OBVIOUS
<1>1. PICK now, later : now = server /\ later = server'
  OBVIOUS
<1>2. \A t \in Targets : Follows(now[t], later[t], t)
  BY <1>1, ServersGoOn
<1>3. \A m : GroundedIn(m, now) => GroundedIn(m, later)
  BY <1>2, StillGrounded
<1>4. /\ GroundedIn(baseline, later)
      /\ \A i \in DOMAIN evidence :
           GroundedIn(evidence[i].failing, later) /\ GroundedIn(evidence[i].baseline, later)
  BY <1>1, <1>3 DEF LInv
<1>5. ASSUME NEW t \in DOMAIN prev PROVE Follows(prev[t], later[t], t)
  <2>1. t \in Targets /\ Follows(prev[t], now[t], t)
    BY <1>1 DEF LInv, IInv, TypeOK
  <2> QED BY <1>2, <2>1, FollowsOn
<1>6. ASSUME NEW up \in SUBSET Targets, NEW at, NEW t \in up
      PROVE  /\ Fetch(up, at)[t].families = now[t].families
             /\ Fetch(up, at)[t].served = now[t].served /\ Fetch(up, at)[t].boots = now[t].boots
  BY <1>1 DEF Fetch
<1>7. ASSUME NEW up \in SUBSET Targets, NEW at, NEW t \in DOMAIN Fetch(up, at)
      PROVE  t \in Targets /\ Follows(Fetch(up, at)[t], now[t], t)
  <2>1. t \in up /\ t \in Targets /\ Snapshot(now[t], t)
    BY <1>1, ServerSnapshot DEF Fetch
  <2> QED BY <1>6, <2>1, CopyFollows
<1>8. CASE UNCHANGED ramp_vars
  BY <1>1, <1>4, <1>5, <1>8 DEF LInv, ramp_vars
<1>9. CASE SetupAttribution
  <2>1. PICK up \in SUBSET Targets : prev' = Fetch(up, -1)
    BY <1>9 DEF SetupAttribution
  <2>2. UNCHANGED <<server, baseline, evidence>>
    BY <1>9 DEF SetupAttribution, server_vars
  <2>3. \A t \in DOMAIN prev' : Follows(prev'[t], server'[t], t)
    BY <1>1, <1>7, <2>1, <2>2
  <2> QED BY <1>1, <1>4, <2>2, <2>3 DEF LInv
<1>10. CASE OnStep
  <2>1. PICK up \in SUBSET Targets, verdict \in Verdicts, gen \in Generators :
          LET metrics == [step |-> nextIndex, before |-> prev, after |-> Fetch(up, nextIndex),
                          total |-> gen.total, limited |-> gen.limited]
              ev == [failing |-> metrics, baseline |-> baseline]
              ranks == IF Due(verdict) THEN {nextIndex} ELSE {}
          IN  /\ baseline' = NextBaseline(verdict, metrics)
              /\ evidence' = Store(evidence, ranks, ev)
              /\ prev' = NextPrev(metrics.after)
    BY <1>10 DEF OnStep
  <2>2. PICK after, metrics, ev, ranks :
          /\ after = Fetch(up, nextIndex)
          /\ metrics = [step |-> nextIndex, before |-> prev, after |-> after,
                         total |-> gen.total, limited |-> gen.limited]
          /\ ev = [failing |-> metrics, baseline |-> baseline]
          /\ ranks = IF Due(verdict) THEN {nextIndex} ELSE {}
    OBVIOUS
  <2>3. /\ metrics.before = prev /\ metrics.after = after
        /\ ev.failing = metrics /\ ev.baseline = baseline
    BY <2>2
  <2>4. /\ baseline' = IF verdict.pass THEN metrics ELSE baseline
        /\ evidence' = Store(evidence, ranks, ev) /\ prev' = after
    BY <2>1, <2>2, <2>3 DEF NextBaseline, NextPrev
  <2>5. UNCHANGED server /\ later = now
    BY <1>1, <1>10 DEF OnStep, server_vars
  <2>6. \A t \in DOMAIN after : t \in Targets /\ Follows(after[t], now[t], t)
    BY <1>7, <2>2
  <2>7. GroundedIn(metrics, later)
    <3>1. DOMAIN metrics.before \subseteq Targets
      BY <2>3 DEF IInv, TypeOK
    <3>2. ASSUME NEW t \in DOMAIN metrics.before \cap DOMAIN metrics.after
          PROVE  Follows(metrics.before[t], metrics.after[t], t)
      <4>1. Follows(prev[t], now[t], t)
        BY <1>1, <2>3 DEF LInv
      <4>2. after[t].families = now[t].families /\ after[t].served = now[t].served
            /\ after[t].boots = now[t].boots
        BY <1>6, <2>2, <2>3 DEF Fetch
      <4> QED BY <2>3, <4>1, <4>2, FollowsCopy
    <3> QED BY <2>3, <2>5, <2>6, <3>1, <3>2 DEF GroundedIn
  <2>8. GroundedIn(baseline', later)
    BY <1>4, <2>4, <2>7
  <2>9. ASSUME NEW i \in DOMAIN evidence'
        PROVE  GroundedIn(evidence'[i].failing, later) /\ GroundedIn(evidence'[i].baseline, later)
    <3>1. evidence'[i] = ev \/ (i \in DOMAIN evidence /\ evidence'[i] = evidence[i])
      BY <2>4 DEF Store
    <3> QED BY <1>4, <2>3, <2>7, <3>1
  <2>10. \A t \in DOMAIN prev' : Follows(prev'[t], later[t], t)
    BY <2>4, <2>5, <2>6
  <2> QED BY <1>1, <2>8, <2>9, <2>10 DEF LInv
<1>11. CASE Exit
  <2>1. DOMAIN prev' = {} /\ DOMAIN evidence' = {} /\ baseline' = NoMetrics
    BY <1>11, EmptyDomain DEF Exit
  <2> QED BY <2>1, NothingGrounded DEF LInv
<1>12. CASE \/ \E t \in Targets : Serve(t) \/ Restart(t)
            \/ OnStepStart \/ WriteReport \/ Capture \/ UNCHANGED vars
  <2>1. UNCHANGED ramp_vars
    BY <1>12 DEF Serve, Restart, OnStepStart, WriteReport, Capture, ramp_vars, vars
  <2> QED BY <1>8, <2>1
<1> QED BY <1>9, <1>10, <1>11, <1>12 DEF Next

LEMMA LatencyInvariance == Spec => [](IInv /\ LInv)
<1>1. Init => IInv /\ LInv
  BY InitIInv, InitLInv
<1>2. IInv /\ LInv /\ [Next]_vars => (IInv /\ LInv)'
  BY NextIInv, NextLInv
<1> QED BY <1>1, <1>2, PTL DEF Spec

-------------------------------------------------------------------------------
(* The sums over the one or two histograms a target exposes.               *)

PairSum(e, S) ==
  (IF "read" \in S THEN e["read"] ELSE 0) + (IF "write" \in S THEN e["write"] ELSE 0)

LEMMA PairSumOf ==
  ASSUME NEW s, \A y \in s : y \in {"read", "write"}, NEW e, \A y \in s : e[y] \in Int,
         NEW x \in s
  PROVE  PairSum(e, s) = e[x] + PairSum(e, s \ {x})
<1>1. CASE x = "read"
  BY <1>1 DEF PairSum
<1>2. CASE x = "write"
  BY <1>2 DEF PairSum
<1> QED BY <1>1, <1>2

LEMMA SumDeltaIs ==
  ASSUME NEW m, NEW t, NEW S, S = Found(m, t), NEW e \in [S -> Int],
         \A x \in S : e[x] = Sample(m.after, t, x).sum - Sample(m.before, t, x).sum
  PROVE  SumDelta(m, t) = PairSum(e, S)
<1> DEFINE Some(s) == CHOOSE x \in s : TRUE
<1> DEFINE Term(x) == Sample(m.after, t, x).sum - Sample(m.before, t, x).sum
<1>1. S \subseteq {"read", "write"}
  BY DEF Found, Histograms
<1>2. PICK g : g = CHOOSE h : h = [s \in SUBSET Found(m, t) |->
                                    IF s = {} THEN 0 ELSE Term(Some(s)) + h[s \ {Some(s)}]]
  OBVIOUS
<1>3. SumDelta(m, t) = g[Found(m, t)]
  BY <1>2 DEF SumDelta, MapThenSumSet, MapThenFoldSet
<1>4. PICK h : h = [s \in SUBSET S |-> PairSum(e, s)]
  OBVIOUS
<1>5. \A s \in SUBSET S : s # {} => Some(s) \in s
  OBVIOUS
<1> HIDE DEF Some
<1>6. ASSUME NEW s \in SUBSET S
      PROVE  h[s] = IF s = {} THEN 0 ELSE Term(Some(s)) + h[s \ {Some(s)}]
  <2>1. CASE s = {}
    BY <1>4, <2>1 DEF PairSum
  <2>2. CASE s # {}
    <3>1. PICK x \in s : x = Some(s)
      BY <1>5, <2>2
    <3>2. x \in S /\ e[x] = Term(x) /\ s \ {x} \in SUBSET S
      OBVIOUS
    <3>3. h[s] = PairSum(e, s) /\ h[s \ {x}] = PairSum(e, s \ {x})
      BY <1>4, <3>2
    <3>4. PairSum(e, s) = e[x] + PairSum(e, s \ {x})
      <4>1. \A y \in s : y \in {"read", "write"} /\ e[y] \in Int
        BY <1>1
      <4> QED BY <4>1, PairSumOf
    <3> QED BY <2>2, <3>1, <3>2, <3>3, <3>4
  <2> QED BY <2>1, <2>2
<1> HIDE DEF Term
<1>7. h = [s \in SUBSET Found(m, t) |-> IF s = {} THEN 0 ELSE Term(Some(s)) + h[s \ {Some(s)}]]
  BY <1>4, <1>6
<1>8. g = [s \in SUBSET Found(m, t) |-> IF s = {} THEN 0 ELSE Term(Some(s)) + g[s \ {Some(s)}]]
  BY <1>2, <1>7
<1>9. \A s \in SUBSET S : g[s] = IF s = {} THEN 0 ELSE Term(Some(s)) + g[s \ {Some(s)}]
  BY <1>8
<1>10. g[{}] = 0 /\ h[{}] = 0
  BY <1>6, <1>9
<1>11. ASSUME NEW x \in S PROVE g[{x}] = h[{x}]
  <2>1. {x} \in SUBSET S /\ {x} # {} /\ Some({x}) = x /\ {x} \ {x} = {}
    BY <1>5
  <2> QED BY <1>6, <1>9, <1>10, <2>1
<1>12. g[S] = h[S]
  <2>1. CASE S = {}
    BY <1>10, <2>1
  <2>2. CASE S # {}
    <3>1. PICK x \in S : x = Some(S)
      BY <1>5, <2>2
    <3>2. S \ {x} = {} \/ \E y \in S : S \ {x} = {y}
      BY <1>1
    <3>3. g[S \ {x}] = h[S \ {x}]
      BY <1>10, <1>11, <3>2
    <3>4. S \in SUBSET S
      OBVIOUS
    <3>5. g[S] = Term(x) + g[S \ {x}] /\ h[S] = Term(x) + h[S \ {x}]
      BY <1>6, <1>9, <2>2, <3>1, <3>4
    <3> QED BY <3>3, <3>5
  <2> QED BY <2>1, <2>2
<1>13. h[S] = PairSum(e, S)
  BY <1>4
<1> QED BY <1>3, <1>12, <1>13

LEMMA CountDeltaIs ==
  ASSUME NEW m, NEW t, NEW S, S = Found(m, t), NEW e \in [S -> Int],
         \A x \in S : e[x] = Sample(m.after, t, x).count - Sample(m.before, t, x).count
  PROVE  CountDelta(m, t) = PairSum(e, S) % Word
<1> DEFINE Some(s) == CHOOSE x \in s : TRUE
<1> DEFINE Term(x) == Sample(m.after, t, x).count - Sample(m.before, t, x).count
<1>1. S \subseteq {"read", "write"}
  BY DEF Found, Histograms
<1>2. PICK g : g = CHOOSE h : h = [s \in SUBSET Found(m, t) |->
                                    IF s = {} THEN 0 ELSE Term(Some(s)) + h[s \ {Some(s)}]]
  OBVIOUS
<1>3. CountDelta(m, t) = g[Found(m, t)] % Word
  BY <1>2 DEF CountDelta, MapThenSumSet, MapThenFoldSet
<1>4. PICK h : h = [s \in SUBSET S |-> PairSum(e, s)]
  OBVIOUS
<1>5. \A s \in SUBSET S : s # {} => Some(s) \in s
  OBVIOUS
<1> HIDE DEF Some
<1>6. ASSUME NEW s \in SUBSET S
      PROVE  h[s] = IF s = {} THEN 0 ELSE Term(Some(s)) + h[s \ {Some(s)}]
  <2>1. CASE s = {}
    BY <1>4, <2>1 DEF PairSum
  <2>2. CASE s # {}
    <3>1. PICK x \in s : x = Some(s)
      BY <1>5, <2>2
    <3>2. x \in S /\ e[x] = Term(x) /\ s \ {x} \in SUBSET S
      OBVIOUS
    <3>3. h[s] = PairSum(e, s) /\ h[s \ {x}] = PairSum(e, s \ {x})
      BY <1>4, <3>2
    <3>4. PairSum(e, s) = e[x] + PairSum(e, s \ {x})
      <4>1. \A y \in s : y \in {"read", "write"} /\ e[y] \in Int
        BY <1>1
      <4> QED BY <4>1, PairSumOf
    <3> QED BY <2>2, <3>1, <3>2, <3>3, <3>4
  <2> QED BY <2>1, <2>2
<1> HIDE DEF Term
<1>7. h = [s \in SUBSET Found(m, t) |-> IF s = {} THEN 0 ELSE Term(Some(s)) + h[s \ {Some(s)}]]
  BY <1>4, <1>6
<1>8. g = [s \in SUBSET Found(m, t) |-> IF s = {} THEN 0 ELSE Term(Some(s)) + g[s \ {Some(s)}]]
  BY <1>2, <1>7
<1>9. \A s \in SUBSET S : g[s] = IF s = {} THEN 0 ELSE Term(Some(s)) + g[s \ {Some(s)}]
  BY <1>8
<1>10. g[{}] = 0 /\ h[{}] = 0
  BY <1>6, <1>9
<1>11. ASSUME NEW x \in S PROVE g[{x}] = h[{x}]
  <2>1. {x} \in SUBSET S /\ {x} # {} /\ Some({x}) = x /\ {x} \ {x} = {}
    BY <1>5
  <2> QED BY <1>6, <1>9, <1>10, <2>1
<1>12. g[S] = h[S]
  <2>1. CASE S = {}
    BY <1>10, <2>1
  <2>2. CASE S # {}
    <3>1. PICK x \in S : x = Some(S)
      BY <1>5, <2>2
    <3>2. S \ {x} = {} \/ \E y \in S : S \ {x} = {y}
      BY <1>1
    <3>3. g[S \ {x}] = h[S \ {x}]
      BY <1>10, <1>11, <3>2
    <3>4. S \in SUBSET S
      OBVIOUS
    <3>5. g[S] = Term(x) + g[S \ {x}] /\ h[S] = Term(x) + h[S \ {x}]
      BY <1>6, <1>9, <2>2, <3>1, <3>4
    <3> QED BY <3>3, <3>5
  <2> QED BY <2>1, <2>2
<1>13. h[S] = PairSum(e, S)
  BY <1>4
<1> QED BY <1>3, <1>12, <1>13

-------------------------------------------------------------------------------
(* So what the detector reads is what the target served.                   *)

\* A target did not serve as many operations as a uint64 counts.
CountsFit ==
  \A t \in Targets : server[t].served["read"].count + server[t].served["write"].count < Word

\* A step one of whose scrapes failed.
LEMMA NothingRead ==
  ASSUME NEW m, NEW t, t \notin DOMAIN m.before \cap DOMAIN m.after
  PROVE  /\ SumDelta(m, t) = 0 /\ CountDelta(m, t) = 0
         /\ Between(m, t).sum = 0 /\ Between(m, t).count = 0
<1>1. PICK S : S = Found(m, t)
  OBVIOUS
<1>2. S = {}
  BY <1>1 DEF Found, Measured, Has
<1>3. PICK e : e = [x \in S |-> 0]
  OBVIOUS
<1>4. e \in [S -> Int] /\ PairSum(e, S) = 0
  BY <1>2, <1>3 DEF PairSum
<1>5. SumDelta(m, t) = 0
  <2>1. \A x \in S : e[x] = Sample(m.after, t, x).sum - Sample(m.before, t, x).sum
    BY <1>2
  <2> QED BY <1>1, <1>4, <2>1, SumDeltaIs
<1>6. CountDelta(m, t) = 0
  <2>1. \A x \in S : e[x] = Sample(m.after, t, x).count - Sample(m.before, t, x).count
    BY <1>2
  <2>2. 0 % Word = 0
    BY WordAssumption
  <2> QED BY <1>1, <1>4, <2>1, <2>2, CountDeltaIs
<1> QED BY <1>5, <1>6 DEF Between

LEMMA DeltasAreTrue ==
  ASSUME NEW m, GroundedIn(m, server), NEW t \in Targets, SameProcess(m, t), CountsFit
  PROVE  /\ SumDelta(m, t) = Between(m, t).sum /\ CountDelta(m, t) = Between(m, t).count
         /\ Between(m, t).sum \in Nat /\ Between(m, t).count \in Nat
         /\ Between(m, t).count = 0 => Between(m, t).sum = 0
<1>1. CASE t \notin DOMAIN m.before \cap DOMAIN m.after
  BY <1>1, NothingRead
<1>2. CASE t \in DOMAIN m.before \cap DOMAIN m.after
  <2>1. PICK s, r, n : s = m.before[t] /\ r = m.after[t] /\ n = server[t]
    OBVIOUS
  <2>2. Follows(s, r, t) /\ Follows(r, n, t) /\ s.boots = r.boots
    BY <1>2, <2>1 DEF GroundedIn, SameProcess
  <2>3. Snapshot(s, t) /\ Snapshot(r, t) /\ Snapshot(n, t)
    BY <2>2 DEF Follows
  <2>4. PICK S : S = Found(m, t)
    OBVIOUS
  <2>5. DOMAIN s.families = Exposed[t] /\ DOMAIN r.families = Exposed[t]
    BY <2>3 DEF Snapshot
  <2>6. S = Histograms \cap Exposed[t]
    BY <1>2, <2>1, <2>4, <2>5 DEF Found, Measured, Has
  <2>7. PICK sums, counts :
          /\ sums = [x \in S |-> r.families[x].sum - s.families[x].sum]
          /\ counts = [x \in S |-> r.families[x].count - s.families[x].count]
    OBVIOUS
  <2>8. \A x \in S : s.families[x] \in Sampled /\ r.families[x] \in Sampled
    BY <2>3, <2>6 DEF Snapshot
  <2>9. sums \in [S -> Int] /\ counts \in [S -> Int]
    BY <2>7, <2>8 DEF Sampled
  <2>10. SumDelta(m, t) = PairSum(sums, S)
    <3>1. \A x \in S : sums[x] = Sample(m.after, t, x).sum - Sample(m.before, t, x).sum
      BY <2>1, <2>7 DEF Sample
    <3> QED BY <2>4, <2>9, <3>1, SumDeltaIs
  <2>11. CountDelta(m, t) = PairSum(counts, S) % Word
    <3>1. \A x \in S : counts[x] = Sample(m.after, t, x).count - Sample(m.before, t, x).count
      BY <2>1, <2>7 DEF Sample
    <3> QED BY <2>4, <2>9, <3>1, CountDeltaIs
  <2>12. /\ "read" \in Histograms /\ "write" \in Histograms
    BY DEF Histograms
  <2>13. PICK s1, s2, r1, r2, n1, n2 :
           /\ s1 = s.served["read"] /\ s2 = s.served["write"]
           /\ r1 = r.served["read"] /\ r2 = r.served["write"]
           /\ n1 = n.served["read"] /\ n2 = n.served["write"]
    OBVIOUS
  <2>14. /\ s1 \in Sampled /\ s2 \in Sampled /\ r1 \in Sampled /\ r2 \in Sampled
         /\ n1 \in Sampled /\ n2 \in Sampled
    BY <2>3, <2>12, <2>13 DEF Snapshot
  <2>24. /\ s1.sum \in Nat /\ s2.sum \in Nat /\ r1.sum \in Nat /\ r2.sum \in Nat
         /\ s1.count \in Nat /\ s2.count \in Nat /\ r1.count \in Nat /\ r2.count \in Nat
         /\ n1.count \in Nat /\ n2.count \in Nat
    BY <2>14 DEF Sampled
  <2>15. Grows(s1, r1) /\ Grows(s2, r2) /\ Grows(r1, n1) /\ Grows(r2, n2)
    BY <2>2, <2>12, <2>13 DEF Follows
  <2>25. /\ s1.sum <= r1.sum /\ s2.sum <= r2.sum /\ s1.count <= r1.count /\ s2.count <= r2.count
         /\ r1.count <= n1.count /\ r2.count <= n2.count
         /\ s1.count = r1.count => s1.sum = r1.sum
         /\ s2.count = r2.count => s2.sum = r2.sum
    BY <2>15 DEF Grows
  <2>16. /\ "read" \notin S => s1 = r1
         /\ "write" \notin S => s2 = r2
    BY <2>2, <2>6, <2>12, <2>13 DEF Follows
  <2>17. /\ "read" \in S => sums["read"] = r1.sum - s1.sum /\ counts["read"] = r1.count - s1.count
         /\ "write" \in S => sums["write"] = r2.sum - s2.sum /\ counts["write"] = r2.count - s2.count
    <3>1. \A x \in S : /\ sums[x] = r.families[x].sum - s.families[x].sum
                       /\ counts[x] = r.families[x].count - s.families[x].count
      BY <2>7
    <3>2. \A x \in S : InStep(s.families[x], r.families[x], s.served[x], r.served[x])
      BY <2>2, <2>6 DEF Follows
    <3> QED BY <2>13, <3>1, <3>2 DEF InStep
  <2>18. PICK sum, count : /\ sum = (r1.sum - s1.sum) + (r2.sum - s2.sum)
                           /\ count = (r1.count - s1.count) + (r2.count - s2.count)
    OBVIOUS
  <2>19. sum \in Nat /\ count \in Nat /\ (count = 0 => sum = 0)
    <3>1. sum \in Nat
      BY <2>18, <2>24, <2>25
    <3>2. count \in Nat
      BY <2>18, <2>24, <2>25
    <3>3. ASSUME count = 0 PROVE sum = 0
      <4>1. s1.count = r1.count /\ s2.count = r2.count
        BY <2>18, <2>24, <2>25, <3>3
      <4>2. s1.sum = r1.sum /\ s2.sum = r2.sum
        BY <2>25, <4>1
      <4> QED BY <2>18, <2>24, <4>2
    <3> QED BY <3>1, <3>2, <3>3
  <2>20. count < Word
    <3>1. n1.count + n2.count < Word
      BY <2>1, <2>13 DEF CountsFit
    <3> QED BY WordAssumption, <2>18, <2>24, <2>25, <3>1
  <2>21. PairSum(sums, S) = sum /\ PairSum(counts, S) = count
    <3>1. (IF "read" \in S THEN sums["read"] ELSE 0) = r1.sum - s1.sum
      BY <2>16, <2>17, <2>24
    <3>2. (IF "write" \in S THEN sums["write"] ELSE 0) = r2.sum - s2.sum
      BY <2>16, <2>17, <2>24
    <3>3. (IF "read" \in S THEN counts["read"] ELSE 0) = r1.count - s1.count
      BY <2>16, <2>17, <2>24
    <3>4. (IF "write" \in S THEN counts["write"] ELSE 0) = r2.count - s2.count
      BY <2>16, <2>17, <2>24
    <3> QED BY <2>18, <3>1, <3>2, <3>3, <3>4 DEF PairSum
  <2>22. count % Word = count
    BY WordAssumption, <2>19, <2>20
  <2>23. Between(m, t).sum = sum /\ Between(m, t).count = count
    <3>1. /\ Between(m, t).sum = (r1.sum + r2.sum) - (s1.sum + s2.sum)
          /\ Between(m, t).count = (r1.count + r2.count) - (s1.count + s2.count)
      BY <1>2, <2>1, <2>13 DEF Between, Served
    <3> QED BY <2>18, <2>24, <3>1
  <2> QED BY <2>10, <2>11, <2>19, <2>21, <2>22, <2>23
<1> QED BY <1>1, <1>2

\* A candidate bears the name of its detector.
LEMMA CandidateNames ==
  ASSUME NEW d \in {RateLimiterDetector} \cup (Kinds \X Targets), NEW ev, NEW c \in Detect(d, ev),
         c.name[1] = "backend-latency"
  PROVE  c.name = d /\ d[2] \in Targets /\ c \in BackendLatency(d, ev)
<1>1. \A score : \A x \in Candidate(d, score) : x.name = d
  BY DEF Candidate
<1>2. d[1] \in {"cpu-saturation", "backend-latency", "goroutine-growth", "cache-staleness",
                "rate-limiter-engaged"}
  BY DEF RateLimiterDetector, Kinds
<1>3. CASE d[1] = "cpu-saturation"
  <2>1. c \in CPUSaturation(d, ev)
    BY <1>3 DEF Detect
  <2> QED BY <1>1, <1>3, <2>1 DEF CPUSaturation
<1>4. CASE d[1] = "goroutine-growth"
  <2>1. c \in GoroutineGrowth(d, ev)
    BY <1>4 DEF Detect
  <2> QED BY <1>1, <1>4, <2>1 DEF GoroutineGrowth
<1>5. CASE d[1] = "cache-staleness"
  <2>1. c \in CacheStaleness(d, ev)
    BY <1>5 DEF Detect
  <2> QED BY <1>1, <1>5, <2>1 DEF CacheStaleness
<1>6. CASE d[1] = "rate-limiter-engaged"
  <2>1. c \in RateLimiter(d, ev)
    BY <1>6 DEF Detect
  <2> QED BY <1>1, <1>6, <2>1 DEF RateLimiter
<1>7. CASE d[1] = "backend-latency"
  <2>1. c \in BackendLatency(d, ev)
    BY <1>7 DEF Detect
  <2>2. c.name = d
    BY <1>1, <2>1 DEF BackendLatency
  <2>3. d # RateLimiterDetector
    BY <1>7 DEF RateLimiterDetector
  <2>4. d[2] \in Targets
    BY <2>3
  <2> QED BY <2>1, <2>2, <2>4
<1> QED BY <1>2, <1>3, <1>4, <1>5, <1>6, <1>7

LEMMA LatencyHolds == IInv /\ LInv /\ CountsFit => LatencyOfTheStep
<1> SUFFICES ASSUME IInv, LInv, CountsFit, NEW i \in DOMAIN ranked, NEW c \in LatencyCauses(i),
                    NEW t, t = c.name[2], NEW ev, ev = evidence[i],
                    SameProcess(ev.failing, t), SameProcess(ev.baseline, t)
             PROVE  c.score = TrueScore(ev, t)
  BY DEF LatencyOfTheStep
<1>1. c \in Rank(ev, detectors) /\ c.name[1] = "backend-latency" /\ i \in DOMAIN evidence
  BY DEF LatencyCauses, IInv, RankedAreDue, TypeOK
<1>2. PICK d \in detectors : c \in Detect(d, ev)
  BY <1>1 DEF Rank
<1>3. t = d[2] /\ t \in Targets /\ c \in BackendLatency(d, ev)
  <2>1. d \in {RateLimiterDetector} \cup (Kinds \X Targets)
    BY DEF IInv, TypeOK
  <2> QED BY <1>1, <1>2, <2>1, CandidateNames
<1>4. GroundedIn(ev.failing, server) /\ GroundedIn(ev.baseline, server)
  BY <1>1 DEF LInv
<1>5. PICK now, base : now = Between(ev.failing, t) /\ base = Between(ev.baseline, t)
  OBVIOUS
<1>6. /\ SumDelta(ev.failing, t) = now.sum /\ CountDelta(ev.failing, t) = now.count
      /\ now.sum \in Nat /\ now.count \in Nat
  BY <1>3, <1>4, <1>5, DeltasAreTrue
<1>7. /\ SumDelta(ev.baseline, t) = base.sum /\ CountDelta(ev.baseline, t) = base.count
      /\ base.sum \in Nat /\ base.count \in Nat /\ (base.count = 0 => base.sum = 0)
  BY <1>3, <1>4, <1>5, DeltasAreTrue
<1>8. ~HasBaseline(ev) => base.sum = 0
  <2>1. DOMAIN NoMetrics.before = {}
    BY EmptyDomain DEF NoMetrics
  <2> QED BY <1>5, <2>1, NothingRead DEF HasBaseline
<1>9. PICK score : /\ c.score = score /\ now.count # 0
                   /\ score = IF HasBaseline(ev) /\ base.count # 0 /\ base.sum > 0
                              THEN Excess(now.sum, now.count, base.sum, base.count)
                              ELSE (1000 * now.sum) \div now.count
  <2>1. \A x : \A y \in Candidate(d, x) : y.score = x
    BY DEF Candidate
  <2> QED BY <1>3, <1>6, <1>7, <2>1 DEF BackendLatency, HasAverage
<1>10. TrueScore(ev, t) = IF base.sum > 0 THEN Excess(now.sum, now.count, base.sum, base.count)
                          ELSE (1000 * now.sum) \div now.count
  BY <1>5, <1>9 DEF TrueScore
<1>11. (HasBaseline(ev) /\ base.count # 0 /\ base.sum > 0) <=> base.sum > 0
  BY <1>7, <1>8
<1> QED BY <1>9, <1>10, <1>11

-------------------------------------------------------------------------------
(* What follows.                                                           *)

\* The variables of the attribution keep their types: no step is counted twice
\* or left out by the two hooks, and no profile is of a step the ramp never ran.
THEOREM TypeCorrect == Spec => []TypeOK
<1>1. IInv => TypeOK
  BY DEF IInv
<1> QED BY <1>1, Invariance, PTL

\* The report names causes in the cluster only for steps that failed while the
\* generator had resources to spare, whatever was scraped and whatever restarted.
THEOREM BlameIsEarned == Spec => []BlamesOnlyFailures
<1>1. IInv => BlamesOnlyFailures
  BY DEF IInv
<1> QED BY <1>1, Invariance, PTL

\* LastPass says of a step what Max says of the set of those that passed.
LEMMA LastPassIsMax ==
  ASSUME NEW n \in Nat, NEW k \in Int, LastPass(Passed, n, k), NEW earlier,
         earlier = {j \in Passed : j < n}, n <= Len(steps), steps \in Seq(Verdicts)
  PROVE  k = IF earlier = {} THEN -1 ELSE Max(earlier)
<1>1. \A j \in earlier : j \in 0..n - 1 /\ j \in Passed
  BY LenProperties DEF Passed
<1>2. k # -1 => k \in earlier
  BY DEF LastPass
<1>3. \A j \in earlier : j <= k /\ j >= 0
  BY <1>1 DEF LastPass
<1>4. CASE earlier = {}
  BY <1>2, <1>4
<1>5. CASE earlier # {}
  <2>1. k \in earlier
    <3>1. PICK j \in earlier : j \in Nat
      BY <1>1, <1>5
    <3> QED BY <1>2, <1>3, <3>1
  <2>2. \A j \in earlier : j \in Int
    BY <1>1
  <2>3. \A j \in earlier : (\A l \in earlier : j >= l) => j = k
    BY <1>3, <2>1, <2>2
  <2>4. \A l \in earlier : k >= l
    BY <1>3, <2>2
  <2> QED BY <1>5, <2>1, <2>3, <2>4 DEF Max
<1> QED BY <1>4, <1>5

\* A failing step is always compared with the last step that passed before it,
\* however many limited or failing ones lie between.
THEOREM BaselineIsLastPass == Spec => []JudgedByLastPass
<1>1. IInv => JudgedByLastPass
  <2> SUFFICES ASSUME IInv, NEW i \in DOMAIN evidence
               PROVE  evidence[i].baseline.step =
                        IF {j \in Passed : j < i} = {} THEN -1 ELSE Max({j \in Passed : j < i})
    BY DEF JudgedByLastPass
  <2>1. steps \in Seq(Verdicts) /\ Len(steps) \in Nat /\ i \in 0..Len(steps) - 1
    BY LenProperties DEF IInv, TypeOK, RankedAreDue
  <2>2. PICK k : k = evidence[i].baseline.step /\ LastPass(Passed, i, k)
    BY DEF IInv, Judged
  <2>3. k \in Int /\ i \in Nat /\ i <= Len(steps)
    BY <2>1, <2>2 DEF LastPass
  <2> QED BY <2>1, <2>2, <2>3, LastPassIsMax
<1> QED BY <1>1, Invariance, PTL

\* What a step is judged on was counted during that step alone, also when
\* earlier scrapes failed.
THEOREM EvidenceIsOfTheStep == Spec => []EvidenceOfOneStep
<1>1. IInv => EvidenceOfOneStep
  BY DEF IInv
<1> QED BY <1>1, Invariance, PTL

\* A profile is named after the step during which it was asked for, though it
\* may be written during a later one.
THEOREM ProfilesAreNamedRight == Spec => []ProfileNamesItsStep
<1>1. IInv => ProfileNamesItsStep
  BY DEF IInv, Labelled, ProfileNamesItsStep
<1> QED BY <1>1, Invariance, PTL

\* As long as no target served as many operations as a uint64 counts, a latency
\* score says how much slower the target served this step's operations than the
\* last passing step's, unless it restarted within one of the two: the snapshots
\* differ by what was served in between, whichever of its histograms exist.
THEOREM LatencyIsOfTheStep == Spec => [](CountsFit => LatencyOfTheStep)
<1>1. IInv /\ LInv => (CountsFit => LatencyOfTheStep)
  BY LatencyHolds
<1> QED BY <1>1, LatencyInvariance, PTL

\* Only a restart within one of the two steps compared can make the score read
\* as "definitely not the cause" (rank.go:44-48) when the backend was slow: the
\* finding about NoMisleadingZero has no other way to come about.
THEOREM OnlyRestartsMislead ==
  Spec => [](CountsFit =>
               \A i \in DOMAIN ranked : \A c \in LatencyCauses(i) :
                 LET ev == evidence[i]
                     t  == c.name[2]
                 IN  SameProcess(ev.failing, t) /\ SameProcess(ev.baseline, t) /\ c.score <= 0
                       => TrueScore(ev, t) <= 0)
<1>1. LatencyOfTheStep =>
        \A i \in DOMAIN ranked : \A c \in LatencyCauses(i) :
          LET ev == evidence[i]
              t  == c.name[2]
          IN  SameProcess(ev.failing, t) /\ SameProcess(ev.baseline, t) /\ c.score <= 0
                => TrueScore(ev, t) <= 0
  BY DEF LatencyOfTheStep
<1> QED BY <1>1, LatencyIsOfTheStep, PTL

================================================================================
