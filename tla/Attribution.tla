------------------------------ MODULE Attribution -------------------------------
(***************************************************************************)
(* Per-step attribution (cmd/authload/attribution.go): one scrape of every *)
(* target at startup and one at the end of each step, the last being the   *)
(* next step's "before"; a failing step is ranked against the last passing *)
(* one; CPU profiles are captured by goroutines nobody waits for.          *)
(*                                                                         *)
(* The targets are external: they count what they serve, and start again   *)
(* from zero when they restart.                                            *)
(***************************************************************************)
EXTENDS Rank, Sequences, TLC

CONSTANTS
  Targets,        \* observability.scrape
  Exposed,        \* the metrics each target's version exposes
  Loads,          \* what a target may do in one go: an increment per metric
  Generators,     \* what a step's generator may have counted: [total, limited]
  PprofTargets,   \* observability.pprof.targets; may name targets not scraped
  Configs,        \* load.ramp.stepDuration in seconds, pprof.captureAtEachStep:
                  \* [stepDuration, capture]
  ClientTimeout,  \* newMetricsClient's Timeout: 15 s
  MaxProfile,     \* the longest CPU profile: 30 s
  MaxSteps,       \* bound: steps of the ramp
  Budgets         \* bound: bursts of work and restarts of each target,
                  \* [work, restarts : [Targets -> Nat]]

ASSUME AttributionAssumption ==
  /\ Exposed \in [Targets -> SUBSET Metrics]
  /\ Loads \subseteq [Metrics -> [value : Nat, sum : Nat, count : Nat]]
  \* A histogram's sum is that of the observations it counts.
  /\ \A load \in Loads : \A x \in Histograms : load[x].count = 0 => load[x].sum = 0
  /\ MaxSteps \in Nat
  /\ Budgets \subseteq [work : [Targets -> Nat], restarts : [Targets -> Nat]]

VARIABLES
  pc,            \* the ramp: "start", "discard", "measuring", "ramped", "exited"
  config,        \* the configuration in use
  server,        \* per target: [families, served, boots]; served is never reset
  budget,        \* bursts of work and restarts left to each target
  detectors,     \* setup.detectors
  prev,          \* a.prev: the snapshots that start the next step
  baseline,      \* a.baseline: metrics of the last passing step
  ranked,        \* a.ranked: step index |-> candidates
  nextIndex,     \* a.nextIndex
  captures,      \* running goroutines: [target, label, of, st]; of is the step
                 \* that was measured when the profile began
  files,         \* profiles on disk, same fields; st is "partial" or "complete"
  steps,         \* the ramp's reports, in order
  report,        \* the causes writeReport lists, per step
  evidence       \* history: what each ranked step was judged on

server_vars == <<server, budget>>
ramp_vars == <<prev, baseline, ranked, nextIndex, steps, evidence>>
vars == <<pc, config, server, budget, detectors, prev, baseline, ranked, nextIndex,
          captures, files, steps, report, evidence>>

Zero == [value |-> 0, sum |-> 0, count |-> 0]

Init ==
  /\ pc = "start"
  /\ config \in Configs
  /\ server = [t \in Targets |-> [families |-> [x \in Exposed[t] |-> Zero],
                                  served |-> [x \in Histograms |-> Zero], boots |-> 0]]
  /\ budget \in Budgets
  /\ detectors = {} /\ prev = <<>> /\ baseline = NoMetrics
  /\ ranked = <<>> /\ nextIndex = 0
  /\ captures = {} /\ files = {}
  /\ steps = <<>> /\ report = <<>> /\ evidence = <<>>

-------------------------------------------------------------------------------
(* The targets.                                                            *)

Bump(s, by) == [value |-> s.value + by.value, sum |-> s.sum + by.sum, count |-> s.count + by.count]

\* Counters and histograms grow, the goroutine gauge is set.
Serve(t) ==
  /\ pc \in {"start", "discard", "measuring"} /\ budget.work[t] > 0
  /\ budget' = [budget EXCEPT !.work[t] = @ - 1]
  /\ \E load \in Loads :
       server' = [server EXCEPT
         ![t].families = [x \in Exposed[t] |->
                            IF x = "goroutines" THEN load[x] ELSE Bump(@[x], load[x])],
         ![t].served = [x \in Histograms |-> IF x \in Exposed[t] THEN Bump(@[x], load[x]) ELSE @[x]]]
  /\ UNCHANGED <<pc, config, detectors, ramp_vars, captures, files, report>>

Restart(t) ==
  /\ pc \in {"start", "discard", "measuring"} /\ budget.restarts[t] > 0
  /\ budget' = [budget EXCEPT !.restarts[t] = @ - 1]
  /\ server' = [server EXCEPT ![t].families = [x \in Exposed[t] |-> Zero], ![t].boots = @ + 1]
  /\ UNCHANGED <<pc, config, detectors, ramp_vars, captures, files, report>>

\* Fetch, from the targets that answer; at says at the end of which step.
Fetch(up, at) ==
  [t \in up |-> [at |-> at, families |-> server[t].families,
                 served |-> server[t].served, boots |-> server[t].boots]]

-------------------------------------------------------------------------------
(* The ramp's hooks.                                                       *)

\* setupAttribution: a target that does not answer has no detectors in this
\* run, whether it answers later or not.
SetupAttribution ==
  /\ pc = "start"
  /\ \E up \in SUBSET Targets :
       /\ prev' = Fetch(up, -1)
       /\ detectors' = {RateLimiterDetector}
                         \cup UNION {BuildDetectors(t, Exposed[t]) : t \in up}
  /\ pc' = "discard"
  /\ UNCHANGED <<config, server_vars, baseline, ranked, nextIndex, captures, files,
                 steps, report, evidence>>

\* The length of a profile.
ProfileDuration ==
  IF config.stepDuration < MaxProfile THEN config.stepDuration ELSE MaxProfile

\* Both hooks count.
MutOnStepStart ==
  /\ pc = "discard" /\ Len(steps) < MaxSteps
  /\ captures' = captures \cup
       {[target |-> t, label |-> nextIndex, of |-> Len(steps), st |-> "asked"] :
          t \in IF config.capture THEN PprofTargets \cap Targets ELSE {}}
  /\ nextIndex' = nextIndex + 1
  /\ pc' = "measuring"
  /\ UNCHANGED <<config, server_vars, detectors, prev, baseline, ranked, steps, evidence,
                 files, report>>

OnStepStart ==
  /\ pc = "discard" /\ Len(steps) < MaxSteps
  /\ captures' = captures \cup
       {[target |-> t, label |-> nextIndex, of |-> Len(steps), st |-> "asked"] :
          t \in IF config.capture THEN PprofTargets \cap Targets ELSE {}}
  /\ pc' = "measuring"
  /\ UNCHANGED <<config, server_vars, detectors, ramp_vars, files, report>>

Verdicts == {v \in [pass : BOOLEAN, limited : BOOLEAN] : ~(v.pass /\ v.limited)}

\* A limited step is ranked as well.
MutDue(verdict) == ~verdict.pass

Due(verdict) == ~verdict.pass /\ ~verdict.limited

\* Every step that is not ranked becomes the baseline.
MutNextBaseline(verdict, metrics) == IF Due(verdict) THEN baseline ELSE metrics

NextBaseline(verdict, metrics) == IF verdict.pass THEN metrics ELSE baseline

\* A target that did not answer keeps its older snapshot.
MutNextPrev(after) == after @@ prev

NextPrev(after) == after

\* Map m with val at the keys in at.
Store(m, at, val) ==
  [i \in at \cup DOMAIN m |-> IF i \in at THEN val ELSE m[i]]

OnStep ==
  /\ pc = "measuring"
  /\ \E up \in SUBSET Targets, verdict \in Verdicts, gen \in Generators :
       LET metrics == [step |-> nextIndex, before |-> prev, after |-> Fetch(up, nextIndex),
                       total |-> gen.total, limited |-> gen.limited]
           ev == [failing |-> metrics, baseline |-> baseline]
           ranks == IF Due(verdict) THEN {nextIndex} ELSE {}
       IN  /\ baseline' = NextBaseline(verdict, metrics)
           /\ ranked' = Store(ranked, ranks, Rank(ev, detectors))
           /\ evidence' = Store(evidence, ranks, ev)
           /\ prev' = NextPrev(metrics.after)
           /\ steps' = Append(steps, verdict)
  /\ nextIndex' = nextIndex + 1
  /\ pc' = "discard"
  /\ UNCHANGED <<config, server_vars, detectors, captures, files, report>>

\* The ramp has its result, and writeReport asks for each step's causes.
WriteReport ==
  /\ pc = "discard" /\ steps # <<>>
  /\ report' = [i \in 0..Len(steps) - 1 |-> IF i \in DOMAIN ranked THEN ranked[i] ELSE {}]
  /\ pc' = "ramped"
  /\ UNCHANGED <<config, server_vars, detectors, ramp_vars, captures, files>>

\* main returns, after the report or because the ramp was cancelled: what is
\* not on disk is gone, and the goroutines end where they are.
Exit ==
  /\ pc \in {"discard", "measuring", "ramped"}
  /\ pc' = "exited"
  /\ captures' = {} /\ detectors' = {} /\ prev' = <<>> /\ baseline' = NoMetrics
  /\ ranked' = <<>> /\ evidence' = <<>> /\ nextIndex' = 0 /\ steps' = <<>>
  /\ UNCHANGED <<config, server_vars, files, report>>

-------------------------------------------------------------------------------
(* CaptureCPUProfile, in a goroutine of its own.                           *)

Now(c, st) == [c EXCEPT !.st = st]

\* The client would give up before the profile is complete.
Refused == ClientTimeout > 0 /\ ClientTimeout <= ProfileDuration

Refuse(c) ==
  /\ c.st = "asked"
  /\ Refused
  /\ captures' = captures \ {c}
  /\ UNCHANGED files

\* The name is made up when the profile is here.
MutReceive(c) ==
  /\ c.st = "asked"
  /\ ~Refused
  /\ LET late == [c EXCEPT !.label = IF nextIndex < MaxSteps THEN nextIndex ELSE @]
     IN  /\ captures' = (captures \ {c}) \cup {Now(late, "writing")}
         /\ files' = files \cup {Now(late, "partial")}

\* The profile arrives and its file is created.
Receive(c) ==
  /\ c.st = "asked"
  /\ ~Refused
  /\ captures' = (captures \ {c}) \cup {Now(c, "writing")}
  /\ files' = files \cup {Now(c, "partial")}

Finish(c) ==
  /\ c.st = "writing"
  /\ captures' = captures \ {c}
  /\ files' = (files \ {Now(c, "partial")}) \cup {Now(c, "complete")}

\* No answer, an error status, or a failed write.
Fail(c) ==
  /\ c.st = "writing" \/ ~Refused
  /\ captures' = captures \ {c}
  /\ UNCHANGED files

Capture ==
  /\ \E c \in captures : Refuse(c) \/ Receive(c) \/ Finish(c) \/ Fail(c)
  /\ UNCHANGED <<pc, config, server_vars, detectors, ramp_vars, report>>

Next ==
  \/ \E t \in Targets : Serve(t) \/ Restart(t)
  \/ SetupAttribution \/ OnStepStart \/ OnStep \/ WriteReport \/ Exit
  \/ Capture

Spec == Init /\ [][Next]_vars

-------------------------------------------------------------------------------

Sampled == [value : Nat, sum : Nat, count : Nat]

Server(t) ==
  [families : [Exposed[t] -> Sampled], served : [Histograms -> Sampled], boots : Nat]

Profile(sts) ==
  [target : Targets, label : 0..MaxSteps - 1, of : 0..MaxSteps - 1, st : sts]

\* The types of the variables.
TypeOK ==
  /\ pc \in {"start", "discard", "measuring", "ramped", "exited"}
  /\ config \in Configs
  /\ DOMAIN server = Targets /\ \A t \in Targets : server[t] \in Server(t)
  /\ budget \in [work : [Targets -> Nat], restarts : [Targets -> Nat]]
  /\ detectors \subseteq {RateLimiterDetector} \cup (Kinds \X Targets)
  /\ DOMAIN prev \subseteq Targets
  /\ nextIndex \in 0..MaxSteps /\ baseline.step \in -1..MaxSteps - 1
  /\ DOMAIN ranked \subseteq 0..MaxSteps - 1 /\ DOMAIN evidence = DOMAIN ranked
  /\ steps \in Seq(Verdicts)
  /\ captures \subseteq Profile({"asked", "writing"})
  /\ files \subseteq Profile({"partial", "complete"})

Passed == {i \in 0..Len(steps) - 1 : steps[i + 1].pass}

\* The report blames the cluster in the steps that failed on a generator with
\* resources to spare, and in no other: of a passing step, or one the generator
\* limited, it says nothing.
BlamesOnlyFailures ==
  pc = "ramped" =>
    \A i \in DOMAIN report :
      report[i] = IF i \in Passed \/ steps[i + 1].limited THEN {}
                  ELSE Rank(evidence[i], detectors)

\* Every ranked step was judged against the last step that had passed by then,
\* or none, limited steps notwithstanding.
JudgedByLastPass ==
  \A i \in DOMAIN evidence :
    LET earlier == {j \in Passed : j < i}
    IN  evidence[i].baseline.step = IF earlier = {} THEN -1 ELSE Max(earlier)

\* What a step is blamed for happened between the end of the step before it
\* and its own end: scrapes that failed in between are not bridged.
EvidenceOfOneStep ==
  \A i \in DOMAIN evidence :
    LET m == evidence[i].failing
    IN  \A t \in DOMAIN m.before \cap DOMAIN m.after :
          m.before[t].at = i - 1 /\ m.after[t].at = i

\* However late it was written, a profile's name is that of the step during
\* which it was asked for.
ProfileNamesItsStep == \A f \in files : f.label = f.of

(* What a target really served, whether or not it restarted.               *)

Served(snaps, t) ==
  LET h == snaps[t].served
  IN  [sum |-> h["read"].sum + h["write"].sum, count |-> h["read"].count + h["write"].count]

\* The operations between the two scrapes of a step, if both succeeded.
Between(m, t) ==
  IF t \in DOMAIN m.before \cap DOMAIN m.after
  THEN [sum |-> Served(m.after, t).sum - Served(m.before, t).sum,
        count |-> Served(m.after, t).count - Served(m.before, t).count]
  ELSE [sum |-> 0, count |-> 0]

TrueScore(ev, t) ==
  LET now == Between(ev.failing, t)
      base == Between(ev.baseline, t)
  IN  IF now.count = 0 THEN 0
      ELSE IF base.sum > 0 THEN Excess(now.sum, now.count, base.sum, base.count)
      ELSE (1000 * now.sum) \div now.count

SameProcess(m, t) ==
  t \in DOMAIN m.before \cap DOMAIN m.after => m.before[t].boots = m.after[t].boots

LatencyCauses(i) == {c \in ranked[i] : c.name[1] = "backend-latency"}

\* Unless the target restarted within one of the two steps compared, a latency
\* score says how much slower it served this step's operations than those of
\* the last passing step: earlier operations do not dilute it.
LatencyOfTheStep ==
  \A i \in DOMAIN ranked : \A c \in LatencyCauses(i) :
    LET t == c.name[2]
        ev == evidence[i]
    IN  SameProcess(ev.failing, t) /\ SameProcess(ev.baseline, t) => c.score = TrueScore(ev, t)

\* rank.go:44-48: a detector without enough data excludes itself rather than
\* assign a zero that would rank as definitely not the cause.
NoMisleadingZero ==
  \A i \in DOMAIN ranked : \A c \in LatencyCauses(i) :
    c.score <= 0 => TrueScore(evidence[i], c.name[2]) <= 0
================================================================================
