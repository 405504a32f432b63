-------------------------------- MODULE Verdict --------------------------------
(***************************************************************************)
(* The decisions of internal/ramp that both a live run and the aggregate   *)
(* command take: whether the generator was saturated during a step, whether*)
(* a step passes, and what a list of steps says about the cluster.         *)
(***************************************************************************)
EXTENDS Collect, Sequences, FiniteSets

CONSTANTS
  Metrics,   \* fields of GeneratorHealth
  Limits,    \* GeneratorThresholds: a limit per metric, 0 for "do not check"
  Abort      \* AbortCriteria: [p99, errorRatePct, deficitPct, consecutiveBad]

ASSUME VerdictAssumption ==
  /\ Limits \in [Metrics -> Nat]
  /\ Abort \in [p99 : Nat, errorRatePct : 0..100, deficitPct : 0..100,
                consecutiveBad : Nat \ {0}]

Reading == [Metrics -> Nat]

NoReading == [m \in Metrics |-> 0]

Exceeds(h) == \E m \in Metrics : Limits[m] > 0 /\ h[m] > Limits[m]

\* Keeping the latest reading instead of the worst.
MutWorstHealth(a, b) == b

\* The greater of the two in each field: the result may be a reading no
\* sample ever showed.
WorstHealth(a, b) == [m \in Metrics |-> IF a[m] > b[m] THEN a[m] ELSE b[m]]

\* The three comparisons of EvaluateStep, cross-multiplied so that no
\* division rounds.  An elapsed time of 0 achieves nothing (Snapshot).
LatencyOK(snap) == Abort.p99 > 0 => snap.p99 <= Abort.p99

ErrorsOK(snap) == 100 * AbortErrors(snap) <= Abort.errorRatePct * snap.total

ThroughputOK(snap) ==
  LET due == snap.offered * snap.elapsed
  IN  snap.offered > 0 =>
        IF snap.elapsed > 0
        THEN 100 * (due - snap.total) <= Abort.deficitPct * due
        ELSE 100 <= Abort.deficitPct

EvaluateStep(snap) == LatencyOK(snap) /\ ErrorsOK(snap) /\ ThroughputOK(snap)

\* A step report, as far as the run-level verdict looks at it.
Step == [offered : Nat, pass : BOOLEAN, limited : BOOLEAN]

AnyLimited(steps) == \E i \in DOMAIN steps : steps[i].limited

Passing(steps) == {i \in DOMAIN steps : steps[i].pass}

\* The greatest offered rate of a passing step; 0, the initial value of
\* breakingPoint, if there is none.
BreakingPoint(steps) ==
  IF Passing(steps) = {} THEN 0
  ELSE CHOOSE r \in {steps[i].offered : i \in Passing(steps)} :
         \A i \in Passing(steps) : steps[i].offered <= r

\* Saturation forgotten when a later step passed.
MutDetermineOutcome(steps) ==
  IF Passing(steps) # {}
  THEN [outcome |-> "converged", breakingPoint |-> BreakingPoint(steps)]
  ELSE IF AnyLimited(steps)
  THEN [outcome |-> "generator-limited", breakingPoint |-> 0]
  ELSE [outcome |-> "inconclusive", breakingPoint |-> 0]

DetermineOutcome(steps) ==
  IF AnyLimited(steps)
  THEN [outcome |-> "generator-limited", breakingPoint |-> 0]
  ELSE IF Passing(steps) = {}
  THEN [outcome |-> "inconclusive", breakingPoint |-> 0]
  ELSE [outcome |-> "converged", breakingPoint |-> BreakingPoint(steps)]

================================================================================
