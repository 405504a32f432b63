---------------------------------- MODULE Rank ----------------------------------
(***************************************************************************)
(* The detectors of internal/attrib: from the metrics a target exposed     *)
(* before and after a failing step to candidate causes with scores         *)
(* (rank.go), and which detectors a target gets (build.go).                *)
(*                                                                         *)
(* A snapshot maps the metric families a target exposes to samples, summed *)
(* over their labels.  A step's metrics are two partial maps from targets  *)
(* to snapshots and what the generator counted.  Scores are the code's     *)
(* percentages, rounded to integers; the window's length, the same for     *)
(* every candidate of a step, is left out of the CPU score.                *)
(***************************************************************************)
EXTENDS Integers, FiniteSetsExt

CONSTANT Word   \* 2^64: histogram counts are uint64 and their difference wraps

ASSUME WordAssumption == Word \in Nat \ {0}

Histograms == {"read", "write"}
Metrics == Histograms \cup {"cpu", "goroutines", "events", "stale"}

\* StepMetrics' zero value, a step that was never measured.
NoMetrics == [step |-> -1, before |-> <<>>, after |-> <<>>, total |-> 0, limited |-> 0]

HasBaseline(ev) == ev.baseline # NoMetrics

-------------------------------------------------------------------------------
(* Which detectors a target gets.                                          *)

Kinds == {"cpu-saturation", "backend-latency", "goroutine-growth", "cache-staleness"}

Required == [k \in Kinds |->
  CASE k = "cpu-saturation" -> {"cpu"}
    [] k = "backend-latency" -> Histograms
    [] k = "goroutine-growth" -> {"goroutines"}
    [] k = "cache-staleness" -> {"events", "stale"}]

\* One latency histogram is enough.
Buildable(k, exposed) ==
  IF k = "backend-latency" THEN Required[k] \cap exposed # {} ELSE Required[k] \subseteq exposed

BuildDetectors(t, exposed) == {<<k, t>> : k \in {x \in Kinds : Buildable(x, exposed)}}

\* Needs no target; a setup adds it once.
RateLimiterDetector == <<"rate-limiter-engaged", "generator">>

-------------------------------------------------------------------------------
(* What the detectors read.                                                *)

Has(snaps, t, x) == t \in DOMAIN snaps /\ x \in DOMAIN snaps[t].families

Sample(snaps, t, x) == snaps[t].families[x]

Measured(m, t, x) == Has(m.before, t, x) /\ Has(m.after, t, x)

DeltaCounter(m, t, x) == Sample(m.after, t, x).value - Sample(m.before, t, x).value

Found(m, t) == {x \in Histograms : Measured(m, t, x)}

\* The average over all time.
MutSumDelta(m, t) == MapThenSumSet(LAMBDA x : Sample(m.after, t, x).sum, Found(m, t))

SumDelta(m, t) ==
  MapThenSumSet(LAMBDA x : Sample(m.after, t, x).sum - Sample(m.before, t, x).sum, Found(m, t))

CountDelta(m, t) ==
  MapThenSumSet(LAMBDA x : Sample(m.after, t, x).count - Sample(m.before, t, x).count,
                Found(m, t)) % Word

\* combinedHistogramAvg has a value.
HasAverage(m, t) == CountDelta(m, t) # 0

-------------------------------------------------------------------------------
(* The detectors: each yields a candidate, or none for want of data.       *)

NotNegative(n) == IF n < 0 THEN 0 ELSE n

\* By how many percent x / y exceeds u / v.
Excess(x, y, u, v) == NotNegative((100 * x * v) \div (y * u) - 100)

\* \div for a divisor of either sign: counters fall when a target restarts.
Quotient(x, y) == IF y < 0 THEN (-x) \div (-y) ELSE x \div y

Candidate(d, score) == {[name |-> d, score |-> score]}

CPUSaturation(d, ev) ==
  IF Measured(ev.failing, d[2], "cpu")
  THEN Candidate(d, 100 * DeltaCounter(ev.failing, d[2], "cpu")) ELSE {}

\* A baseline average of zero or less is no baseline.
BackendLatency(d, ev) ==
  LET t == d[2]
      sum == SumDelta(ev.failing, t)
      count == CountDelta(ev.failing, t)
      base == ev.baseline
  IN  IF ~HasAverage(ev.failing, t) THEN {}
      ELSE IF HasBaseline(ev) /\ HasAverage(base, t) /\ SumDelta(base, t) > 0
           THEN Candidate(d, Excess(sum, count, SumDelta(base, t), CountDelta(base, t)))
           ELSE Candidate(d, (1000 * sum) \div count)

\* A gauge: only the scrapes at the end of the two steps count.
GoroutineGrowth(d, ev) ==
  LET Gauge(snaps) == Sample(snaps, d[2], "goroutines").value
      now == Gauge(ev.failing.after)
      base == IF Has(ev.baseline.after, d[2], "goroutines") THEN Gauge(ev.baseline.after) ELSE now
  IN  IF Has(ev.failing.after, d[2], "goroutines")
      THEN Candidate(d, IF base > 0 THEN Excess(now, 1, base, 1) ELSE 0) ELSE {}

CacheStaleness(d, ev) ==
  LET m == ev.failing
  IN  IF /\ Measured(m, d[2], "stale") /\ Measured(m, d[2], "events")
         /\ DeltaCounter(m, d[2], "events") # 0
      THEN Candidate(d, Quotient(100 * DeltaCounter(m, d[2], "stale"),
                                   DeltaCounter(m, d[2], "events"))) ELSE {}

RateLimiter(d, ev) ==
  IF ev.failing.total = 0 THEN {}
  ELSE Candidate(d, (100 * ev.failing.limited) \div ev.failing.total)

Detect(d, ev) ==
  CASE d[1] = "cpu-saturation" -> CPUSaturation(d, ev)
    [] d[1] = "backend-latency" -> BackendLatency(d, ev)
    [] d[1] = "goroutine-growth" -> GoroutineGrowth(d, ev)
    [] d[1] = "cache-staleness" -> CacheStaleness(d, ev)
    [] d[1] = "rate-limiter-engaged" -> RateLimiter(d, ev)

\* A report lists them by falling score, which the scores say already.
Rank(ev, detectors) == UNION {Detect(d, ev) : d \in detectors}

================================================================================
