-------------------------------- MODULE Collect --------------------------------
(***************************************************************************)
(* internal/collect: the per-step accumulator of samples, its snapshot and *)
(* the merge of several pods' exports.  All operators are pure: Collector  *)
(* holds its mutex through every method, so each is one atomic step of the *)
(* module that uses it.                                                    *)
(*                                                                         *)
(* A latency is a whole number of units and the HDR histogram a count per  *)
(* bucket; bytes and the percentiles other than p99 feed reports only and  *)
(* are left out.  Rates per unit of time stay fractions: AchievedRPS is    *)
(* total / elapsed, and both parts are kept.                               *)
(***************************************************************************)
EXTENDS Integers, Functions

CONSTANTS
  LatencyFloor,    \* latencyFloorMicros
  LatencyCeiling   \* latencyCeilingMicros

ASSUME LatencyAssumption ==
  LatencyFloor \in Nat /\ LatencyCeiling \in Nat /\ LatencyFloor <= LatencyCeiling

Outcomes ==
  {"success", "lockout", "rate-limited", "timeout", "server-error", "client-error"}

Buckets == LatencyFloor..LatencyCeiling

Collector ==
  [total : Nat, outcomes : [Outcomes -> Nat], hist : [Buckets -> Nat]]

New ==
  [total |-> 0, outcomes |-> [o \in Outcomes |-> 0], hist |-> [b \in Buckets |-> 0]]

Clamp(latency) ==
  IF latency < LatencyFloor THEN LatencyFloor
  ELSE IF latency > LatencyCeiling THEN LatencyCeiling
  ELSE latency

\* Every sample counts, whatever its outcome.
Add(c, latency, outcome) ==
  [c EXCEPT !.total = @ + 1, !.outcomes[outcome] = @ + 1, !.hist[Clamp(latency)] = @ + 1]

\* hdrhistogram.ValueAtPercentile: the bucket of the sample of that rank, the
\* rank being pct% of the count rounded to the nearest; 0 when empty.
Percentile(hist, pct) ==
  LET n    == SumFunction(hist)
      rank == (pct * n + 50) \div 100
  IN  IF n = 0 THEN 0
      ELSE CHOOSE b \in DOMAIN hist :
             /\ SumFunctionOnSet(hist, {k \in DOMAIN hist : k <= b}) >= rank
             /\ SumFunctionOnSet(hist, {k \in DOMAIN hist : k < b}) < rank

Snapshot(c, offered, elapsed) ==
  [offered |-> offered, total |-> c.total, elapsed |-> elapsed,
   outcomes |-> c.outcomes, p99 |-> Percentile(c.hist, 99)]

\* MergeRaw on a set of exports: bucket by bucket, outcome by outcome.  Each
\* export r has the fields offered and data (a Collector).
Merged(raws) ==
  LET Sum(field) == SumFunctionOnSet(field, raws)
  IN  [total    |-> Sum([r \in raws |-> r.data.total]),
       outcomes |-> [o \in Outcomes |-> Sum([r \in raws |-> r.data.outcomes[o]])],
       hist     |-> [b \in Buckets |-> Sum([r \in raws |-> r.data.hist[b]])]]

OfferedBy(raws) == SumFunctionOnSet([r \in raws |-> r.offered], raws)

MergeRaw(raws, elapsed) == Snapshot(Merged(raws), OfferedBy(raws), elapsed)

\* The errors that may abort a step: everything but successes and lockouts.
AbortErrors(snap) == snap.total - snap.outcomes["success"] - snap.outcomes["lockout"]

================================================================================
