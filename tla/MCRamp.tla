--------------------------------- MODULE MCRamp ---------------------------------
(* A plan of three steps, two calls per window, one checked health metric    *)
(* and one without a limit.                                                  *)
EXTENDS Ramp

MCLimits == [m \in Metrics |-> IF m = "cpu" THEN 80 ELSE 0]

MCAbort == [p99 |-> 2, errorRatePct |-> 40, deficitPct |-> 40, consecutiveBad |-> 2]

\* Quick success, success beyond the histogram's ceiling, lockout, error.
MCResults ==
  {[latency |-> 0, outcome |-> "success"], [latency |-> 9, outcome |-> "success"],
   [latency |-> 1, outcome |-> "lockout"], [latency |-> 1, outcome |-> "server-error"]}

MCReadings ==
  {[m \in Metrics |-> 50],
   [m \in Metrics |-> IF m = "cpu" THEN 90 ELSE 0],
   [m \in Metrics |-> IF m = "cpu" THEN 0 ELSE 90]}

=================================================================================
