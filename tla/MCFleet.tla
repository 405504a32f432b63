--------------------------------- MODULE MCFleet --------------------------------
(* Two pods and three kinds of a step's load: enough quick calls, too few    *)
(* calls (which a pod alone fails and a quick one's calls make up for), and  *)
(* calls with a slow one on a saturated generator.                           *)
EXTENDS Fleet

MCLimits == [m \in Metrics |-> 80]

MCAbort == [p99 |-> 2, errorRatePct |-> 40, deficitPct |-> 40, consecutiveBad |-> 1]

Calm == [m \in Metrics |-> 50]

Sample(l, o) == [latency |-> l, outcome |-> o]

MCLoads ==
  {[samples |-> <<Sample(1, "success"), Sample(0, "lockout"), Sample(2, "success")>>,
    health  |-> Calm],
   [samples |-> <<Sample(1, "server-error")>>, health |-> Calm],
   [samples |-> <<Sample(9, "success"), Sample(1, "success"), Sample(2, "success")>>,
    health  |-> [m \in Metrics |-> 90]]}

=================================================================================
