----------------------------- MODULE MCAttribution ------------------------------
(* One scraped target and one that is only named for profiles, for TLC.    *)
EXTENDS Attribution

CONSTANTS auth, gone

MCTargets == {auth}
MCExposed == [t \in MCTargets |-> Metrics]

Increment(value, sum, count) == [value |-> value, sum |-> sum, count |-> count]

\* One quick read, or one slow write and more goroutines.
Quick == [x \in Metrics |->
  CASE x = "read" -> Increment(0, 1, 1)
    [] x = "write" -> Increment(0, 0, 0)
    [] x = "stale" -> Increment(0, 0, 0)
    [] OTHER -> Increment(1, 0, 0)]
Slow == [x \in Metrics |->
  CASE x = "read" -> Increment(0, 0, 0)
    [] x = "write" -> Increment(0, 3, 1)
    [] x = "stale" -> Increment(1, 0, 0)
    [] OTHER -> Increment(2, 0, 0)]

MCLoads == {Quick, Slow}
Budget(works, restarts) ==
  [work |-> [t \in MCTargets |-> works], restarts |-> [t \in MCTargets |-> restarts]]

\* Nothing happens, or the target works and restarts.
MCBudgets == {Budget(0, 0), Budget(2, 1)}

\* A step shorter than the client's timeout, the documented three minutes, and
\* no profiles.
MCConfigs == {[stepDuration |-> 10, capture |-> TRUE], [stepDuration |-> 180, capture |-> TRUE],
              [stepDuration |-> 10, capture |-> FALSE]}

MCGenerators == {[total |-> 4, limited |-> 1], [total |-> 0, limited |-> 0]}

\* A run that profiles is checked with targets that have nothing to do: scores
\* and profiles share no state but the step's index.
MCInit == Init /\ (config.capture <=> budget = Budget(0, 0))

MCSpec == MCInit /\ [][Next]_vars
================================================================================
