--------------------------------- MODULE Health ---------------------------------
(***************************************************************************)
(* procSampler (internal/ramp/health.go): the CPU use it reports is the    *)
(* growth of the process's CPU time since the previous Sample, over the    *)
(* wall-clock time since then.  authload creates it when Setup is over.    *)
(* Reading /proc/self/stat can fail, for one when the process has run out  *)
(* of file descriptors.                                                    *)
(***************************************************************************)
EXTENDS Integers

CONSTANTS
  Cores,     \* CPU time the process can use per unit of wall-clock time
  MaxTime    \* bound on the clock

VARIABLES
  now,          \* wall-clock time since the process started
  cpuTime,      \* CPU time it has used
  created,      \* whether there is a sampler yet
  lastWall, lastCPUTime,
  reading       \* the latest CPUPercent, as CPU time over wall-clock time

vars == <<now, cpuTime, created, lastWall, lastCPUTime, reading>>

Nothing == [cpu |-> 0, wall |-> 0]

Init ==
  /\ now = 0 /\ cpuTime = 0
  /\ created = FALSE
  /\ lastWall = 0 /\ lastCPUTime = 0
  /\ reading = Nothing

\* The process loads, sets up, drives load: it uses its cores, or not.
Work ==
  /\ now < MaxTime
  /\ now' = now + 1
  /\ \E c \in 0..Cores : cpuTime' = cpuTime + c
  /\ UNCHANGED <<created, lastWall, lastCPUTime, reading>>

\* NewOSHealthSampler remembers the time; lastCPUTime has its zero value.
Create ==
  /\ ~created
  /\ created' = TRUE
  /\ lastWall' = now
  /\ UNCHANGED <<now, cpuTime, lastCPUTime, reading>>

Sample ==
  /\ created
  /\ reading' = IF now > lastWall THEN [cpu |-> cpuTime - lastCPUTime, wall |-> now - lastWall]
                                  ELSE Nothing
  /\ lastWall' = now
  /\ lastCPUTime' = cpuTime
  /\ UNCHANGED <<now, cpuTime, created>>

\* readProcessCPUTime returns zero with its error.
SampleFails ==
  /\ created
  /\ reading' = Nothing
  /\ lastWall' = now
  /\ lastCPUTime' = 0
  /\ UNCHANGED <<now, cpuTime, created>>

Next == Work \/ Create \/ Sample \/ SampleFails

Spec == Init /\ [][Next]_vars

\* methodology.md:283-293: CPU is reported from deltas, and the sampler only
\* ever under-reports.  In particular it never reports more CPU use than the
\* machine has.
NeverOverReports == reading.cpu <= Cores * reading.wall

================================================================================
