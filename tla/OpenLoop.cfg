CONSTANTS
  Rates = {0, 1}
  Arrivals = {"poisson", "uniform", "bursty"}
  Second = 2
  Duration = 3
  Draws = {0, 2}
  MaxBurst = 1
  MaxTime = 4
SPECIFICATION FairSpec
INVARIANTS TypeOK SampledOnceAtReturn ScheduleKept NeverEarly
PROPERTIES ImplementsLoadWindow Returns
CHECK_DEADLOCK FALSE
