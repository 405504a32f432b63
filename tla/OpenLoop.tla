------------------------------- MODULE OpenLoop -------------------------------
(***************************************************************************)
(* driver.RunOpenLoop (internal/driver/driver.go): one scheduler goroutine *)
(* walks a schedule of intended arrival times and spawns a goroutine per   *)
(* arrival, without ever waiting for an earlier call; it then waits for    *)
(* all of them on a WaitGroup.  The clock, the context and the calls move  *)
(* independently of the scheduler.                                         *)
(*                                                                         *)
(* Time is an integer count of ticks since `start`.  Sample.FinishedAt and *)
(* Result carry no control and are left out.                               *)
(***************************************************************************)
EXTENDS Integers, Sequences, FiniteSets

CONSTANTS
  Rates,      \* values rateRPS may have (0 stands for every rate <= 0)
  Arrivals,   \* values arrival may have, known or not
  Second,     \* ticks in time.Second; a rate above it would truncate to a
              \* zero interval (in the code: above 10^9 per second)
  Duration,   \* the window's length
  Draws,      \* interarrival times a Poisson draw may return, 0 included:
              \* the exponential variate is truncated to whole ticks
  MaxBurst,   \* bound: zero draws happen only among the first MaxBurst calls
  MaxTime     \* bound on the clock

ASSUME DriverAssumption ==
  /\ Rates \subseteq Nat
  /\ Second \in Nat \ {0}
  /\ \A r \in Rates : r <= Second
  /\ Duration \in Nat
  /\ Draws \subseteq Nat
  /\ MaxBurst \in Nat
  /\ MaxTime \in Nat

\* Bound: positive intervals leave room for Duration + 1 calls, so this many
\* are never all used and the guard in Dispatch never blocks the scheduler.
MaxCalls == MaxBurst + Duration + 1

VARIABLES
  rate, arrival,  \* the arguments of the call
  pc,             \* where the scheduler goroutine is
  ret,            \* what RunOpenLoop returned
  now,            \* the clock
  next,           \* intended time of the next arrival
  calls,          \* one record per spawned goroutine, in spawning order
  wg,             \* the WaitGroup's counter
  ctxDone         \* the context is done

vars == <<rate, arrival, pc, ret, now, next, calls, wg, ctxDone>>

-------------------------------------------------------------------------------

Init ==
  /\ rate \in Rates
  /\ arrival \in Arrivals
  /\ pc = "call"
  /\ ret = "none"
  /\ now = 0
  /\ next = 0
  /\ calls = <<>>
  /\ wg = 0
  /\ ctxDone = FALSE

MeanInterval == Second \div rate

ValidArguments == rate > 0 /\ arrival \in {"poisson", "uniform"}

\* Lines 76-83: an impossible rate or arrival process is refused at once.
Reject ==
  /\ pc = "call"
  /\ ~ValidArguments
  /\ pc' = "returned"
  /\ ret' = "rejected"
  /\ UNCHANGED <<rate, arrival, now, next, calls, wg, ctxDone>>

Start ==
  /\ pc = "call"
  /\ ValidArguments
  /\ pc' = "loop"
  /\ next' = now
  /\ UNCHANGED <<rate, arrival, ret, now, calls, wg, ctxDone>>

InWindow == next <= Duration

\* Line 94: the arrival is in the future, so arm a timer and select.
Sleep ==
  /\ pc = "loop"
  /\ InWindow
  /\ next > now
  /\ pc' = "select"
  /\ UNCHANGED <<rate, arrival, ret, now, next, calls, wg, ctxDone>>

\* The timer fired.  Go picks at random when ctx is done as well, so a
\* cancelled context does not exclude this branch.
MutTimerFires == pc = "select"

TimerFires == pc = "select" /\ now >= next

\* Line 103: the arrival is already due -- the loop is late, or the interval
\* was zero -- and only a non-blocking look at ctx precedes the call.
CatchUp == pc = "loop" /\ InWindow /\ next <= now /\ ~ctxDone

Interval ==
  IF arrival = "poisson"
  THEN {d \in Draws : d > 0 \/ Len(calls) < MaxBurst}
  ELSE {MeanInterval}

\* A schedule that restarts from the present: coordinated omission.
MutAdvance(d) == next' = now + d

\* Lines 122-126.
Advance(d) == next' = next + d

NewCall == [st |-> "spawned", intended |-> next, started |-> 0, samples |-> 0]

Dispatch ==
  /\ TimerFires \/ CatchUp
  /\ Len(calls) < MaxCalls
  /\ calls' = Append(calls, NewCall)
  /\ wg' = wg + 1
  /\ \E d \in Interval : Advance(d)
  /\ pc' = "loop"
  /\ UNCHANGED <<rate, arrival, ret, now, ctxDone>>

\* The scheduler sleeps through the timer without looking at ctx.
MutCanceled ==
  /\ ctxDone
  /\ pc = "loop" /\ InWindow /\ next <= now
  /\ pc' = "abort"
  /\ UNCHANGED <<rate, arrival, ret, now, next, calls, wg, ctxDone>>

\* Lines 98 and 105: ctx is seen to be done, in the select or before a call
\* that is due.
Canceled ==
  /\ ctxDone
  /\ \/ pc = "select"
     \/ pc = "loop" /\ InWindow /\ next <= now
  /\ pc' = "abort"
  /\ UNCHANGED <<rate, arrival, ret, now, next, calls, wg, ctxDone>>

LoopEnds ==
  /\ pc = "loop"
  /\ ~InWindow
  /\ pc' = "drain"
  /\ UNCHANGED <<rate, arrival, ret, now, next, calls, wg, ctxDone>>

\* A cancelled run that returns without waiting for the calls in flight.
MutReturn ==
  /\ \/ pc = "drain" /\ wg = 0 /\ ret' = "ok"
     \/ pc = "abort" /\ ret' = "canceled"
  /\ pc' = "returned"
  /\ UNCHANGED <<rate, arrival, now, next, calls, wg, ctxDone>>

\* wg.Wait() lets go: line 129 after the whole schedule, lines 100 and 106
\* after a cancellation.
Return ==
  /\ wg = 0
  /\ \/ pc = "drain" /\ ret' = "ok"
     \/ pc = "abort" /\ ret' = "canceled"
  /\ pc' = "returned"
  /\ UNCHANGED <<rate, arrival, now, next, calls, wg, ctxDone>>

Scheduler ==
  Reject \/ Start \/ Sleep \/ Dispatch \/ Canceled \/ LoopEnds \/ Return

-------------------------------------------------------------------------------
(* The goroutine of call i: lines 114-120.                                 *)

Begin(i) ==
  /\ calls[i].st = "spawned"
  /\ calls' = [calls EXCEPT ![i].st = "running", ![i].started = now]
  /\ UNCHANGED <<rate, arrival, pc, ret, now, next, wg, ctxDone>>

Finish(i) ==
  /\ calls[i].st = "running"
  /\ calls' = [calls EXCEPT ![i].st = "finished"]
  /\ UNCHANGED <<rate, arrival, pc, ret, now, next, wg, ctxDone>>

Deliver(i) ==
  /\ calls[i].st = "finished"
  /\ calls' = [calls EXCEPT ![i].st = "sampled", ![i].samples = @ + 1]
  /\ UNCHANGED <<rate, arrival, pc, ret, now, next, wg, ctxDone>>

\* The WaitGroup is released as soon as the task returns.
MutDone(i) ==
  \/ /\ calls[i].st = "finished"
     /\ wg' = wg - 1
     /\ calls' = [calls EXCEPT ![i].st = "released"]
     /\ UNCHANGED <<rate, arrival, pc, ret, now, next, ctxDone>>
  \/ /\ calls[i].st = "released"
     /\ calls' = [calls EXCEPT ![i].st = "done", ![i].samples = @ + 1]
     /\ UNCHANGED <<rate, arrival, pc, ret, now, next, wg, ctxDone>>

\* The deferred wg.Done(), after onSample.
Done(i) ==
  /\ calls[i].st = "sampled"
  /\ calls' = [calls EXCEPT ![i].st = "done"]
  /\ wg' = wg - 1
  /\ UNCHANGED <<rate, arrival, pc, ret, now, next, ctxDone>>

Call(i) == Begin(i) \/ Finish(i) \/ Deliver(i) \/ Done(i)

Cancel ==
  /\ ~ctxDone
  /\ pc # "returned"
  /\ ctxDone' = TRUE
  /\ UNCHANGED <<rate, arrival, pc, ret, now, next, calls, wg>>

\* Time is counted from the call's `start`.
Tick ==
  /\ now < MaxTime
  /\ pc \notin {"call", "returned"}
  /\ now' = now + 1
  /\ UNCHANGED <<rate, arrival, pc, ret, next, calls, wg, ctxDone>>

Next ==
  \/ Scheduler
  \/ \E i \in DOMAIN calls : Call(i)
  \/ Cancel
  \/ Tick

Spec == Init /\ [][Next]_vars

\* Goroutines that can run do run, and a Task returns (a Task that hangs
\* hangs RunOpenLoop with it).  Nothing is assumed of the clock.
FairSpec ==
  /\ Spec
  /\ WF_vars(Scheduler)
  /\ WF_vars(\E i \in DOMAIN calls : Call(i))

-------------------------------------------------------------------------------

CallStates == {"spawned", "running", "finished", "sampled", "done"}

TypeOK ==
  /\ rate \in Rates
  /\ arrival \in Arrivals
  /\ pc \in {"call", "loop", "select", "drain", "abort", "returned"}
  /\ ret \in {"none", "ok", "canceled", "rejected"}
  /\ now \in Nat
  /\ next \in Nat
  /\ calls \in Seq([st : CallStates, intended : Nat, started : Nat, samples : Nat])
  /\ wg \in Nat
  /\ ctxDone \in BOOLEAN

\* When RunOpenLoop has returned -- after the schedule or after a cancel --
\* every goroutine it spawned has delivered its Sample, exactly once: the
\* caller may read what onSample collected without another wait.
SampledOnceAtReturn ==
  pc = "returned" => \A i \in DOMAIN calls : calls[i].samples = 1

\* No coordinated omission.  Under uniform arrivals the i-th call is timed
\* from start + (i-1) * mean however late the scheduler runs and however slow
\* the target is, and a window that ends by itself has issued every arrival
\* its length holds.
ScheduleKept ==
  arrival = "uniform" /\ calls # <<>> =>
    /\ \A i \in DOMAIN calls : calls[i].intended = (i - 1) * MeanInterval
    /\ ret = "ok" => Len(calls) = (Duration \div MeanInterval) + 1

\* A call never starts before its intended time, so OpenLoopLatency
\* (FinishedAt - IntendedAt) never under-reports the service time.
NeverEarly ==
  \A i \in DOMAIN calls :
    calls[i].st # "spawned" => calls[i].started >= calls[i].intended

\* RunOpenLoop implements the promise its callers rely on.
Delivered == {i \in DOMAIN calls : calls[i].samples > 0}

Window == INSTANCE LoadWindow WITH
  Calls  <- 1..MaxCalls,
  phase  <- IF pc \in {"call", "returned"} THEN "closed" ELSE "open",
  issued <- DOMAIN calls,
  landed <- Delivered,
  result <- IF ret = "rejected" THEN "none" ELSE ret

ImplementsLoadWindow == Window!Spec

\* The window ends: once its last moment is past or the context is done,
\* RunOpenLoop returns, even if the clock stops then, as long as Tasks return.
Returns == (ctxDone \/ now > Duration) ~> pc = "returned"

===============================================================================
