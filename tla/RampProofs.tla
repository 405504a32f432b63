------------------------------- MODULE RampProofs -------------------------------
(***************************************************************************)
(* Proofs about Ramp, for every plan, every set of calls, results and      *)
(* readings: the safety properties its run checks, and that RunWithHooks   *)
(* implements RampContract.                                                *)
(*                                                                         *)
(* The invariant ties the loop's position to everything that lives beside  *)
(* it: the window, the rate, the collector, and one poller per step.       *)
(***************************************************************************)
EXTENDS Ramp, FiniteSetTheorems, SequenceTheorems, TLAPS

\* The rate of the n-th step of the plan.
Offered(n) == StartRPS + (n - 1) * StepRPS

\* RunOpenLoop executes exactly when the loop is inside it.
WindowOpen == phase = "open" <=> pc \in {"discard", "step"}

OnPlan ==
  /\ \A i \in 1..Len(steps) : steps[i].offered = Offered(i)
  /\ pc \notin {"decide", "returned"} => rate = Offered(Current)
  /\ pc = "decide" => Len(steps) > 0 /\ rate = Offered(Len(steps))
  /\ pc \in {"discard", "hook", "step", "join"} => Current <= MaxSteps /\ rate <= MaxRPS
  /\ Len(steps) <= MaxSteps

\* consecutiveBad counts the failing steps at the end of the list.
Trailing ==
  /\ consecutiveBad <= Len(steps)
  /\ \A i \in 1..Len(steps) : i > Len(steps) - consecutiveBad => ~steps[i].pass
  /\ consecutiveBad < Len(steps) => steps[Len(steps) - consecutiveBad].pass
  /\ pc \notin {"decide", "returned"} => consecutiveBad < Abort.consecutiveBad

\* Pollers of the steps before are done, those of the steps after not begun.
PollersPlaced ==
  /\ \A i \in 1..MaxSteps : i <= Len(steps) => pollers[i].st = "done"
  /\ \A i \in 1..MaxSteps : i > Current => pollers[i] = NoPoller
  /\ \A i \in 1..MaxSteps :
       i = Current =>
         CASE pc \in {"step", "join"} -> TRUE
           [] pc = "returned" -> pollers[i].st \in {"none", "done"}
           [] OTHER -> pollers[i] = NoPoller

\* The collector holds what landed in the window that is measured.
Counted ==
  /\ pc \in {"step", "join"} => collector.total = Cardinality(landed)
  /\ pc = "join" => landed = issued

\* A poller's worst reading is over a limit if one it saw was.
Watched ==
  \A i \in 1..MaxSteps :
    /\ Exceeds(pollers[i].worst) <=> \E h \in pollers[i].seen : Exceeds(h)
    /\ pollers[i].st \in {"waiting", "done"} => pollers[i].seen # {}

Marked ==
  \A i \in 1..Len(steps) :
    /\ steps[i].limited <=> Exceeds(pollers[i].worst)
    /\ ~(steps[i].pass /\ steps[i].limited)

\* One of the passing steps is the last.
LastPassing ==
  Passing(steps) = {} \/ \E k \in Passing(steps) : \A j \in Passing(steps) : j <= k

Ended == outcome.outcome = "none" <=> pc # "returned"

IInv ==
  /\ TypeOK
  /\ WindowOpen
  /\ OnPlan
  /\ Trailing
  /\ PollersPlaced
  /\ Counted
  /\ Watched
  /\ Marked
  /\ LastPassing
  /\ Ended

-------------------------------------------------------------------------------
(* Arithmetic of the plan.                                                 *)

LEMMA NextOffered == ASSUME NEW n \in Int PROVE Offered(n + 1) = Offered(n) + StepRPS
<1>1. StepRPS \in Int /\ StartRPS \in Int
  BY RampAssumption
<1>2. \A a, b \in Int : ((a + 1) - 1) * b = (a - 1) * b + b
  OBVIOUS
<1> QED BY <1>1, <1>2 DEF Offered

LEMMA OfferedRises ==
  ASSUME NEW i \in Nat, NEW j \in Nat
  PROVE  i <= j => Offered(i) <= Offered(j)
<1>1. StepRPS \in Nat /\ StartRPS \in Nat
  BY RampAssumption
<1>2. \A a, b \in Int, s \in Nat : a <= b => a * s <= b * s
  OBVIOUS
<1> QED BY <1>1, <1>2 DEF Offered

\* Rates within the plan belong to one of its MaxSteps steps.
LEMMA WithinPlan ==
  ASSUME NEW n \in Nat \ {0}, Offered(n) <= MaxRPS
  PROVE  n <= MaxSteps
<1>1. StepRPS \in Nat \ {0} /\ StartRPS \in Nat /\ MaxRPS \in Nat
  BY RampAssumption
<1>2. PICK d \in Int : d = MaxRPS - StartRPS
  BY <1>1
<1>3. (n - 1) * StepRPS <= d /\ (n - 1) * StepRPS \in Nat
  BY <1>1, <1>2 DEF Offered
<1>4. d \in Nat /\ ~(MaxRPS < StartRPS)
  BY <1>1, <1>2, <1>3
<1>5. \A a \in Nat, b \in Nat \ {0}, m \in Nat : m * b <= a => m <= a \div b
  <2> SUFFICES ASSUME NEW a \in Nat, NEW b \in Nat \ {0}, NEW m \in Nat, m * b <= a
               PROVE  m <= a \div b
    OBVIOUS
  <2>1. PICK q \in Nat : q = a \div b
    OBVIOUS
  <2>2. a < (q + 1) * b
    BY <2>1
  <2>3. m * b < (q + 1) * b
    BY <2>2
  <2>4. \A u, v \in Nat : u * b < v * b => u < v
    OBVIOUS
  <2> QED BY <2>1, <2>3, <2>4
<1>6. n - 1 <= d \div StepRPS
  BY <1>1, <1>3, <1>4, <1>5
<1>7. d \div StepRPS \in Nat
  BY <1>1, <1>4
<1> QED BY <1>2, <1>4, <1>6, <1>7 DEF MaxSteps

LEMMA MaxStepsType == MaxSteps \in Nat
<1>1. \A a \in Nat, b \in Nat \ {0} : a \div b \in Nat
  OBVIOUS
<1> QED BY <1>1, RampAssumption DEF MaxSteps

-------------------------------------------------------------------------------
(* The operators of Collect and Verdict.                                   *)

LEMMA NewType == New \in Collector /\ New.total = 0
  BY DEF New, Collector

\* A count of one more.
LEMMA Incremented ==
  ASSUME NEW S, NEW f \in [S -> Nat], NEW x \in S
  PROVE  [f EXCEPT ![x] = @ + 1] \in [S -> Nat]
<1>1. f[x] + 1 \in Nat
  OBVIOUS
<1> QED BY <1>1

LEMMA AddType ==
  ASSUME NEW c \in Collector, NEW latency \in Nat, NEW o \in Outcomes
  PROVE  Add(c, latency, o) \in Collector /\ Add(c, latency, o).total = c.total + 1
<1>1. PICK b \in Buckets : b = Clamp(latency)
  BY LatencyAssumption DEF Clamp, Buckets
<1>2. c.outcomes \in [Outcomes -> Nat] /\ c.hist \in [Buckets -> Nat] /\ c.total \in Nat
  BY DEF Collector
<1>3. PICK outcomes \in [Outcomes -> Nat] : outcomes = [c.outcomes EXCEPT ![o] = @ + 1]
  BY <1>2, Incremented
<1>4. PICK hist \in [Buckets -> Nat] : hist = [c.hist EXCEPT ![b] = @ + 1]
  BY <1>2, Incremented
<1>5. Add(c, latency, o) = [c EXCEPT !.total = @ + 1, !.outcomes = outcomes, !.hist = hist]
  BY <1>1, <1>3, <1>4 DEF Add
<1>6. c.total + 1 \in Nat
  BY <1>2
<1> QED BY <1>5, <1>6 DEF Collector

LEMMA NoReadingType == NoReading \in Reading /\ ~Exceeds(NoReading)
  BY VerdictAssumption DEF NoReading, Reading, Exceeds

\* The worst of two readings is over a limit if one of them is.
LEMMA WorstType ==
  ASSUME NEW a \in Reading, NEW b \in Reading
  PROVE  /\ WorstHealth(a, b) \in Reading
         /\ Exceeds(WorstHealth(a, b)) <=> Exceeds(a) \/ Exceeds(b)
<1>1. WorstHealth(a, b) \in Reading
  BY DEF WorstHealth, Reading
<1>2. \A m \in Metrics : /\ Limits[m] \in Nat /\ a[m] \in Nat /\ b[m] \in Nat
                         /\ WorstHealth(a, b)[m] = IF a[m] > b[m] THEN a[m] ELSE b[m]
  BY VerdictAssumption DEF WorstHealth, Reading
<1>3. \A m \in Metrics : WorstHealth(a, b)[m] > Limits[m] <=> a[m] > Limits[m] \/ b[m] > Limits[m]
  BY <1>2
<1> QED BY <1>1, <1>3 DEF Exceeds

-------------------------------------------------------------------------------

\* The type of a poller.
Poller == [st : PollerStates, worst : Reading, seen : SUBSET Reading, stop : BOOLEAN]

LEMMA NoPollerType == NoPoller \in Poller /\ NoPoller.st = "none" /\ NoPoller.seen = {}
                      /\ NoPoller.worst = NoReading
  BY NoReadingType DEF NoPoller, Poller, PollerStates

LEMMA EmptySteps == Len(<<>>) = 0 /\ DOMAIN <<>> = {}
  OBVIOUS

LEMMA InitIInv == Init => IInv
<1> SUFFICES ASSUME Init PROVE IInv
  OBVIOUS
<1>1. /\ phase = "closed" /\ issued = {} /\ landed = {} /\ result = "none" /\ ctxDone = FALSE
      /\ pc = "next" /\ rate = StartRPS /\ first = TRUE /\ consecutiveBad = 0
      /\ steps = <<>> /\ Len(steps) = 0 /\ DOMAIN steps = {} /\ collector = New
      /\ \A i \in 1..MaxSteps : pollers[i] = NoPoller
      /\ outcome = NoResult("none")
  BY EmptySteps DEF Init, Window!Init
<1>2. pollers \in [1..MaxSteps -> Poller]
  BY NoPollerType DEF Init
<1>3. TypeOK
  <2>1. rate \in Nat /\ consecutiveBad \in 0..Abort.consecutiveBad /\ steps \in Seq(Step)
    BY <1>1, RampAssumption, VerdictAssumption
  <2> QED BY <1>1, <1>2, <2>1, NewType DEF TypeOK, NoResult, Poller
<1>4. WindowOpen /\ Counted /\ Ended
  BY <1>1 DEF WindowOpen, Counted, Ended, NoResult
<1>5. OnPlan
  BY <1>1, MaxStepsType, RampAssumption DEF OnPlan, Offered, Current
<1>6. Trailing
  BY <1>1, VerdictAssumption DEF Trailing
<1>7. PollersPlaced
  BY <1>1 DEF PollersPlaced, Current
<1>8. Watched
  BY <1>1, NoPollerType, NoReadingType DEF Watched
<1>9. Marked /\ LastPassing
  BY <1>1 DEF Marked, LastPassing, Passing
<1> QED BY <1>3, <1>4, <1>5, <1>6, <1>7, <1>8, <1>9 DEF IInv

-------------------------------------------------------------------------------
(* What each part of the invariant does not depend on.                     *)

LEMMA LoopRests ==
  ASSUME IInv, UNCHANGED <<pc, loopVars>>
  PROVE  OnPlan' /\ Trailing' /\ LastPassing' /\ Ended'
<1>1. UNCHANGED <<pc, rate, first, consecutiveBad, steps, outcome>>
  BY DEF loopVars
<1>2. OnPlan' /\ Trailing'
  BY <1>1 DEF IInv, OnPlan, Trailing, Current
<1>3. LastPassing' /\ Ended'
  BY <1>1 DEF IInv, LastPassing, Passing, Ended
<1> QED BY <1>2, <1>3

LEMMA PollersRest ==
  ASSUME IInv, UNCHANGED <<pc, steps, pollers>>
  PROVE  PollersPlaced' /\ Watched' /\ Marked'
  BY DEF IInv, PollersPlaced, Current, Watched, Marked

\* Only the poller of the step that runs is at work.
LEMMA AtWork ==
  ASSUME PollersPlaced, OnPlan, steps \in Seq(Step),
         NEW i \in 1..MaxSteps, pollers[i].st \notin {"none", "done"}
  PROVE  i = Current /\ pc \in {"step", "join"}
<1>1. Len(steps) \in Nat /\ i \in Nat
  BY LenProperties, MaxStepsType
<1>2. i = Current
  <2>1. ~(i <= Len(steps))
    BY DEF PollersPlaced
  <2>2. ~(i > Current)
    BY NoPollerType DEF PollersPlaced
  <2> QED BY <1>1, <2>1, <2>2 DEF Current
<1> QED BY <1>2, NoPollerType DEF PollersPlaced

\* One poller changes, the current step's.
LEMMA OneMoves ==
  ASSUME IInv, NEW i \in 1..MaxSteps, i = Current, NEW p \in Poller,
         pollers' = [pollers EXCEPT ![i] = p], pc' \in {"step", "join"},
         steps' = steps,
         Exceeds(p.worst) <=> \E h \in p.seen : Exceeds(h),
         p.st \in {"waiting", "done"} => p.seen # {}
  PROVE  /\ pollers' \in [1..MaxSteps -> Poller]
         /\ PollersPlaced' /\ Watched' /\ Marked'
<1>1. /\ Len(steps) \in Nat /\ pollers \in [1..MaxSteps -> Poller] /\ Len(steps) <= MaxSteps
      /\ MaxSteps \in Nat
  BY LenProperties, MaxStepsType DEF IInv, TypeOK, OnPlan, Poller
<1>2. /\ pollers'[i] = p /\ \A j \in 1..MaxSteps : j # i => pollers'[j] = pollers[j]
      /\ pollers' \in [1..MaxSteps -> Poller]
  BY <1>1
<1>3. \A j \in 1..MaxSteps : j <= Len(steps) \/ j > Current => j # i
  BY <1>1 DEF Current
<1>4. PollersPlaced'
  BY <1>2, <1>3 DEF IInv, PollersPlaced, Current
<1>5. Watched'
  BY <1>2 DEF IInv, Watched
<1>6. \A j \in 1..Len(steps) : j \in 1..MaxSteps /\ j # i
  BY <1>1, <1>3
<1>7. Marked'
  BY <1>2, <1>6 DEF IInv, Marked
<1> QED BY <1>2, <1>4, <1>5, <1>7

-------------------------------------------------------------------------------
(* The calls and the caller.                                               *)

LEMMA IssueIInv ==
  ASSUME IInv, NEW c \in Calls, IssueCall(c)
  PROVE  IInv'
<1>1. /\ phase = "open" /\ issued' = issued \cup {c}
      /\ UNCHANGED <<phase, landed, result, ctxDone, pc, collector, pollers>>
      /\ UNCHANGED <<rate, first, consecutiveBad, steps, outcome>>
  BY DEF IssueCall, Window!Issue, loopVars
<1>2. TypeOK'
  BY <1>1 DEF IInv, TypeOK
<1>3. WindowOpen' /\ Counted'
  BY <1>1 DEF IInv, WindowOpen, Counted
<1> QED BY <1>1, <1>2, <1>3, LoopRests, PollersRest DEF IInv, loopVars

LEMMA LandIInv ==
  ASSUME IInv, NEW c \in Calls, LandCall(c)
  PROVE  IInv'
<1>1. /\ phase = "open" /\ landed' = landed \cup {c} /\ c \in issued \ landed
      /\ UNCHANGED <<phase, issued, result, ctxDone, pc, pollers>>
      /\ UNCHANGED <<rate, first, consecutiveBad, steps, outcome>>
  BY DEF LandCall, Window!Land, loopVars
<1>2. PICK r \in Results :
        collector' = IF pc = "step" THEN Add(collector, r.latency, r.outcome) ELSE collector
  BY DEF LandCall
<1>3. r.latency \in Nat /\ r.outcome \in Outcomes
  BY RampAssumption
<1>4. collector \in Collector /\ collector.total \in Nat
  BY DEF IInv, TypeOK, Collector
<1>5. /\ collector' \in Collector
      /\ pc = "step" => collector'.total = collector.total + 1
  BY <1>2, <1>3, <1>4, AddType
<1>6. TypeOK'
  BY <1>1, <1>5 DEF IInv, TypeOK
<1>7. Cardinality(landed') = Cardinality(landed) + 1
  <2>1. IsFiniteSet(landed)
    BY RampAssumption, FS_Subset DEF IInv, TypeOK
  <2> QED BY <1>1, <2>1, FS_AddElement
<1>8. pc \in {"discard", "step"}
  BY <1>1 DEF IInv, WindowOpen
<1>9. WindowOpen' /\ Counted'
  BY <1>1, <1>5, <1>7, <1>8 DEF IInv, WindowOpen, Counted
<1> QED BY <1>1, <1>6, <1>9, LoopRests, PollersRest DEF IInv, loopVars

LEMMA CancelIInv ==
  ASSUME IInv, Cancel
  PROVE  IInv'
<1>1. /\ ctxDone' = TRUE /\ UNCHANGED <<phase, issued, landed, result, pc, collector, pollers>>
      /\ UNCHANGED <<rate, first, consecutiveBad, steps, outcome>>
  BY DEF Cancel, Window!Cancel, loopVars
<1>2. TypeOK'
  BY <1>1 DEF IInv, TypeOK
<1>3. WindowOpen' /\ Counted'
  BY <1>1 DEF IInv, WindowOpen, Counted
<1> QED BY <1>1, <1>2, <1>3, LoopRests, PollersRest DEF IInv, loopVars

-------------------------------------------------------------------------------
(* The pollers.                                                            *)

LEMMA PollerMoves ==
  ASSUME IInv, NEW i \in 1..MaxSteps, pollers[i].st \notin {"none", "done"},
         NEW p \in Poller, pollers' = [pollers EXCEPT ![i] = p],
         UNCHANGED <<windowVars, pc, loopVars, collector>>,
         Exceeds(p.worst) <=> \E h \in p.seen : Exceeds(h),
         p.st \in {"waiting", "done"} => p.seen # {}
  PROVE  IInv'
<1>1. /\ UNCHANGED <<phase, issued, landed, result, ctxDone, pc, collector>>
      /\ UNCHANGED <<rate, first, consecutiveBad, steps, outcome>>
  BY DEF windowVars, loopVars
<1>2. i = Current /\ pc \in {"step", "join"}
  BY AtWork DEF IInv, TypeOK
<1>3. pollers' \in [1..MaxSteps -> Poller] /\ PollersPlaced' /\ Watched' /\ Marked'
  BY <1>1, <1>2, OneMoves
<1>4. TypeOK'
  BY <1>1, <1>3 DEF IInv, TypeOK, Poller
<1>5. WindowOpen' /\ Counted'
  BY <1>1 DEF IInv, WindowOpen, Counted
<1> QED BY <1>1, <1>3, <1>4, <1>5, LoopRests DEF IInv, loopVars

LEMMA BeginSampleIInv ==
  ASSUME IInv, NEW i \in 1..MaxSteps, BeginSample(i)
  PROVE  IInv'
<1>1. pollers[i] \in Poller /\ pollers \in [1..MaxSteps -> Poller]
  BY DEF IInv, TypeOK, Poller
<1>2. PICK p : p = [pollers[i] EXCEPT !.st = "sampling"]
  OBVIOUS
<1>3. /\ p \in Poller /\ p.st = "sampling"
      /\ p.worst = pollers[i].worst /\ p.seen = pollers[i].seen
  BY <1>1, <1>2 DEF Poller, PollerStates
<1>4. pollers' = [pollers EXCEPT ![i] = p]
  BY <1>1, <1>2 DEF BeginSample
<1>5. Exceeds(p.worst) <=> \E h \in p.seen : Exceeds(h)
  BY <1>3 DEF IInv, Watched
<1>6. pollers[i].st \notin {"none", "done"} /\ UNCHANGED <<windowVars, pc, loopVars, collector>>
  BY DEF BeginSample
<1> QED BY <1>3, <1>4, <1>5, <1>6, PollerMoves

LEMMA EndSampleIInv ==
  ASSUME IInv, NEW i \in 1..MaxSteps, EndSample(i)
  PROVE  IInv'
<1>1. pollers[i] \in Poller /\ pollers \in [1..MaxSteps -> Poller]
  BY DEF IInv, TypeOK, Poller
<1>2. PICK h \in Readings :
        pollers' = [pollers EXCEPT ![i].st = "waiting", ![i].worst = WorstHealth(@, h),
                                   ![i].seen = @ \cup {h}]
  BY DEF EndSample
<1>3. PICK p : p = [pollers[i] EXCEPT !.st = "waiting", !.worst = WorstHealth(@, h),
                                      !.seen = @ \cup {h}]
  OBVIOUS
<1>4. h \in Reading /\ pollers[i].worst \in Reading
  BY <1>1, RampAssumption DEF Poller
<1>5. PICK w \in Reading : w = WorstHealth(pollers[i].worst, h)
  BY <1>4, WorstType
<1>6. /\ p = [pollers[i] EXCEPT !.st = "waiting", !.worst = w, !.seen = @ \cup {h}]
      /\ p.st = "waiting" /\ p.worst = w /\ p.seen = pollers[i].seen \cup {h}
  BY <1>1, <1>3, <1>5 DEF Poller
<1>7. p \in Poller
  BY <1>1, <1>4, <1>5, <1>6 DEF Poller, PollerStates
<1>8. pollers' = [pollers EXCEPT ![i] = p]
  BY <1>1, <1>2, <1>3
<1>9. Exceeds(p.worst) <=> \E g \in p.seen : Exceeds(g)
  <2>1. Exceeds(w) <=> Exceeds(pollers[i].worst) \/ Exceeds(h)
    BY <1>4, <1>5, WorstType
  <2>2. Exceeds(pollers[i].worst) <=> \E g \in pollers[i].seen : Exceeds(g)
    BY DEF IInv, Watched
  <2> QED BY <1>6, <2>1, <2>2
<1>10. pollers[i].st \notin {"none", "done"} /\ UNCHANGED <<windowVars, pc, loopVars, collector>>
  BY DEF EndSample
<1> QED BY <1>6, <1>7, <1>8, <1>9, <1>10, PollerMoves

LEMMA StopPollingIInv ==
  ASSUME IInv, NEW i \in 1..MaxSteps, StopPolling(i)
  PROVE  IInv'
<1>1. pollers[i] \in Poller /\ pollers \in [1..MaxSteps -> Poller]
  BY DEF IInv, TypeOK, Poller
<1>2. PICK p : p = [pollers[i] EXCEPT !.st = "done"]
  OBVIOUS
<1>3. /\ p \in Poller /\ p.st = "done"
      /\ p.worst = pollers[i].worst /\ p.seen = pollers[i].seen
  BY <1>1, <1>2 DEF Poller, PollerStates
<1>4. pollers' = [pollers EXCEPT ![i] = p]
  BY <1>1, <1>2 DEF StopPolling
<1>5. /\ Exceeds(p.worst) <=> \E h \in p.seen : Exceeds(h)
      /\ p.seen # {}
  BY <1>3 DEF IInv, Watched, StopPolling
<1>6. pollers[i].st \notin {"none", "done"} /\ UNCHANGED <<windowVars, pc, loopVars, collector>>
  BY DEF StopPolling
<1> QED BY <1>3, <1>4, <1>5, <1>6, PollerMoves

-------------------------------------------------------------------------------
(* The loop.                                                               *)

LEMMA StartDiscardIInv ==
  ASSUME IInv, StartDiscard
  PROVE  IInv'
<1>1. /\ pc = "next" /\ rate <= MaxRPS /\ pc' = "discard"
      /\ phase' = "open" /\ issued' = {} /\ landed' = {} /\ result' = "none"
      /\ UNCHANGED <<ctxDone, rate, first, consecutiveBad, steps, outcome, collector, pollers>>
  BY DEF StartDiscard, Window!Open, loopVars
<1>2. TypeOK'
  BY <1>1 DEF IInv, TypeOK
<1>3. Current \in Nat \ {0} /\ rate = Offered(Current)
  BY <1>1, LenProperties DEF IInv, TypeOK, OnPlan, Current
<1>4. Current <= MaxSteps
  BY <1>1, <1>3, WithinPlan
<1>5. OnPlan' /\ Trailing'
  BY <1>1, <1>4 DEF IInv, OnPlan, Trailing, Current
<1>6. PollersPlaced'
  BY <1>1 DEF IInv, PollersPlaced, Current
<1>7. Watched' /\ Marked' /\ LastPassing' /\ Ended' /\ WindowOpen' /\ Counted'
  BY <1>1 DEF IInv, Watched, Marked, LastPassing, Passing, Ended, WindowOpen, Counted
<1> QED BY <1>2, <1>5, <1>6, <1>7 DEF IInv

LEMMA DiscardEndsIInv ==
  ASSUME IInv, DiscardEnds
  PROVE  IInv'
<1>1. /\ pc = "discard" /\ phase' = "closed" /\ result' \in {"ok", "canceled"}
      /\ \/ pc' = "hook" /\ outcome' = outcome
         \/ pc' = "returned" /\ outcome' = NoResult("error")
      /\ UNCHANGED <<issued, landed, ctxDone, rate, first, consecutiveBad, steps, collector,
                     pollers>>
  BY DEF DiscardEnds, Window!CloseAs
<1>2. TypeOK'
  BY <1>1 DEF IInv, TypeOK, NoResult
<1>3. OnPlan' /\ Trailing'
  BY <1>1 DEF IInv, OnPlan, Trailing, Current
<1>4. PollersPlaced'
  BY <1>1, NoPollerType DEF IInv, PollersPlaced, Current
<1>5. Watched' /\ Marked' /\ LastPassing'
  BY <1>1 DEF IInv, Watched, Marked, LastPassing, Passing
<1>6. Ended' /\ WindowOpen' /\ Counted'
  BY <1>1 DEF IInv, Ended, WindowOpen, Counted, NoResult
<1> QED BY <1>2, <1>3, <1>4, <1>5, <1>6 DEF IInv

LEMMA StartStepIInv ==
  ASSUME IInv, StartStep
  PROVE  IInv'
<1>1. /\ pc = "hook" \/ (pc = "next" /\ rate <= MaxRPS)
      /\ pc' = "step" /\ collector' = New
      /\ phase' = "open" /\ issued' = {} /\ landed' = {} /\ result' = "none"
      /\ UNCHANGED <<ctxDone, rate, first, consecutiveBad, steps, outcome>>
  BY DEF StartStep, Window!Open, loopVars
<1>2. Current \in Nat \ {0} /\ rate = Offered(Current) /\ rate <= MaxRPS
  BY <1>1, LenProperties DEF IInv, TypeOK, OnPlan, Current
<1>3. PICK i \in 1..MaxSteps : i = Current
  BY <1>2, WithinPlan, MaxStepsType
<1>4. pollers[i] = NoPoller /\ pollers \in [1..MaxSteps -> Poller]
  BY <1>1, <1>3 DEF IInv, TypeOK, Poller, PollersPlaced
<1>5. PICK p : p = [NoPoller EXCEPT !.st = "idle"]
  OBVIOUS
<1>6. /\ p \in Poller /\ p.st = "idle" /\ p.worst = NoReading /\ p.seen = {}
  BY <1>5, NoReadingType DEF NoPoller, Poller, PollerStates
<1>7. pollers' = [pollers EXCEPT ![i] = p]
  BY <1>3, <1>4, <1>5 DEF StartStep
<1>8. pollers' \in [1..MaxSteps -> Poller] /\ PollersPlaced' /\ Watched' /\ Marked'
  BY <1>1, <1>3, <1>6, <1>7, NoReadingType, OneMoves
<1>9. TypeOK'
  BY <1>1, <1>8, NewType DEF IInv, TypeOK, Poller
<1>10. OnPlan' /\ Trailing'
  BY <1>1, <1>2, <1>3 DEF IInv, OnPlan, Trailing, Current
<1>11. LastPassing' /\ Ended' /\ WindowOpen'
  BY <1>1 DEF IInv, LastPassing, Passing, Ended, WindowOpen
<1>12. Counted'
  BY <1>1, NewType, FS_EmptySet DEF Counted
<1> QED BY <1>8, <1>9, <1>10, <1>11, <1>12 DEF IInv

LEMMA WindowEndsIInv ==
  ASSUME IInv, WindowEnds
  PROVE  IInv'
<1>1. /\ pc = "step" /\ pc' = "join" /\ landed = issued
      /\ phase' = "closed" /\ result' \in {"ok", "canceled"}
      /\ UNCHANGED <<issued, landed, ctxDone, rate, first, consecutiveBad, steps, outcome,
                     collector>>
  BY DEF WindowEnds, Window!CloseAs, loopVars
<1>2. Current \in Nat \ {0} /\ Current <= MaxSteps
  BY <1>1, LenProperties DEF IInv, TypeOK, OnPlan, Current
<1>3. PICK i \in 1..MaxSteps : i = Current
  BY <1>2, MaxStepsType
<1>4. pollers[i] \in Poller /\ pollers \in [1..MaxSteps -> Poller]
  BY DEF IInv, TypeOK, Poller
<1>5. PICK p : p = [pollers[i] EXCEPT !.stop = TRUE]
  OBVIOUS
<1>6. /\ p \in Poller /\ p.st = pollers[i].st
      /\ p.worst = pollers[i].worst /\ p.seen = pollers[i].seen
  BY <1>4, <1>5 DEF Poller
<1>7. pollers' = [pollers EXCEPT ![i] = p]
  BY <1>3, <1>4, <1>5 DEF WindowEnds
<1>8. /\ Exceeds(p.worst) <=> \E h \in p.seen : Exceeds(h)
      /\ p.st \in {"waiting", "done"} => p.seen # {}
  BY <1>6 DEF IInv, Watched
<1>9. pollers' \in [1..MaxSteps -> Poller] /\ PollersPlaced' /\ Watched' /\ Marked'
  BY <1>1, <1>3, <1>6, <1>7, <1>8, OneMoves
<1>10. TypeOK'
  BY <1>1, <1>9 DEF IInv, TypeOK, Poller
<1>11. OnPlan' /\ Trailing'
  BY <1>1 DEF IInv, OnPlan, Trailing, Current
<1>12. LastPassing' /\ Ended' /\ WindowOpen' /\ Counted'
  BY <1>1 DEF IInv, LastPassing, Passing, Ended, WindowOpen, Counted
<1> QED BY <1>9, <1>10, <1>11, <1>12 DEF IInv

LEMMA StepFailsIInv ==
  ASSUME IInv, StepFails
  PROVE  IInv'
<1>1. /\ pc = "join" /\ pc' = "returned" /\ outcome' = NoResult("error")
      /\ pollers[Current].st = "done"
      /\ UNCHANGED <<phase, issued, landed, result, ctxDone, rate, first, consecutiveBad,
                     steps, collector, pollers>>
  BY DEF StepFails, Joined, windowVars
<1>2. TypeOK'
  BY <1>1 DEF IInv, TypeOK, NoResult
<1>3. OnPlan' /\ Trailing'
  BY <1>1 DEF IInv, OnPlan, Trailing, Current
<1>4. PollersPlaced'
  BY <1>1 DEF IInv, PollersPlaced, Current
<1>5. Watched' /\ Marked' /\ LastPassing'
  BY <1>1 DEF IInv, Watched, Marked, LastPassing, Passing
<1>6. Ended' /\ WindowOpen' /\ Counted'
  BY <1>1 DEF IInv, Ended, WindowOpen, Counted, NoResult
<1> QED BY <1>2, <1>3, <1>4, <1>5, <1>6 DEF IInv

\* What the list of reports becomes.
LEMMA ReportAppended ==
  ASSUME IInv, StepReports
  PROVE  \E n \in Nat, s \in Step :
           /\ n = Len(steps) /\ n + 1 = Current /\ Current <= MaxSteps
           /\ s.offered = rate /\ s.offered = Offered(n + 1) /\ rate <= MaxRPS
           /\ s.limited <=> Exceeds(pollers[n + 1].worst)
           /\ ~(s.pass /\ s.limited)
           /\ steps' = Append(steps, s) /\ steps' \in Seq(Step)
           /\ Len(steps') = n + 1 /\ steps'[n + 1] = s
           /\ \A i \in 1..n : steps'[i] = steps[i]
           /\ consecutiveBad' = IF s.pass THEN 0 ELSE consecutiveBad + 1
<1>1. PICK elapsed \in Elapsed :
        LET limited == Exceeds(pollers[Current].worst)
            pass    == EvaluateStep(Snapshot(collector, rate, elapsed)) /\ ~limited
        IN  /\ steps' = Append(steps, [offered |-> rate, pass |-> pass, limited |-> limited])
            /\ consecutiveBad' = IF pass THEN 0 ELSE consecutiveBad + 1
  BY DEF StepReports
<1>2. PICK limited \in BOOLEAN : limited <=> Exceeds(pollers[Current].worst)
  BY DEF Exceeds
<1>3. PICK pass \in BOOLEAN :
        pass <=> EvaluateStep(Snapshot(collector, rate, elapsed)) /\ ~limited
  BY DEF EvaluateStep
<1>4. PICK s : s = [offered |-> rate, pass |-> pass, limited |-> limited]
  OBVIOUS
<1>5. /\ steps' = Append(steps, s)
      /\ consecutiveBad' = IF pass THEN 0 ELSE consecutiveBad + 1
  BY <1>1, <1>2, <1>3, <1>4 DEF Exceeds, EvaluateStep
<1>6. steps \in Seq(Step) /\ rate \in Nat /\ Len(steps) \in Nat
  BY LenProperties DEF IInv, TypeOK
<1>7. s \in Step /\ s.offered = rate /\ s.pass = pass /\ s.limited = limited
  BY <1>4, <1>6 DEF Step
<1>8. /\ pc = "join" /\ Current = Len(steps) + 1 /\ Current <= MaxSteps
      /\ rate = Offered(Current) /\ rate <= MaxRPS
  BY DEF StepReports, IInv, OnPlan, Current
<1>9. /\ steps' \in Seq(Step) /\ Len(steps') = Len(steps) + 1 /\ steps'[Len(steps) + 1] = s
      /\ \A i \in 1..Len(steps) : steps'[i] = steps[i]
  BY <1>5, <1>6, <1>7, AppendProperties
<1> QED BY <1>2, <1>3, <1>5, <1>6, <1>7, <1>8, <1>9

LEMMA StepReportsIInv ==
  ASSUME IInv, StepReports
  PROVE  IInv'
<1>1. PICK n \in Nat, s \in Step :
        /\ n = Len(steps) /\ n + 1 = Current /\ Current <= MaxSteps
        /\ s.offered = rate /\ s.offered = Offered(n + 1) /\ rate <= MaxRPS
        /\ s.limited <=> Exceeds(pollers[n + 1].worst)
        /\ ~(s.pass /\ s.limited)
        /\ steps' = Append(steps, s) /\ steps' \in Seq(Step)
        /\ Len(steps') = n + 1 /\ steps'[n + 1] = s
        /\ \A i \in 1..n : steps'[i] = steps[i]
        /\ consecutiveBad' = IF s.pass THEN 0 ELSE consecutiveBad + 1
  BY ReportAppended
<1>2. /\ pc = "join" /\ pc' = "decide" /\ pollers[n + 1].st = "done"
      /\ UNCHANGED <<phase, issued, landed, result, ctxDone, rate, first, collector, pollers,
                     outcome>>
  BY <1>1 DEF StepReports, Joined, windowVars
<1>3. /\ consecutiveBad \in Nat /\ consecutiveBad < Abort.consecutiveBad
      /\ Abort.consecutiveBad \in Nat /\ consecutiveBad <= n
  BY <1>1, <1>2, VerdictAssumption DEF IInv, TypeOK, Trailing
<1>4. TypeOK'
  <2>1. consecutiveBad' \in 0..Abort.consecutiveBad
    BY <1>1, <1>3
  <2> QED BY <1>1, <1>2, <2>1 DEF IInv, TypeOK
<1>5. \A i \in 1..n + 1 : i = n + 1 \/ i \in 1..n
  BY <1>1
<1>6. OnPlan'
  <2>1. \A i \in 1..Len(steps') : steps'[i].offered = Offered(i)
    BY <1>1, <1>5 DEF IInv, OnPlan
  <2>2. rate' = Offered(n + 1) /\ n + 1 > 0 /\ n + 1 <= MaxSteps /\ Len(steps') = n + 1
    <3>1. rate' = rate /\ rate = Offered(n + 1)
      BY <1>1, <1>2
    <3>2. n + 1 > 0 /\ n + 1 <= MaxSteps
      BY <1>1
    <3> QED BY <1>1, <3>1, <3>2
  <2> QED BY <1>2, <2>1, <2>2 DEF OnPlan
<1>7. Trailing'
  <2>1. CASE s.pass
    BY <1>1, <1>2, <2>1 DEF Trailing
  <2>2. CASE ~s.pass
    <3>1. consecutiveBad' = consecutiveBad + 1 /\ Len(steps') = n + 1
      BY <1>1, <2>2
    <3>2. ASSUME NEW i \in 1..n + 1, i > n + 1 - (consecutiveBad + 1) PROVE ~steps'[i].pass
      <4>1. CASE i = n + 1
        BY <1>1, <2>2, <4>1
      <4>2. CASE i \in 1..n
        BY <1>1, <1>3, <3>2, <4>2 DEF IInv, Trailing
      <4> QED BY <1>5, <4>1, <4>2
    <3>3. ASSUME consecutiveBad + 1 < n + 1
          PROVE  steps'[n + 1 - (consecutiveBad + 1)].pass
      <4>1. n - consecutiveBad \in 1..n /\ n + 1 - (consecutiveBad + 1) = n - consecutiveBad
        BY <1>3, <3>3
      <4>2. steps[n - consecutiveBad].pass
        BY <1>1, <1>3, <3>3 DEF IInv, Trailing
      <4> QED BY <1>1, <4>1, <4>2
    <3> QED BY <1>2, <1>3, <3>1, <3>2, <3>3 DEF Trailing
  <2> QED BY <2>1, <2>2
<1>8. PollersPlaced'
  <2>1. \A i \in 1..MaxSteps : i <= n + 1 => pollers'[i].st = "done"
    <3> SUFFICES ASSUME NEW i \in 1..MaxSteps, i <= n + 1 PROVE pollers[i].st = "done"
      BY <1>2
    <3>1. i = n + 1 \/ i <= Len(steps)
      BY <1>1, MaxStepsType
    <3> QED BY <1>2, <3>1 DEF IInv, PollersPlaced
  <2>2. \A i \in 1..MaxSteps : i > n + 1 => pollers'[i] = NoPoller
    BY <1>1, <1>2 DEF IInv, PollersPlaced
  <2>4. Current' = n + 2
    BY <1>1 DEF Current
  <2>5. \A i \in 1..MaxSteps : i > n + 2 \/ i = n + 2 => i > n + 1
    BY <1>1
  <2> QED BY <1>1, <1>2, <2>1, <2>2, <2>4, <2>5 DEF PollersPlaced
<1>9. Watched'
  BY <1>2 DEF IInv, Watched
<1>10. Marked'
  BY <1>1, <1>2, <1>5 DEF IInv, Marked
<1>11. LastPassing'
  <2>1. DOMAIN steps = 1..n /\ DOMAIN steps' = 1..n + 1
    BY <1>1, LenProperties DEF IInv, TypeOK
  <2>2. CASE s.pass
    <3>1. n + 1 \in Passing(steps') /\ \A j \in Passing(steps') : j <= n + 1
      BY <1>1, <2>1, <2>2 DEF Passing
    <3> QED BY <3>1 DEF LastPassing
  <2>3. CASE ~s.pass
    <3>1. Passing(steps') = Passing(steps)
      BY <1>1, <1>5, <2>1, <2>3 DEF Passing
    <3> QED BY <3>1 DEF IInv, LastPassing
  <2> QED BY <2>2, <2>3
<1>12. Ended' /\ WindowOpen' /\ Counted'
  BY <1>2 DEF IInv, Ended, WindowOpen, Counted
<1> QED BY <1>4, <1>6, <1>7, <1>8, <1>9, <1>10, <1>11, <1>12 DEF IInv

LEMMA GoOnIInv ==
  ASSUME IInv, GoOn
  PROVE  IInv'
<1>1. /\ pc = "decide" /\ pc' = "next" /\ rate' = rate + StepRPS /\ first' = FALSE
      /\ ~(consecutiveBad >= Abort.consecutiveBad)
      /\ UNCHANGED <<phase, issued, landed, result, ctxDone, consecutiveBad, steps, outcome,
                     collector, pollers>>
  BY DEF GoOn, Enough, windowVars
<1>2. Len(steps) \in Nat /\ rate \in Nat /\ consecutiveBad \in Nat /\ rate = Offered(Len(steps))
  BY <1>1, LenProperties, VerdictAssumption DEF IInv, TypeOK, OnPlan
<1>3. rate' = Offered(Len(steps) + 1) /\ rate' \in Nat
  <2>1. Offered(Len(steps) + 1) = Offered(Len(steps)) + StepRPS
    BY <1>2, NextOffered
  <2> QED BY <1>1, <1>2, <2>1, RampAssumption
<1>4. TypeOK'
  BY <1>1, <1>3 DEF IInv, TypeOK
<1>5. OnPlan'
  BY <1>1, <1>3 DEF IInv, OnPlan, Current
<1>6. Trailing'
  BY <1>1, <1>2, VerdictAssumption DEF IInv, Trailing
<1>7. PollersPlaced'
  BY <1>1 DEF IInv, PollersPlaced, Current
<1>8. Watched' /\ Marked' /\ LastPassing' /\ Ended' /\ WindowOpen' /\ Counted'
  BY <1>1 DEF IInv, Watched, Marked, LastPassing, Passing, Ended, WindowOpen, Counted
<1> QED BY <1>4, <1>5, <1>6, <1>7, <1>8 DEF IInv

\* The breaking point is the rate of the last step that passed.
LEMMA BreakingPointIsLast ==
  ASSUME IInv, NEW k \in Passing(steps), \A j \in Passing(steps) : j <= k
  PROVE  BreakingPoint(steps) = steps[k].offered /\ steps[k].offered \in Nat
<1>1. /\ DOMAIN steps = 1..Len(steps) /\ Len(steps) \in Nat
      /\ \A i \in 1..Len(steps) : steps[i] \in Step
  BY LenProperties, ElementOfSeq DEF IInv, TypeOK
<1>2. Passing(steps) \subseteq 1..Len(steps) /\ Passing(steps) # {}
  BY <1>1 DEF Passing
<1>3. \A i \in Passing(steps) : steps[i].offered \in Nat /\ steps[i].offered = Offered(i)
  BY <1>1, <1>2 DEF Step, IInv, OnPlan
<1>4. \A i \in Passing(steps) : steps[i].offered <= steps[k].offered
  BY <1>1, <1>2, <1>3, OfferedRises
<1>5. \A r \in {steps[i].offered : i \in Passing(steps)} :
        (\A i \in Passing(steps) : steps[i].offered <= r) => r = steps[k].offered
  BY <1>3, <1>4
<1> QED BY <1>2, <1>3, <1>4, <1>5 DEF BreakingPoint

LEMMA OutcomeType ==
  ASSUME IInv
  PROVE  /\ DetermineOutcome(steps) \in
              [outcome : {"converged", "generator-limited", "inconclusive"}, breakingPoint : Nat]
<1>1. CASE Passing(steps) = {}
  BY <1>1 DEF DetermineOutcome
<1>2. CASE Passing(steps) # {}
  <2>1. BreakingPoint(steps) \in Nat
    BY <1>2, BreakingPointIsLast DEF IInv, LastPassing
  <2> QED BY <1>2, <2>1 DEF DetermineOutcome
<1> QED BY <1>1, <1>2

LEMMA ConcludeIInv ==
  ASSUME IInv, Conclude
  PROVE  IInv'
<1>1. /\ pc \in {"decide", "next"} /\ pc' = "returned" /\ outcome' = DetermineOutcome(steps)
      /\ UNCHANGED <<phase, issued, landed, result, ctxDone, rate, first, consecutiveBad,
                     steps, collector, pollers>>
  BY DEF Conclude, windowVars
<1>2. /\ outcome' \in
           [outcome : {"converged", "generator-limited", "inconclusive"}, breakingPoint : Nat]
  BY <1>1, OutcomeType
<1>3. TypeOK'
  BY <1>1, <1>2 DEF IInv, TypeOK
<1>4. OnPlan' /\ Trailing'
  BY <1>1 DEF IInv, OnPlan, Trailing, Current
<1>5. PollersPlaced'
  BY <1>1, NoPollerType DEF IInv, PollersPlaced, Current
<1>6. Watched' /\ Marked' /\ LastPassing' /\ WindowOpen' /\ Counted'
  BY <1>1 DEF IInv, Watched, Marked, LastPassing, Passing, WindowOpen, Counted
<1>7. Ended'
  BY <1>1, <1>2 DEF Ended
<1> QED BY <1>3, <1>4, <1>5, <1>6, <1>7 DEF IInv

LEMMA NextIInv == IInv /\ [Next]_vars => IInv'
<1> SUFFICES ASSUME IInv, [Next]_vars PROVE IInv'
  OBVIOUS
<1>1. CASE Loop
  BY <1>1, StartDiscardIInv, DiscardEndsIInv, StartStepIInv, WindowEndsIInv, StepFailsIInv,
     StepReportsIInv, GoOnIInv, ConcludeIInv DEF Loop
<1>2. ASSUME NEW c \in Calls, IssueCall(c) \/ LandCall(c) PROVE IInv'
  BY <1>2, IssueIInv, LandIInv
<1>3. ASSUME NEW i \in DOMAIN pollers, BeginSample(i) \/ EndSample(i) \/ StopPolling(i)
      PROVE  IInv'
  <2>1. i \in 1..MaxSteps
    BY DEF IInv, TypeOK
  <2> QED BY <1>3, <2>1, BeginSampleIInv, EndSampleIInv, StopPollingIInv
<1>4. CASE Cancel
  BY <1>4, CancelIInv
<1>5. CASE UNCHANGED vars
  <2>1. /\ UNCHANGED <<phase, issued, landed, result, ctxDone, pc, collector, pollers>>
        /\ UNCHANGED <<rate, first, consecutiveBad, steps, outcome>>
    BY <1>5 DEF vars, windowVars, loopVars
  <2>2. TypeOK' /\ WindowOpen' /\ Counted'
    BY <2>1 DEF IInv, TypeOK, WindowOpen, Counted
  <2> QED BY <2>1, <2>2, LoopRests, PollersRest DEF IInv, loopVars
<1> QED BY <1>1, <1>2, <1>3, <1>4, <1>5 DEF Next

LEMMA Invariance == Spec => []IInv
  BY InitIInv, NextIInv, PTL DEF Spec

-------------------------------------------------------------------------------
(* What follows.                                                           *)

\* The variables of a ramp keep their types: consecutiveBad never passes its
\* limit, and the plan never outgrows the pollers prepared for it.
THEOREM TypeCorrect == Spec => []TypeOK
<1>1. IInv => TypeOK
  BY DEF IInv
<1> QED BY <1>1, Invariance, PTL

\* The health sampler, which has no lock, is used by one goroutine at a time,
\* and only while its step is measured.
THEOREM NoTwoPollers == Spec => []OnePollerAtATime
<1>1. IInv => OnePollerAtATime
  <2>1. IInv => DOMAIN pollers = 1..MaxSteps
    BY DEF IInv, TypeOK
  <2> QED BY <2>1, AtWork DEF IInv, TypeOK, OnePollerAtATime
<1> QED BY <1>1, Invariance, PTL

\* A step is judged on every call of its own measured window and on no other.
THEOREM ReportsAreComplete == Spec => []ReportCountsOwnCalls
<1>1. IInv => ReportCountsOwnCalls
  BY DEF IInv, Counted, ReportCountsOwnCalls
<1> QED BY <1>1, Invariance, PTL

\* One reading over a limit, whenever it was taken, marks the step; a step
\* without one is not marked.
THEOREM SpikesAreSeen == Spec => []SpikeMarksStep
<1>1. IInv => SpikeMarksStep
  <2> SUFFICES ASSUME IInv, NEW i \in DOMAIN steps
               PROVE  /\ pollers[i].seen # {}
                      /\ steps[i].limited <=> \E h \in pollers[i].seen : Exceeds(h)
    BY DEF SpikeMarksStep
  <2>1. i \in 1..Len(steps) /\ i <= Len(steps) /\ i \in 1..MaxSteps
    BY LenProperties, MaxStepsType DEF IInv, TypeOK, OnPlan
  <2>2. pollers[i].st = "done"
    BY <2>1 DEF IInv, PollersPlaced
  <2>3. pollers[i].seen # {} /\ (Exceeds(pollers[i].worst) <=> \E h \in pollers[i].seen : Exceeds(h))
    BY <2>1, <2>2 DEF IInv, Watched
  <2>4. steps[i].limited <=> Exceeds(pollers[i].worst)
    BY <2>1 DEF IInv, Marked
  <2> QED BY <2>3, <2>4
<1> QED BY <1>1, Invariance, PTL

-------------------------------------------------------------------------------
(* Ramp implements RampContract.                                           *)

LEMMA SameOffer == ASSUME NEW n \in Int PROVE Contract!Offer(n) = Offered(n)
  BY DEF Contract!Offer, Offered

\* A ramp that has not had enough failing steps may go on.
LEMMA NotEnough ==
  ASSUME IInv, consecutiveBad < Abort.consecutiveBad
  PROVE  ~Contract!EnoughBad
<1>1. /\ Len(steps) \in Nat /\ consecutiveBad \in Nat /\ Abort.consecutiveBad \in Nat
  BY LenProperties, VerdictAssumption DEF IInv, TypeOK
<1> SUFFICES ASSUME Contract!EnoughBad PROVE FALSE
  OBVIOUS
<1>2. /\ Len(steps) >= Abort.consecutiveBad
      /\ \A i \in Len(steps) - Abort.consecutiveBad + 1..Len(steps) : ~steps[i].pass
  BY DEF Contract!EnoughBad
<1>3. steps[Len(steps) - consecutiveBad].pass
  BY <1>1, <1>2 DEF IInv, Trailing
<1>4. Len(steps) - consecutiveBad \in Len(steps) - Abort.consecutiveBad + 1..Len(steps)
  BY <1>1
<1> QED BY <1>2, <1>3, <1>4

LEMMA EnoughIsEnough ==
  ASSUME IInv, consecutiveBad >= Abort.consecutiveBad
  PROVE  Contract!EnoughBad
<1>1. /\ Len(steps) \in Nat /\ consecutiveBad \in Nat /\ consecutiveBad <= Len(steps)
      /\ Abort.consecutiveBad \in Nat \ {0} /\ consecutiveBad = Abort.consecutiveBad
  BY LenProperties, VerdictAssumption DEF IInv, TypeOK, Trailing
<1>2. \A i \in Len(steps) - Abort.consecutiveBad + 1..Len(steps) :
        i \in 1..Len(steps) /\ i > Len(steps) - consecutiveBad
  BY <1>1
<1>3. \A i \in Len(steps) - Abort.consecutiveBad + 1..Len(steps) : ~steps[i].pass
  BY <1>2 DEF IInv, Trailing
<1> QED BY <1>1, <1>3 DEF Contract!EnoughBad

\* The verdict drawn from the list of steps is one the contract allows.
LEMMA VerdictSound ==
  ASSUME IInv
  PROVE  Contract!Sound(DetermineOutcome(steps))
<1>1. CASE AnyLimited(steps)
  BY <1>1 DEF DetermineOutcome, AnyLimited, Contract!Sound
<1>2. CASE ~AnyLimited(steps) /\ Passing(steps) = {}
  BY <1>2 DEF DetermineOutcome, AnyLimited, Passing, Contract!Sound
<1>3. CASE ~AnyLimited(steps) /\ Passing(steps) # {}
  <2>1. PICK k \in Passing(steps) : \A j \in Passing(steps) : j <= k
    BY <1>3 DEF IInv, LastPassing
  <2>2. PICK v : v = DetermineOutcome(steps)
    OBVIOUS
  <2>3. v.outcome = "converged" /\ v.breakingPoint = steps[k].offered
    BY <1>3, <2>1, <2>2, BreakingPointIsLast DEF DetermineOutcome
  <2>4. DOMAIN steps = 1..Len(steps) /\ Len(steps) \in Nat /\ k \in DOMAIN steps /\ steps[k].pass
    BY <2>1, LenProperties DEF IInv, TypeOK, Passing
  <2>5. \A j \in k + 1..Len(steps) : ~steps[j].pass
    BY <2>1, <2>4 DEF Passing
  <2>6. \A i \in DOMAIN steps : ~steps[i].limited
    BY <1>3 DEF AnyLimited
  <2> QED BY <2>2, <2>3, <2>4, <2>5, <2>6 DEF Contract!Sound
<1> QED BY <1>1, <1>2, <1>3

\* Every step of a ramp is one the contract allows, or none it can see.
LEMMA NextContract ==
  ASSUME IInv, [Next]_vars
  PROVE  [Contract!Next]_<<steps, outcome>>
<1>1. CASE UNCHANGED <<steps, outcome>>
  BY <1>1
<1>2. CASE StepReports
  <2>1. PICK n \in Nat, s \in Step :
        /\ n = Len(steps) /\ n + 1 = Current /\ Current <= MaxSteps
        /\ s.offered = rate /\ s.offered = Offered(n + 1) /\ rate <= MaxRPS
        /\ s.limited <=> Exceeds(pollers[n + 1].worst)
        /\ ~(s.pass /\ s.limited)
        /\ steps' = Append(steps, s) /\ steps' \in Seq(Step)
        /\ Len(steps') = n + 1 /\ steps'[n + 1] = s
        /\ \A i \in 1..n : steps'[i] = steps[i]
        /\ consecutiveBad' = IF s.pass THEN 0 ELSE consecutiveBad + 1
    BY <1>2, ReportAppended
  <2>2. pc = "join" /\ UNCHANGED outcome
    BY <1>2 DEF StepReports
  <2>3. outcome.outcome = "none" /\ consecutiveBad < Abort.consecutiveBad
    BY <2>2 DEF IInv, Ended, Trailing
  <2>4. Contract!Offer(Len(steps) + 1) = rate
    BY <2>1, SameOffer
  <2>5. ~Contract!Over
    <3>1. ~(rate > MaxRPS)
      BY <2>1, RampAssumption DEF IInv, TypeOK
    <3> QED BY <2>3, <2>4, <3>1, NotEnough DEF Contract!Over
  <2>6. s = [offered |-> rate, pass |-> s.pass, limited |-> s.limited]
        /\ s.pass \in BOOLEAN /\ s.limited \in BOOLEAN
    BY <2>1 DEF Step
  <2>7. steps' = Append(steps, [offered |-> Contract!Offer(Len(steps) + 1),
                                pass |-> s.pass, limited |-> s.limited])
    BY <2>1, <2>4, <2>6
  <2> QED BY <2>1, <2>2, <2>3, <2>5, <2>6, <2>7 DEF Contract!Next, Contract!Measure
<1>3. CASE Conclude
  <2>1. /\ outcome' = DetermineOutcome(steps) /\ UNCHANGED steps
        /\ pc \in {"decide", "next"}
        /\ \/ consecutiveBad >= Abort.consecutiveBad
           \/ pc = "next" /\ rate > MaxRPS
    BY <1>3 DEF Conclude, Enough
  <2>2. outcome.outcome = "none"
    BY <2>1 DEF IInv, Ended
  <2>3. Contract!Over
    <3>1. CASE consecutiveBad >= Abort.consecutiveBad
      BY <3>1, EnoughIsEnough DEF Contract!Over
    <3>2. CASE pc = "next" /\ rate > MaxRPS
      <4>1. Len(steps) \in Nat /\ rate = Offered(Len(steps) + 1)
        BY <3>2, LenProperties DEF IInv, TypeOK, OnPlan, Current
      <4>2. Contract!Offer(Len(steps) + 1) = rate
        BY <4>1, SameOffer
      <4> QED BY <3>2, <4>2 DEF Contract!Over
    <3> QED BY <2>1, <3>1, <3>2
  <2> QED BY <2>1, <2>2, <2>3, VerdictSound DEF Contract!Next, Contract!Conclude, Contract!Sound
<1>4. CASE StepFails
  <2>1. pc = "join" /\ outcome' = [outcome |-> "error", breakingPoint |-> 0] /\ UNCHANGED steps
    BY <1>4 DEF StepFails, NoResult
  <2> QED BY <2>1 DEF IInv, Ended, Contract!Next, Contract!Fail
<1>5. CASE DiscardEnds
  <2>1. /\ pc = "discard" /\ UNCHANGED steps
        /\ UNCHANGED outcome \/ outcome' = [outcome |-> "error", breakingPoint |-> 0]
    BY <1>5 DEF DiscardEnds, NoResult
  <2> QED BY <2>1 DEF IInv, Ended, Contract!Next, Contract!Fail
<1>6. CASE StartDiscard \/ StartStep \/ WindowEnds \/ GoOn
  BY <1>1, <1>6 DEF StartDiscard, StartStep, WindowEnds, GoOn, loopVars
<1>7. CASE Loop
  BY <1>2, <1>3, <1>4, <1>5, <1>6, <1>7 DEF Loop
<1>8. CASE \E c \in Calls : IssueCall(c) \/ LandCall(c)
  BY <1>1, <1>8 DEF IssueCall, LandCall, loopVars
<1>9. CASE \E i \in DOMAIN pollers : BeginSample(i) \/ EndSample(i) \/ StopPolling(i)
  BY <1>1, <1>9 DEF BeginSample, EndSample, StopPolling, loopVars
<1>10. CASE Cancel \/ UNCHANGED vars
  BY <1>1, <1>10 DEF Cancel, vars, loopVars
<1> QED BY <1>7, <1>8, <1>9, <1>10 DEF Next

\* RunWithHooks keeps its promise: the plan's rates in order, an end after
\* consecutiveBad failing steps in a row and not before, a verdict that follows
\* from every step, and no result at all once a window was cancelled.
THEOREM KeepsPromise == Spec => KeepsContract
<1>1. Init => Contract!Init
  BY DEF Init, Contract!Init, NoResult
<1>2. IInv /\ [Next]_vars => [Contract!Next]_<<steps, outcome>>
  BY NextContract
<1> QED BY <1>1, <1>2, Invariance, PTL DEF Spec, KeepsContract, Contract!Spec
===============================================================================
