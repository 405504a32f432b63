---------------------------------- MODULE Ramp ----------------------------------
(***************************************************************************)
(* ramp.RunWithHooks and runStep (internal/ramp/ramp.go): the loop over    *)
(* rates, each with a discarded warmup or settle window and a measured     *)
(* window, and the goroutine that polls the generator's health meanwhile.  *)
(*                                                                         *)
(* The load windows are LoadWindow's, the promise OpenLoop is shown to     *)
(* keep.  Every step has its own poller, health context and result channel *)
(* in the code, so `pollers` has one record per step of the plan.  Rates   *)
(* and thresholds are integers; the hooks onStepStart and onStep run       *)
(* synchronously, touch none of this state and are not steps here.         *)
(***************************************************************************)
EXTENDS Verdict

CONSTANTS
  StartRPS, StepRPS, MaxRPS,   \* the plan
  Warmup, Settle,              \* discard windows: only their being 0 matters
  Calls,                       \* identities of the calls of one window
  Results,                     \* what a call may end as: [latency, outcome]
  Readings,                    \* what a health sample may show
  Elapsed                      \* wall-clock lengths a measured window may have

ASSUME RampAssumption ==
  /\ StartRPS \in Nat \ {0} /\ StepRPS \in Nat \ {0} /\ MaxRPS \in Nat \ {0}
  /\ Warmup \in Nat /\ Settle \in Nat
  /\ IsFiniteSet(Calls)
  /\ Results \subseteq [latency : Nat, outcome : Outcomes]
  /\ Readings \subseteq Reading
  /\ Elapsed \subseteq Nat

VARIABLES
  phase, issued, landed, result, ctxDone,  \* the driver's window, see LoadWindow
  pc,               \* where RunWithHooks is
  rate, first,      \* the loop's variables
  consecutiveBad,   \* failing steps in a row
  steps,            \* the reports so far
  collector,        \* the current step's Collector
  pollers,          \* per step: the health poller's goroutine
  outcome           \* the Result: [outcome, breakingPoint]

Window == INSTANCE LoadWindow

loopVars == <<rate, first, consecutiveBad, steps, outcome>>
windowVars == <<phase, issued, landed, result, ctxDone>>
vars == <<windowVars, pc, loopVars, collector, pollers>>

MaxSteps == IF MaxRPS < StartRPS THEN 0 ELSE (MaxRPS - StartRPS) \div StepRPS + 1

\* The step being prepared, run or reported.
Current == Len(steps) + 1

NoResult(o) == [outcome |-> o, breakingPoint |-> 0]

NoPoller == [st |-> "none", worst |-> NoReading, seen |-> {}, stop |-> FALSE]

Init ==
  /\ Window!Init
  /\ pc = "next"
  /\ rate = StartRPS
  /\ first = TRUE
  /\ consecutiveBad = 0
  /\ steps = <<>>
  /\ collector = New
  /\ pollers = [i \in 1..MaxSteps |-> NoPoller]
  /\ outcome = NoResult("none")

-------------------------------------------------------------------------------
(* The loop of RunWithHooks.                                               *)

Discard == IF first THEN Warmup ELSE Settle

StartDiscard ==
  /\ pc = "next" /\ rate <= MaxRPS
  /\ Discard > 0
  /\ Window!Open
  /\ pc' = "discard"
  /\ UNCHANGED <<loopVars, collector, pollers>>

\* Lines 127-129.
DiscardEnds ==
  /\ pc = "discard"
  /\ \/ Window!CloseAs("ok") /\ pc' = "hook" /\ UNCHANGED outcome
     \/ Window!CloseAs("canceled") /\ pc' = "returned" /\ outcome' = NoResult("error")
  /\ UNCHANGED <<rate, first, consecutiveBad, steps, collector, pollers>>

\* The collector is made once for the run instead of once per step.
MutStartStep ==
  /\ \/ pc = "hook"
     \/ pc = "next" /\ rate <= MaxRPS /\ Discard = 0
  /\ pollers' = [pollers EXCEPT ![Current].st = "idle"]
  /\ Window!Open
  /\ pc' = "step"
  /\ UNCHANGED <<loopVars, collector>>

\* runStep: a new Collector, the poller's goroutine, then the window.
StartStep ==
  /\ \/ pc = "hook"
     \/ pc = "next" /\ rate <= MaxRPS /\ Discard = 0
  /\ collector' = New
  /\ pollers' = [pollers EXCEPT ![Current].st = "idle"]
  /\ Window!Open
  /\ pc' = "step"
  /\ UNCHANGED loopVars

\* Lines 207-208: RunOpenLoop is back, the poller is told to stop.
WindowEnds ==
  /\ pc = "step"
  /\ \E r \in {"ok", "canceled"} : Window!CloseAs(r)
  /\ pollers' = [pollers EXCEPT ![Current].stop = TRUE]
  /\ pc' = "join"
  /\ UNCHANGED <<loopVars, collector>>

\* The step goes on without receiving from healthDone.
MutJoined == pollers[Current].st # "none"

\* Line 209: <-healthDone.
Joined == pollers[Current].st = "done"

\* The window was cancelled, or the histogram could not be exported: the
\* reports of the steps already measured are dropped with it.
StepFails ==
  /\ pc = "join" /\ Joined
  /\ pc' = "returned"
  /\ outcome' = NoResult("error")
  /\ UNCHANGED <<windowVars, rate, first, consecutiveBad, steps, collector, pollers>>

\* Lines 214-232 and 140-149.
StepReports ==
  /\ pc = "join" /\ Joined
  /\ result = "ok"
  /\ \E elapsed \in Elapsed :
       LET limited == Exceeds(pollers[Current].worst)
           pass    == EvaluateStep(Snapshot(collector, rate, elapsed)) /\ ~limited
       IN  /\ steps' = Append(steps, [offered |-> rate, pass |-> pass, limited |-> limited])
           /\ consecutiveBad' = IF pass THEN 0 ELSE consecutiveBad + 1
  /\ pc' = "decide"
  /\ UNCHANGED <<windowVars, rate, first, collector, pollers, outcome>>

\* A stop condition that lets one more failing step through.
MutEnough == consecutiveBad > Abort.consecutiveBad

Enough == consecutiveBad >= Abort.consecutiveBad

GoOn ==
  /\ pc = "decide"
  /\ ~Enough
  /\ rate' = rate + StepRPS
  /\ first' = FALSE
  /\ pc' = "next"
  /\ UNCHANGED <<windowVars, consecutiveBad, steps, outcome, collector, pollers>>

\* Line 155, after a break or past MaxRPS.
Conclude ==
  /\ \/ pc = "decide" /\ Enough
     \/ pc = "next" /\ rate > MaxRPS
  /\ outcome' = DetermineOutcome(steps)
  /\ pc' = "returned"
  /\ UNCHANGED <<windowVars, rate, first, consecutiveBad, steps, collector, pollers>>

Loop ==
  \/ StartDiscard \/ DiscardEnds \/ StartStep \/ WindowEnds
  \/ StepFails \/ StepReports \/ GoOn \/ Conclude

-------------------------------------------------------------------------------
(* The calls of the open window.  A discard window's onSample drops them.  *)

IssueCall(c) ==
  /\ Window!Issue(c)
  /\ UNCHANGED <<pc, loopVars, collector, pollers>>

LandCall(c) ==
  /\ Window!Land(c)
  /\ \E r \in Results :
       collector' = IF pc = "step" THEN Add(collector, r.latency, r.outcome) ELSE collector
  /\ UNCHANGED <<pc, loopVars, pollers>>

-------------------------------------------------------------------------------
(* pollHealth.  Sampling takes time, and the sampler it uses is shared by  *)
(* every step and has no lock.                                             *)

\* At once when the goroutine starts, then whenever the ticker is ready --
\* also after a stop, for select picks at random among ready branches.
BeginSample(i) ==
  /\ pollers[i].st \in {"idle", "waiting"}
  /\ pollers' = [pollers EXCEPT ![i].st = "sampling"]
  /\ UNCHANGED <<windowVars, pc, loopVars, collector>>

\* `seen` remembers every reading, for the properties only.
EndSample(i) ==
  /\ pollers[i].st = "sampling"
  /\ \E h \in Readings :
       pollers' = [pollers EXCEPT ![i].st = "waiting", ![i].worst = WorstHealth(@, h),
                                  ![i].seen = @ \cup {h}]
  /\ UNCHANGED <<windowVars, pc, loopVars, collector>>

\* The poller listens to the caller's context only, not to its own.
MutStopPolling(i) ==
  /\ pollers[i].st = "waiting"
  /\ ctxDone
  /\ pollers' = [pollers EXCEPT ![i].st = "done"]
  /\ UNCHANGED <<windowVars, pc, loopVars, collector>>

\* healthCtx is cancelled by stopHealth and with its parent.
StopPolling(i) ==
  /\ pollers[i].st = "waiting"
  /\ pollers[i].stop \/ ctxDone
  /\ pollers' = [pollers EXCEPT ![i].st = "done"]
  /\ UNCHANGED <<windowVars, pc, loopVars, collector>>

Cancel ==
  /\ pc # "returned"
  /\ Window!Cancel
  /\ UNCHANGED <<pc, loopVars, collector, pollers>>

Next ==
  \/ Loop
  \/ \E c \in Calls : IssueCall(c) \/ LandCall(c)
  \/ \E i \in DOMAIN pollers : BeginSample(i) \/ EndSample(i) \/ StopPolling(i)
  \/ Cancel

Spec == Init /\ [][Next]_vars

\* The loop runs on, calls return (OpenLoop shows that windows then close)
\* and a sample ends.  StopPolling needs strong fairness: a ticker that is
\* ready each time the select is reached may win it any number of times, but
\* not for ever.
FairSpec ==
  /\ Spec
  /\ WF_vars(Loop)
  /\ \A c \in Calls : WF_vars(LandCall(c))
  /\ \A i \in 1..MaxSteps :
       /\ WF_vars(BeginSample(i))
       /\ WF_vars(EndSample(i))
       /\ SF_vars(StopPolling(i))

-------------------------------------------------------------------------------

PollerStates == {"none", "idle", "sampling", "waiting", "done"}

TypeOK ==
  /\ phase \in {"closed", "open"}
  /\ issued \subseteq Calls /\ landed \subseteq issued
  /\ result \in {"none", "ok", "canceled"}
  /\ ctxDone \in BOOLEAN
  /\ pc \in {"next", "discard", "hook", "step", "join", "decide", "returned"}
  /\ rate \in Nat
  /\ first \in BOOLEAN
  /\ consecutiveBad \in 0..Abort.consecutiveBad
  /\ steps \in Seq(Step)
  /\ collector \in Collector
  /\ pollers \in [1..MaxSteps -> [st : PollerStates, worst : Reading,
                                  seen : SUBSET Reading, stop : BOOLEAN]]
  /\ outcome \in [outcome : {"none", "error", "converged", "generator-limited",
                             "inconclusive"},
                  breakingPoint : Nat]

\* The health sampler, which keeps its last reading without a lock, is never
\* inside two Sample calls at once, and no poller outlives the step it was
\* started for.
OnePollerAtATime ==
  \A i \in DOMAIN pollers :
    pollers[i].st \notin {"none", "done"} => i = Current /\ pc \in {"step", "join"}

\* When a step is about to be evaluated its Collector holds each call of its
\* own measured window once: none in flight, none of a discard window's, none
\* of an earlier step's.
ReportCountsOwnCalls ==
  pc = "join" =>
    /\ landed = issued
    /\ collector.total = Cardinality(issued)

\* Every reported step had its generator looked at, and it is marked
\* generator-limited exactly if some reading taken during it was over a limit,
\* however brief and however long before its end.
SpikeMarksStep ==
  \A i \in DOMAIN steps :
    /\ pollers[i].seen # {}
    /\ steps[i].limited <=> \E h \in pollers[i].seen : Exceeds(h)

\* RunWithHooks keeps the promise of RampContract.
Contract == INSTANCE RampContract WITH
  ConsecutiveBad <- Abort.consecutiveBad,
  verdict <- outcome

KeepsContract == Contract!Spec

\* A run ends if its calls do.
Terminates == <>(pc = "returned")

===============================================================================
