------------------------------ MODULE RampContract ------------------------------
(***************************************************************************)
(* What a ramp promises whoever reads its result: it offers the rates of   *)
(* the plan in order, one step each, never goes on past consecutiveBad     *)
(* failing steps in a row, and its verdict follows from every step offered.*)
(* How a step is measured does not matter here.                            *)
(***************************************************************************)
EXTENDS Integers, Sequences

CONSTANTS StartRPS, StepRPS, MaxRPS, ConsecutiveBad

VARIABLES
  steps,    \* the steps measured so far: [offered, pass, limited]
  verdict   \* [outcome, breakingPoint], outcome "none" until the ramp ends

Offer(n) == StartRPS + (n - 1) * StepRPS

EnoughBad ==
  /\ Len(steps) >= ConsecutiveBad
  /\ \A i \in Len(steps) - ConsecutiveBad + 1..Len(steps) : ~steps[i].pass

Over == EnoughBad \/ Offer(Len(steps) + 1) > MaxRPS

\* A breaking point is claimed only for a run whose generator held, and it is
\* the rate of the last step that passed: nothing above it did.
Sound(v) ==
  CASE v.outcome = "generator-limited" -> \E i \in DOMAIN steps : steps[i].limited
    [] v.outcome = "inconclusive" ->
         \A i \in DOMAIN steps : ~steps[i].limited /\ ~steps[i].pass
    [] v.outcome = "converged" ->
         /\ \A i \in DOMAIN steps : ~steps[i].limited
         /\ \E i \in DOMAIN steps :
              /\ steps[i].pass
              /\ v.breakingPoint = steps[i].offered
              /\ \A j \in i + 1..Len(steps) : ~steps[j].pass
    [] OTHER -> FALSE

Init == steps = <<>> /\ verdict = [outcome |-> "none", breakingPoint |-> 0]

Measure ==
  /\ verdict.outcome = "none"
  /\ ~Over
  /\ \E pass, limited \in BOOLEAN :
       /\ ~(pass /\ limited)
       /\ steps' = Append(steps, [offered |-> Offer(Len(steps) + 1),
                                  pass |-> pass, limited |-> limited])
  /\ UNCHANGED verdict

Conclude ==
  /\ verdict.outcome = "none"
  /\ Over
  /\ Sound(verdict')
  /\ UNCHANGED steps

\* A cancelled run has no result at all, whatever it had measured.
Fail ==
  /\ verdict.outcome = "none"
  /\ verdict' = [outcome |-> "error", breakingPoint |-> 0]
  /\ UNCHANGED steps

Next == Measure \/ Conclude \/ Fail

Spec == Init /\ [][Next]_<<steps, verdict>>

=================================================================================
