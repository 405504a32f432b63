----------------------------- MODULE OpenLoopProofs -----------------------------
(***************************************************************************)
(* Proofs about OpenLoop, for every rate, window length and schedule.      *)
(*                                                                         *)
(* The inductive invariant says what the WaitGroup's counter stands for:   *)
(* the goroutines that have not released it, each of which has a Sample    *)
(* still to deliver or has just delivered it.                              *)
(***************************************************************************)
EXTENDS OpenLoop, FiniteSetTheorems, SequenceTheorems, TLAPS

CallRecord == [st : CallStates, intended : Nat, started : Nat, samples : Nat]

InFlight == {i \in DOMAIN calls : calls[i].st # "done"}

WgCountsInFlight == wg = Cardinality(InFlight)

\* What has been delivered is visible in the goroutine's state.
SampleBookkeeping ==
  \A i \in DOMAIN calls :
    calls[i].samples = IF calls[i].st \in {"sampled", "done"} THEN 1 ELSE 0

\* Calls are spawned when due, whether the timer fired or the loop was late.
SpawnedWhenDue ==
  \A i \in DOMAIN calls :
    /\ calls[i].intended <= now
    /\ calls[i].st # "spawned" => calls[i].started >= calls[i].intended

\* Where the scheduler is says what it has seen.
ControlState ==
  /\ pc = "call" => calls = <<>>
  /\ pc \notin {"call", "returned"} => rate > 0
  /\ pc = "abort" => ctxDone
  /\ pc = "returned" => wg = 0
  /\ pc = "returned" <=> ret # "none"
  /\ ret = "rejected" => calls = <<>>

CallsBounded == DOMAIN calls \subseteq 1..MaxCalls

IInv ==
  /\ TypeOK
  /\ CallsBounded
  /\ WgCountsInFlight
  /\ SampleBookkeeping
  /\ SpawnedWhenDue
  /\ ControlState

\* The schedule under uniform arrivals, which no interleaving disturbs.
OnSchedule ==
  /\ rate > 0
  /\ next = Len(calls) * MeanInterval
  /\ \A i \in DOMAIN calls :
       calls[i].intended = (i - 1) * MeanInterval /\ calls[i].intended <= Duration
  /\ pc = "drain" \/ ret = "ok" => next > Duration
  /\ pc = "select" => next <= Duration

ScheduleInv ==
  /\ pc = "call" => now = 0
  /\ arrival = "uniform" /\ pc # "call" /\ ret # "rejected" => OnSchedule

-------------------------------------------------------------------------------
(* Replacing one element of a sequence, and counting what is in flight.    *)

LEMMA ReplaceElement ==
  ASSUME NEW S, NEW q \in Seq(S), NEW i \in DOMAIN q, NEW e \in S
  PROVE  /\ [q EXCEPT ![i] = e] \in Seq(S)
         /\ DOMAIN [q EXCEPT ![i] = e] = DOMAIN q
         /\ Len([q EXCEPT ![i] = e]) = Len(q)
  BY ExceptSeq, LenProperties

LEMMA MeanIntervalPositive ==
  ASSUME DriverAssumption, rate \in Rates, rate > 0
  PROVE  MeanInterval \in Nat \ {0}
<1>1. rate \in Nat /\ rate <= Second /\ Second \in Nat \ {0}
  BY DEF DriverAssumption
<1> QED BY <1>1 DEF MeanInterval

\* Appending a call that is not done adds its index to those in flight.
LEMMA AppendedCall ==
  ASSUME TypeOK, NEW e \in CallRecord, calls' = Append(calls, e)
  PROVE  /\ calls' \in Seq(CallRecord)
         /\ Len(calls') = Len(calls) + 1
         /\ DOMAIN calls = 1..Len(calls)
         /\ DOMAIN calls' = 1..Len(calls) + 1
         /\ calls'[Len(calls) + 1] = e
         /\ \A j \in DOMAIN calls : calls'[j] = calls[j]
<1>1. calls \in Seq(CallRecord)
  BY DEF TypeOK, CallRecord
<1> QED BY <1>1, AppendProperties, LenProperties

\* The four steps of a call's goroutine rewrite its record only.
LEMMA SteppedCall ==
  ASSUME TypeOK, NEW i \in DOMAIN calls, Call(i)
  PROVE  /\ calls' \in Seq(CallRecord)
         /\ DOMAIN calls = 1..Len(calls)
         /\ DOMAIN calls' = DOMAIN calls
         /\ \A j \in DOMAIN calls \ {i} : calls'[j] = calls[j]
         /\ calls'[i].intended = calls[i].intended
         /\ UNCHANGED <<rate, arrival, pc, ret, now, next, ctxDone>>
<1>1. calls \in Seq(CallRecord)
  BY DEF TypeOK, CallRecord
<1>2. calls[i] \in CallRecord
  BY <1>1, ElementOfSeq, LenProperties
<1>3. PICK e \in CallRecord :
        calls' = [calls EXCEPT ![i] = e] /\ e.intended = calls[i].intended
  <2>1. CASE Begin(i)
    <3> DEFINE e == [calls[i] EXCEPT !.st = "running", !.started = now]
    <3>1. e \in CallRecord /\ e.intended = calls[i].intended
      BY <1>2 DEF CallRecord, CallStates, TypeOK
    <3>2. calls' = [calls EXCEPT ![i] = e]
      BY <2>1 DEF Begin
    <3> QED BY <3>1, <3>2
  <2>2. CASE Finish(i)
    <3> DEFINE e == [calls[i] EXCEPT !.st = "finished"]
    <3>1. e \in CallRecord /\ e.intended = calls[i].intended
      BY <1>2 DEF CallRecord, CallStates
    <3>2. calls' = [calls EXCEPT ![i] = e]
      BY <2>2 DEF Finish
    <3> QED BY <3>1, <3>2
  <2>3. CASE Deliver(i)
    <3> DEFINE e == [calls[i] EXCEPT !.st = "sampled", !.samples = @ + 1]
    <3>1. calls[i].samples + 1 \in Nat
      BY <1>2 DEF CallRecord
    <3>2. e \in CallRecord /\ e.intended = calls[i].intended
      BY <1>2, <3>1 DEF CallRecord, CallStates
    <3>3. calls' = [calls EXCEPT ![i] = e]
      BY <2>3 DEF Deliver
    <3> QED BY <3>2, <3>3
  <2>4. CASE Done(i)
    <3> DEFINE e == [calls[i] EXCEPT !.st = "done"]
    <3>1. e \in CallRecord /\ e.intended = calls[i].intended
      BY <1>2 DEF CallRecord, CallStates
    <3>2. calls' = [calls EXCEPT ![i] = e]
      BY <2>4 DEF Done
    <3> QED BY <3>1, <3>2
  <2> QED BY <2>1, <2>2, <2>3, <2>4 DEF Call
<1>4. calls' \in Seq(CallRecord) /\ DOMAIN calls' = DOMAIN calls
  BY <1>1, <1>3, ReplaceElement
<1>5. DOMAIN calls = 1..Len(calls)
  BY <1>1, LenProperties
<1>6. \A j \in DOMAIN calls \ {i} : calls'[j] = calls[j]
  BY <1>3
<1>7. calls'[i].intended = calls[i].intended
  BY <1>3
<1>8. UNCHANGED <<rate, arrival, pc, ret, now, next, ctxDone>>
  BY DEF Call, Begin, Finish, Deliver, Done
<1> QED BY <1>4, <1>5, <1>6, <1>7, <1>8

LEMMA InFlightFinite ==
  ASSUME TypeOK PROVE IsFiniteSet(InFlight)
<1>1. DOMAIN calls = 1..Len(calls) /\ Len(calls) \in Nat
  BY LenProperties DEF TypeOK
<1>2. IsFiniteSet(1..Len(calls))
  BY <1>1, FS_Interval
<1> QED BY <1>1, <1>2, FS_Subset DEF InFlight

\* A goroutine stays in flight until its Done, which releases the WaitGroup.
LEMMA InFlightStep ==
  ASSUME TypeOK, NEW i \in DOMAIN calls, Call(i)
  PROVE  \/ InFlight' = InFlight /\ wg' = wg
         \/ i \in InFlight /\ InFlight' = InFlight \ {i} /\ wg' = wg - 1
<1>1. calls[i].st # "done"
  BY DEF Call, Begin, Finish, Deliver, Done
<1>2. DOMAIN calls' = DOMAIN calls /\ \A j \in DOMAIN calls \ {i} : calls'[j] = calls[j]
  BY SteppedCall
<1>3. \/ calls'[i].st # "done" /\ wg' = wg
      \/ calls'[i].st = "done" /\ wg' = wg - 1
  <2>1. calls \in Seq(CallRecord)
    BY DEF TypeOK, CallRecord
  <2>2. calls[i] \in CallRecord
    BY <2>1, ElementOfSeq, LenProperties
  <2> QED BY <2>2 DEF Call, Begin, Finish, Deliver, Done, CallRecord
<1> QED BY <1>1, <1>2, <1>3 DEF InFlight

-------------------------------------------------------------------------------
(* The inductive invariant, one lemma per part.                            *)

LEMMA Initially == Init => IInv
<1> SUFFICES ASSUME Init PROVE IInv
  OBVIOUS
<1>1. calls = <<>> /\ calls \in Seq(CallRecord) /\ DOMAIN calls = {}
  BY EmptySeq DEF Init
<1>2. InFlight = {} /\ Cardinality(InFlight) = 0
  BY <1>1, FS_EmptySet DEF InFlight
<1>3. TypeOK
  BY <1>1 DEF Init, TypeOK, CallRecord
<1>4. WgCountsInFlight
  BY <1>2 DEF Init, WgCountsInFlight
<1>5. CallsBounded /\ SampleBookkeeping /\ SpawnedWhenDue
  BY <1>1 DEF CallsBounded, SampleBookkeeping, SpawnedWhenDue
<1>6. ControlState
  BY DEF Init, ControlState
<1> QED BY <1>3, <1>4, <1>5, <1>6 DEF IInv

\* A Dispatch appends NewCall and takes one more reference.
LEMMA DispatchFacts ==
  ASSUME TypeOK, ControlState, DriverAssumption, Dispatch
  PROVE  /\ NewCall \in CallRecord
         /\ calls' = Append(calls, NewCall)
         /\ wg' = wg + 1
         /\ next <= now
         /\ next' \in Nat
         /\ pc \in {"loop", "select"} /\ pc' = "loop"
         /\ UNCHANGED <<rate, arrival, ret, now, ctxDone>>
<1>1. NewCall \in CallRecord
  BY DEF TypeOK, NewCall, CallRecord, CallStates
<1>2. PICK d \in Interval : next' = next + d
  BY DEF Dispatch, Advance
<1>3. d \in Nat
  <2>1. rate > 0
    BY DEF ControlState, Dispatch, TimerFires, CatchUp
  <2>2. MeanInterval \in Nat
    BY <2>1, MeanIntervalPositive DEF TypeOK
  <2> QED BY <2>2 DEF Interval, DriverAssumption
<1>4. next' \in Nat
  BY <1>2, <1>3 DEF TypeOK
<1>5. next <= now
  BY DEF Dispatch, TimerFires, CatchUp, TypeOK
<1> QED BY <1>1, <1>4, <1>5 DEF Dispatch, TimerFires, CatchUp

LEMMA TypeStep == IInv /\ [Next]_vars => TypeOK'
<1> SUFFICES ASSUME IInv, [Next]_vars PROVE TypeOK'
  OBVIOUS
<1> USE DEF IInv
<1>1. calls \in Seq(CallRecord)
  BY DEF TypeOK, CallRecord
<1>2. CASE Dispatch
  <2>1. NewCall \in CallRecord /\ calls' = Append(calls, NewCall)
    BY <1>2, DriverAssumption, DispatchFacts
  <2>2. calls' \in Seq(CallRecord)
    BY <1>1, <2>1, AppendProperties
  <2>3. /\ wg' = wg + 1 /\ next' \in Nat /\ pc' = "loop"
        /\ UNCHANGED <<rate, arrival, ret, now, ctxDone>>
    BY <1>2, DriverAssumption, DispatchFacts
  <2> QED BY <2>2, <2>3 DEF TypeOK, CallRecord
<1>3. ASSUME NEW i \in DOMAIN calls, Call(i) PROVE TypeOK'
  <2>1. calls' \in Seq(CallRecord) /\ UNCHANGED <<rate, arrival, pc, ret, now, next, ctxDone>>
    BY <1>3, SteppedCall
  <2>2. wg' \in Nat
    <3>1. CASE wg' = wg
      BY <3>1 DEF TypeOK
    <3>2. CASE i \in InFlight /\ wg' = wg - 1
      <4>1. IsFiniteSet(InFlight) /\ Cardinality(InFlight) \in Nat /\ InFlight # {}
        BY <3>2, InFlightFinite, FS_CardinalityType
      <4>2. Cardinality(InFlight) # 0
        BY <4>1, FS_EmptySet
      <4> QED BY <3>2, <4>1, <4>2 DEF WgCountsInFlight
    <3> QED BY <1>3, <3>1, <3>2, InFlightStep
  <2> QED BY <2>1, <2>2 DEF TypeOK, CallRecord
<1>4. CASE Reject \/ Start \/ Sleep \/ Canceled \/ LoopEnds \/ Return \/ Cancel \/ Tick
  <2>1. CASE Reject \/ Start \/ Sleep
    BY <2>1 DEF TypeOK, Reject, Start, Sleep
  <2>2. CASE Canceled \/ LoopEnds \/ Return
    BY <2>2 DEF TypeOK, Canceled, LoopEnds, Return
  <2>3. CASE Cancel
    BY <2>3 DEF TypeOK, Cancel
  <2>4. CASE Tick
    <3>1. now' \in Nat
      BY <2>4 DEF TypeOK, Tick
    <3> QED BY <2>4, <3>1 DEF TypeOK, Tick
  <2> QED BY <1>4, <2>1, <2>2, <2>3, <2>4
<1>5. CASE UNCHANGED vars
  BY <1>5 DEF TypeOK, vars
<1> QED BY <1>2, <1>3, <1>4, <1>5 DEF Next, Scheduler

LEMMA WgStep == IInv /\ [Next]_vars => WgCountsInFlight'
<1> SUFFICES ASSUME IInv, [Next]_vars PROVE WgCountsInFlight'
  OBVIOUS
<1> USE DEF IInv
<1>1. IsFiniteSet(InFlight) /\ Cardinality(InFlight) \in Nat /\ wg = Cardinality(InFlight)
  BY InFlightFinite, FS_CardinalityType DEF WgCountsInFlight
<1>2. CASE Dispatch
  <2>1. NewCall \in CallRecord /\ calls' = Append(calls, NewCall) /\ wg' = wg + 1
    BY <1>2, DriverAssumption, DispatchFacts
  <2> DEFINE n == Len(calls) + 1
  <2>2. InFlight' = InFlight \cup {n} /\ n \notin InFlight
    <3>1. DOMAIN calls = 1..Len(calls) /\ DOMAIN calls' = 1..n /\ Len(calls) \in Nat
      BY <2>1, AppendedCall, LenProperties DEF TypeOK
    <3>2. calls'[n] = NewCall /\ \A j \in DOMAIN calls : calls'[j] = calls[j]
      BY <2>1, AppendedCall
    <3>3. NewCall.st # "done"
      BY DEF NewCall
    <3> QED BY <3>1, <3>2, <3>3 DEF InFlight
  <2>3. Cardinality(InFlight') = Cardinality(InFlight) + 1
    BY <1>1, <2>2, FS_AddElement
  <2> QED BY <1>1, <2>1, <2>3 DEF WgCountsInFlight
<1>3. ASSUME NEW i \in DOMAIN calls, Call(i) PROVE WgCountsInFlight'
  <2>1. CASE InFlight' = InFlight /\ wg' = wg
    BY <1>1, <2>1 DEF WgCountsInFlight
  <2>2. CASE i \in InFlight /\ InFlight' = InFlight \ {i} /\ wg' = wg - 1
    <3>1. Cardinality(InFlight') = Cardinality(InFlight) - 1
      BY <1>1, <2>2, FS_RemoveElement
    <3> QED BY <1>1, <2>2, <3>1 DEF WgCountsInFlight
  <2> QED BY <1>3, <2>1, <2>2, InFlightStep
<1>4. CASE UNCHANGED <<calls, wg>>
  BY <1>1, <1>4 DEF WgCountsInFlight, InFlight
<1>5. CASE Reject \/ Start \/ Sleep \/ Canceled \/ LoopEnds \/ Return \/ Cancel \/ Tick
           \/ UNCHANGED vars
  BY <1>4, <1>5 DEF Reject, Start, Sleep, Canceled, LoopEnds, Return, Cancel, Tick, vars
<1> QED BY <1>2, <1>3, <1>5 DEF Next, Scheduler

LEMMA BoundStep == IInv /\ [Next]_vars => CallsBounded'
<1> SUFFICES ASSUME IInv, [Next]_vars PROVE CallsBounded'
  OBVIOUS
<1> USE DEF IInv
<1>1. CASE Dispatch
  <2>1. NewCall \in CallRecord /\ calls' = Append(calls, NewCall)
    BY <1>1, DriverAssumption, DispatchFacts
  <2>2. DOMAIN calls' = 1..Len(calls) + 1 /\ Len(calls) \in Nat
    BY <2>1, AppendedCall, LenProperties DEF TypeOK
  <2>3. MaxCalls \in Nat /\ Len(calls) < MaxCalls
    BY <1>1, DriverAssumption DEF Dispatch, MaxCalls, DriverAssumption
  <2> QED BY <2>2, <2>3 DEF CallsBounded
<1>2. ASSUME NEW i \in DOMAIN calls, Call(i) PROVE CallsBounded'
  BY <1>2, SteppedCall DEF CallsBounded
<1>3. CASE Reject \/ Start \/ Sleep \/ Canceled \/ LoopEnds \/ Return \/ Cancel \/ Tick
           \/ UNCHANGED vars
  BY <1>3 DEF CallsBounded, Reject, Start, Sleep, Canceled, LoopEnds, Return, Cancel, Tick,
              vars
<1> QED BY <1>1, <1>2, <1>3 DEF Next, Scheduler

LEMMA SamplesStep == IInv /\ [Next]_vars => SampleBookkeeping'
<1> SUFFICES ASSUME IInv, [Next]_vars PROVE SampleBookkeeping'
  OBVIOUS
<1> USE DEF IInv
<1>1. calls \in Seq(CallRecord) /\ \A i \in DOMAIN calls : calls[i] \in CallRecord
  BY ElementOfSeq, LenProperties DEF TypeOK, CallRecord
<1>2. CASE Dispatch
  <2>1. NewCall \in CallRecord /\ calls' = Append(calls, NewCall)
    BY <1>2, DriverAssumption, DispatchFacts
  <2>2. /\ DOMAIN calls' = 1..Len(calls) + 1 /\ DOMAIN calls = 1..Len(calls)
        /\ calls'[Len(calls) + 1] = NewCall
        /\ \A j \in DOMAIN calls : calls'[j] = calls[j]
    BY <2>1, AppendedCall
  <2>3. Len(calls) \in Nat
    BY <1>1, LenProperties
  <2>4. ASSUME NEW j \in DOMAIN calls' PROVE j \in DOMAIN calls \/ j = Len(calls) + 1
    BY <2>2, <2>3
  <2>5. NewCall.st = "spawned" /\ NewCall.samples = 0
    BY DEF NewCall
  <2> QED BY <2>2, <2>4, <2>5 DEF SampleBookkeeping
<1>3. ASSUME NEW i \in DOMAIN calls, Call(i) PROVE SampleBookkeeping'
  <2>1. DOMAIN calls' = DOMAIN calls /\ \A j \in DOMAIN calls \ {i} : calls'[j] = calls[j]
    BY <1>3, SteppedCall
  <2>2. calls'[i].samples = IF calls'[i].st \in {"sampled", "done"} THEN 1 ELSE 0
    <3>1. calls[i].samples = IF calls[i].st \in {"sampled", "done"} THEN 1 ELSE 0
      BY DEF SampleBookkeeping
    <3>2. CASE Begin(i)
      BY <1>1, <3>1, <3>2 DEF Begin, CallRecord
    <3>3. CASE Finish(i)
      BY <1>1, <3>1, <3>3 DEF Finish, CallRecord
    <3>4. CASE Deliver(i)
      <4>1. calls[i].samples = 0
        BY <3>1, <3>4 DEF Deliver
      <4>2. calls'[i] = [calls[i] EXCEPT !.st = "sampled", !.samples = calls[i].samples + 1]
        BY <1>1, <3>4 DEF Deliver
      <4>3. calls'[i].st = "sampled" /\ calls'[i].samples = calls[i].samples + 1
        BY <1>1, <4>2 DEF CallRecord
      <4> QED BY <4>1, <4>3
    <3>5. CASE Done(i)
      BY <1>1, <3>1, <3>5 DEF Done, CallRecord
    <3> QED BY <1>3, <3>2, <3>3, <3>4, <3>5 DEF Call
  <2> QED BY <2>1, <2>2 DEF SampleBookkeeping
<1>4. CASE UNCHANGED calls
  BY <1>4 DEF SampleBookkeeping
<1>5. CASE Reject \/ Start \/ Sleep \/ Canceled \/ LoopEnds \/ Return \/ Cancel \/ Tick
           \/ UNCHANGED vars
  BY <1>4, <1>5 DEF Reject, Start, Sleep, Canceled, LoopEnds, Return, Cancel, Tick, vars
<1> QED BY <1>2, <1>3, <1>5 DEF Next, Scheduler

LEMMA DueStep == IInv /\ [Next]_vars => SpawnedWhenDue'
<1> SUFFICES ASSUME IInv, [Next]_vars PROVE SpawnedWhenDue'
  OBVIOUS
<1> USE DEF IInv
<1>1. /\ calls \in Seq(CallRecord)
      /\ \A i \in DOMAIN calls : calls[i] \in CallRecord
      /\ now \in Nat
  BY ElementOfSeq, LenProperties DEF TypeOK, CallRecord
<1>2. CASE Dispatch
  <2>1. /\ NewCall \in CallRecord /\ calls' = Append(calls, NewCall)
        /\ next <= now /\ now' = now
    BY <1>2, DriverAssumption, DispatchFacts
  <2>2. /\ DOMAIN calls' = 1..Len(calls) + 1 /\ DOMAIN calls = 1..Len(calls)
        /\ calls'[Len(calls) + 1] = NewCall
        /\ \A j \in DOMAIN calls : calls'[j] = calls[j]
    BY <2>1, AppendedCall
  <2>3. Len(calls) \in Nat
    BY <1>1, LenProperties
  <2>4. ASSUME NEW j \in DOMAIN calls' PROVE j \in DOMAIN calls \/ j = Len(calls) + 1
    BY <2>2, <2>3
  <2>5. NewCall.st = "spawned" /\ NewCall.intended = next
    BY DEF NewCall
  <2> QED BY <2>1, <2>2, <2>4, <2>5 DEF SpawnedWhenDue
<1>3. ASSUME NEW i \in DOMAIN calls, Call(i) PROVE SpawnedWhenDue'
  <2>1. /\ DOMAIN calls' = DOMAIN calls
        /\ \A j \in DOMAIN calls \ {i} : calls'[j] = calls[j]
        /\ calls'[i].intended = calls[i].intended
        /\ now' = now
    BY <1>3, SteppedCall
  <2>2. /\ calls[i].intended <= now
        /\ calls[i].st # "spawned" => calls[i].started >= calls[i].intended
    BY DEF SpawnedWhenDue
  <2>3. calls'[i].st # "spawned" => calls'[i].started >= calls'[i].intended
    <3>1. CASE Begin(i)
      BY <1>1, <2>2, <3>1 DEF Begin, CallRecord
    <3>2. CASE Finish(i)
      BY <1>1, <2>2, <3>2 DEF Finish, CallRecord
    <3>3. CASE Deliver(i)
      BY <1>1, <2>2, <3>3 DEF Deliver, CallRecord
    <3>4. CASE Done(i)
      BY <1>1, <2>2, <3>4 DEF Done, CallRecord
    <3> QED BY <1>3, <3>1, <3>2, <3>3, <3>4 DEF Call
  <2> QED BY <2>1, <2>2, <2>3 DEF SpawnedWhenDue
<1>4. CASE UNCHANGED <<calls, now>>
  BY <1>4 DEF SpawnedWhenDue
<1>5. CASE Tick
  <2>1. UNCHANGED calls /\ now' = now + 1
    BY <1>5 DEF Tick
  <2>2. \A i \in DOMAIN calls : calls[i].intended <= now + 1
    BY <1>1 DEF SpawnedWhenDue, CallRecord
  <2> QED BY <2>1, <2>2 DEF SpawnedWhenDue
<1>6. CASE Reject \/ Start \/ Sleep \/ Canceled \/ LoopEnds \/ Return \/ Cancel
           \/ UNCHANGED vars
  BY <1>4, <1>6 DEF Reject, Start, Sleep, Canceled, LoopEnds, Return, Cancel, vars
<1> QED BY <1>2, <1>3, <1>5, <1>6 DEF Next, Scheduler

\* Once returned the scheduler spawns no more, and nothing is in flight to
\* move the counter.
LEMMA ControlStep == IInv /\ [Next]_vars => ControlState'
<1> SUFFICES ASSUME IInv, [Next]_vars PROVE ControlState'
  OBVIOUS
<1> USE DEF IInv
<1>1. CASE Dispatch
  <2>1. pc \in {"loop", "select"} /\ pc' = "loop" /\ UNCHANGED <<rate, ret, ctxDone>>
    BY <1>1, DriverAssumption, DispatchFacts
  <2> QED BY <2>1 DEF ControlState
<1>2. ASSUME NEW i \in DOMAIN calls, Call(i) PROVE ControlState'
  <2>1. UNCHANGED <<rate, pc, ret, ctxDone>>
    BY <1>2, SteppedCall
  <2>2. calls # <<>>
    BY <1>2
  <2>3. i \in InFlight
    BY <1>2 DEF InFlight, Call, Begin, Finish, Deliver, Done
  <2>4. wg # 0
    <3>1. IsFiniteSet(InFlight) /\ InFlight # {}
      BY <2>3, InFlightFinite
    <3> QED BY <3>1, FS_EmptySet DEF WgCountsInFlight
  <2> QED BY <2>1, <2>2, <2>4 DEF ControlState
<1>3. CASE Reject \/ Start \/ Sleep
  <2>1. pc = "call" => wg = 0
    <3>1. ASSUME calls = <<>> PROVE InFlight = {}
      BY <3>1 DEF InFlight
    <3> QED BY <3>1, FS_EmptySet DEF WgCountsInFlight, ControlState
  <2> QED BY <1>3, <2>1 DEF ControlState, Reject, Start, Sleep, ValidArguments
<1>4. CASE Canceled \/ LoopEnds \/ Return
  BY <1>4 DEF ControlState, Canceled, LoopEnds, Return
<1>5. CASE Cancel \/ Tick \/ UNCHANGED vars
  BY <1>5 DEF ControlState, Cancel, Tick, vars
<1> QED BY <1>1, <1>2, <1>3, <1>4, <1>5 DEF Next, Scheduler

THEOREM Invariance == Spec => []IInv
<1>1. IInv /\ [Next]_vars => IInv'
  BY TypeStep, BoundStep, WgStep, SamplesStep, DueStep, ControlStep DEF IInv
<1> QED BY Initially, <1>1, PTL DEF Spec

-------------------------------------------------------------------------------

\* Every variable keeps its type; in particular the WaitGroup's counter never
\* goes negative, which would panic.
THEOREM TypeCorrect == Spec => []TypeOK
<1>1. IInv => TypeOK
  BY DEF IInv
<1> QED BY Invariance, <1>1, PTL

\* RunOpenLoop returns only when each of its goroutines has delivered exactly
\* one Sample, whatever the rate, the schedule and the moment of a cancel.
THEOREM Delivery == Spec => []SampledOnceAtReturn
<1>1. IInv => SampledOnceAtReturn
  <2> SUFFICES ASSUME IInv, pc = "returned", NEW i \in DOMAIN calls
               PROVE  calls[i].samples = 1
    BY DEF SampledOnceAtReturn
  <2>1. Cardinality(InFlight) = 0 /\ IsFiniteSet(InFlight)
    BY InFlightFinite DEF IInv, ControlState, WgCountsInFlight
  <2>2. InFlight = {}
    BY <2>1, FS_EmptySet
  <2> QED BY <2>2 DEF IInv, InFlight, SampleBookkeeping
<1> QED BY Invariance, <1>1, PTL

\* No call starts before the moment its latency is counted from.
THEOREM Punctual == Spec => []NeverEarly
<1>1. IInv => NeverEarly
  BY DEF IInv, SpawnedWhenDue, NeverEarly
<1> QED BY Invariance, <1>1, PTL

-------------------------------------------------------------------------------
(* The schedule.                                                           *)

LEMMA ZeroMultiple ==
  ASSUME NEW m \in Nat PROVE 0 * m = 0
  OBVIOUS

LEMMA NextMultiple ==
  ASSUME NEW m \in Nat, NEW n \in Nat PROVE n * m + m = (n + 1) * m
  OBVIOUS

\* Counting the multiples of m in 0..d by the first one beyond d.
LEMMA MultiplesIn ==
  ASSUME NEW m \in Nat \ {0}, NEW d \in Nat, NEW n \in Nat \ {0},
         (n - 1) * m <= d, d < n * m
  PROVE  n = d \div m + 1
<1> DEFINE q == d \div m
<1>1. q \in Nat /\ q * m <= d /\ d < (q + 1) * m
  OBVIOUS
<1> HIDE DEF q
<1>2. ~(n - 1 > q)
  <2>1. n - 1 > q => (n - 1) * m >= (q + 1) * m
    BY <1>1
  <2> QED BY <1>1, <2>1
<1>3. ~(n - 1 < q)
  <2>1. n - 1 < q => n * m <= q * m
    BY <1>1
  <2> QED BY <1>1, <2>1
<1>4. n = q + 1
  BY <1>1, <1>2, <1>3
<1> QED BY <1>4 DEF q

LEMMA ScheduleStep == IInv /\ ScheduleInv /\ [Next]_vars => ScheduleInv'
<1> SUFFICES ASSUME IInv, ScheduleInv, [Next]_vars PROVE ScheduleInv'
  OBVIOUS
<1> USE DEF IInv
<1>1. CASE Dispatch
  <2>1. /\ NewCall \in CallRecord /\ calls' = Append(calls, NewCall)
        /\ pc \in {"loop", "select"} /\ pc' = "loop"
        /\ UNCHANGED <<rate, arrival, ret>>
    BY <1>1, DriverAssumption, DispatchFacts
  <2>2. ret = "none"
    BY <2>1 DEF ControlState
  <2> SUFFICES ASSUME arrival = "uniform" PROVE OnSchedule'
    BY <2>1 DEF ScheduleInv
  <2>3. OnSchedule
    BY <2>1, <2>2 DEF ScheduleInv
  <2>4. MeanInterval' = MeanInterval /\ MeanInterval \in Nat
    BY <2>1, <2>3, DriverAssumption, MeanIntervalPositive DEF TypeOK, OnSchedule, MeanInterval
  <2>5. next' = next + MeanInterval
    BY <1>1 DEF Dispatch, Advance, Interval
  <2>6. next <= Duration
    BY <1>1, <2>3 DEF Dispatch, TimerFires, CatchUp, InWindow, OnSchedule
  <2>7. /\ Len(calls') = Len(calls) + 1 /\ Len(calls) \in Nat
        /\ DOMAIN calls' = 1..Len(calls) + 1 /\ DOMAIN calls = 1..Len(calls)
        /\ calls'[Len(calls) + 1] = NewCall
        /\ \A j \in DOMAIN calls : calls'[j] = calls[j]
    BY <2>1, AppendedCall, LenProperties DEF TypeOK
  <2>8. next' = Len(calls') * MeanInterval'
    BY <2>3, <2>4, <2>5, <2>7, NextMultiple DEF OnSchedule
  <2>9. ASSUME NEW j \in DOMAIN calls'
        PROVE  /\ calls'[j].intended = (j - 1) * MeanInterval
               /\ calls'[j].intended <= Duration
    <3>1. CASE j \in DOMAIN calls
      BY <2>3, <2>7, <3>1 DEF OnSchedule
    <3>2. CASE j = Len(calls) + 1
      <4>1. calls'[j].intended = next
        BY <2>7, <3>2 DEF NewCall
      <4>2. j - 1 = Len(calls)
        BY <2>7, <3>2
      <4> QED BY <2>3, <2>6, <4>1, <4>2 DEF OnSchedule
    <3> QED BY <2>7, <3>1, <3>2
  <2> QED BY <2>1, <2>2, <2>3, <2>4, <2>8, <2>9 DEF OnSchedule
<1>2. ASSUME NEW i \in DOMAIN calls, Call(i) PROVE ScheduleInv'
  <2>1. /\ calls' \in Seq(CallRecord) /\ DOMAIN calls' = DOMAIN calls
        /\ \A j \in DOMAIN calls \ {i} : calls'[j] = calls[j]
        /\ calls'[i].intended = calls[i].intended
        /\ UNCHANGED <<rate, arrival, pc, ret, now, next>>
    BY <1>2, SteppedCall
  <2>2. Len(calls') = Len(calls)
    <3>1. /\ Len(calls) \in Nat /\ Len(calls') \in Nat
          /\ 1..Len(calls') = 1..Len(calls)
      BY <2>1, LenProperties DEF TypeOK
    <3> QED BY <3>1
  <2>3. \A j \in DOMAIN calls' : calls'[j].intended = calls[j].intended
    BY <2>1
  <2> QED BY <2>1, <2>2, <2>3 DEF ScheduleInv, OnSchedule, MeanInterval
<1>3. CASE Start
  <2>1. calls = <<>> /\ Len(calls) = 0 /\ DOMAIN calls = {} /\ ret = "none"
    BY <1>3 DEF Start, ControlState
  <2>2. /\ rate > 0 /\ now = 0 /\ next' = 0 /\ calls' = calls /\ pc' = "loop"
        /\ UNCHANGED <<rate, ret>>
    BY <1>3 DEF Start, ValidArguments, ScheduleInv
  <2>3. MeanInterval' \in Nat
    BY <2>2, DriverAssumption, MeanIntervalPositive DEF TypeOK, MeanInterval
  <2>4. Len(calls') = 0 /\ DOMAIN calls' = {} /\ next' = Len(calls') * MeanInterval'
    <3>1. 0 * MeanInterval' = 0
      BY <2>3, ZeroMultiple
    <3>2. Len(calls') = 0 /\ DOMAIN calls' = {}
      BY <2>1, <2>2
    <3> QED BY <2>2, <3>1, <3>2
  <2>5. OnSchedule'
    BY <2>1, <2>2, <2>4 DEF OnSchedule
  <2> QED BY <2>2, <2>5 DEF ScheduleInv
<1>4. CASE Reject
  BY <1>4 DEF Reject, ScheduleInv
<1>5. CASE Sleep \/ Canceled \/ LoopEnds
  <2>1. ret # "ok"
    BY <1>5 DEF Sleep, Canceled, LoopEnds, ControlState
  <2>2. CASE Sleep
    BY <2>1, <2>2 DEF Sleep, InWindow, ScheduleInv, OnSchedule, MeanInterval
  <2>3. CASE Canceled
    BY <2>1, <2>3 DEF Canceled, ScheduleInv, OnSchedule, MeanInterval
  <2>4. CASE LoopEnds
    <3>1. next > Duration
      BY <2>4, DriverAssumption DEF LoopEnds, InWindow, DriverAssumption, TypeOK
    <3> QED BY <2>1, <2>4, <3>1 DEF LoopEnds, ScheduleInv, OnSchedule, MeanInterval
  <2> QED BY <1>5, <2>2, <2>3, <2>4
<1>6. CASE Return
  BY <1>6 DEF Return, ScheduleInv, OnSchedule, MeanInterval, ControlState
<1>7. CASE Cancel \/ Tick \/ UNCHANGED vars
  BY <1>7 DEF Cancel, Tick, vars, ScheduleInv, OnSchedule, MeanInterval
<1> QED BY <1>1, <1>2, <1>3, <1>4, <1>5, <1>6, <1>7 DEF Next, Scheduler

\* Under uniform arrivals neither a late scheduler nor a slow target moves an
\* intended time, and a window that ends by itself has issued every arrival.
THEOREM NoCoordinatedOmission == Spec => []ScheduleKept
<1>1. Init => ScheduleInv
  BY DEF Init, ScheduleInv
<1>2. IInv /\ ScheduleInv => ScheduleKept
  <2> SUFFICES ASSUME IInv, ScheduleInv, arrival = "uniform", calls # <<>>
               PROVE  /\ \A i \in DOMAIN calls : calls[i].intended = (i - 1) * MeanInterval
                      /\ ret = "ok" => Len(calls) = (Duration \div MeanInterval) + 1
    BY DEF ScheduleKept
  <2>1. CASE ret = "rejected"
    BY <2>1 DEF IInv, ControlState
  <2>2. CASE ret # "rejected"
    <3>1. OnSchedule
      BY <2>2 DEF IInv, ControlState, ScheduleInv
    <3>2. MeanInterval \in Nat \ {0} /\ Duration \in Nat
      BY <3>1, DriverAssumption, MeanIntervalPositive
         DEF IInv, TypeOK, OnSchedule, DriverAssumption
    <3>3. Len(calls) \in Nat \ {0} /\ Len(calls) \in DOMAIN calls
      BY LenProperties, EmptySeq DEF IInv, TypeOK
    <3>4. (Len(calls) - 1) * MeanInterval <= Duration
      BY <3>1, <3>3 DEF OnSchedule
    <3>5. ret = "ok" => Duration < Len(calls) * MeanInterval
      <4>1. Len(calls) * MeanInterval \in Nat
        BY <3>1 DEF OnSchedule, IInv, TypeOK
      <4> QED BY <3>1, <3>2, <4>1 DEF OnSchedule
    <3>6. ret = "ok" => Len(calls) = (Duration \div MeanInterval) + 1
      BY <3>2, <3>3, <3>4, <3>5, MultiplesIn
    <3> QED BY <3>1, <3>6 DEF OnSchedule
  <2> QED BY <2>1, <2>2
<1> QED BY Invariance, <1>1, <1>2, ScheduleStep, PTL DEF Spec

-------------------------------------------------------------------------------
(* OpenLoop implements LoadWindow.                                         *)

LEMMA WindowInit == Init => Window!Init
<1> SUFFICES ASSUME Init PROVE Window!Init
  OBVIOUS
<1>1. calls = <<>> /\ DOMAIN calls = {}
  BY DEF Init
<1>2. Delivered = {}
  BY <1>1 DEF Delivered
<1> QED BY <1>1, <1>2 DEF Init, Window!Init

\* With nothing in flight every call has delivered its Sample.
LEMMA AllDelivered == IInv /\ wg = 0 => Delivered = DOMAIN calls
<1> SUFFICES ASSUME IInv, wg = 0 PROVE Delivered = DOMAIN calls
  OBVIOUS
<1>1. InFlight = {}
  BY InFlightFinite, FS_EmptySet DEF IInv, WgCountsInFlight
<1>2. \A i \in DOMAIN calls : calls[i].samples = 1
  BY <1>1 DEF InFlight, IInv, SampleBookkeeping
<1> QED BY <1>2 DEF Delivered

LEMMA WindowStep == IInv /\ [Next]_vars => [Window!Next]_(Window!windowVars)
<1> SUFFICES ASSUME IInv, [Next]_vars PROVE [Window!Next]_(Window!windowVars)
  OBVIOUS
<1> USE DEF IInv
<1>1. CASE Dispatch
  <2> DEFINE n == Len(calls) + 1
  <2>1. /\ NewCall \in CallRecord /\ calls' = Append(calls, NewCall)
        /\ pc \in {"loop", "select"} /\ pc' = "loop"
        /\ UNCHANGED <<ret, ctxDone>>
    BY <1>1, DriverAssumption, DispatchFacts
  <2>2. /\ Len(calls) \in Nat
        /\ DOMAIN calls' = 1..n /\ DOMAIN calls = 1..Len(calls)
        /\ calls'[n] = NewCall
        /\ \A j \in DOMAIN calls : calls'[j] = calls[j]
    BY <2>1, AppendedCall, LenProperties DEF TypeOK
  <2>3. n \in 1..MaxCalls /\ n \notin DOMAIN calls /\ DOMAIN calls' = DOMAIN calls \cup {n}
    <3>1. MaxCalls \in Nat /\ Len(calls) < MaxCalls
      BY <1>1, DriverAssumption DEF Dispatch, MaxCalls, DriverAssumption
    <3> QED BY <2>2, <3>1
  <2>4. Delivered' = Delivered
    BY <2>2, <2>3 DEF Delivered, NewCall
  <2>5. Window!Issue(n)
    BY <2>1, <2>3, <2>4 DEF Window!Issue
  <2> QED BY <2>3, <2>5 DEF Window!Next
<1>2. ASSUME NEW i \in DOMAIN calls, Call(i)
      PROVE  [Window!Next]_(Window!windowVars)
  <2>1. /\ DOMAIN calls' = DOMAIN calls
        /\ \A j \in DOMAIN calls \ {i} : calls'[j] = calls[j]
        /\ UNCHANGED <<pc, ret, ctxDone>>
    BY <1>2, SteppedCall
  <2>2. SampleBookkeeping'
    BY SamplesStep
  <2>3. CASE Begin(i) \/ Finish(i) \/ Done(i)
    <3>1. (calls'[i].samples > 0) <=> (calls[i].samples > 0)
      <4>1. /\ calls \in Seq(CallRecord)
            /\ calls[i] \in CallRecord
        BY ElementOfSeq, LenProperties DEF TypeOK, CallRecord
      <4> QED BY <2>3, <4>1 DEF Begin, Finish, Done, CallRecord
    <3>2. Delivered' = Delivered
      BY <2>1, <3>1 DEF Delivered
    <3> QED BY <2>1, <3>2 DEF Window!windowVars
  <2>4. CASE Deliver(i)
    <3>1. calls[i].st = "finished" /\ calls'[i].st = "sampled"
      <4>1. calls \in Seq(CallRecord) /\ calls[i] \in CallRecord
        BY ElementOfSeq, LenProperties DEF TypeOK, CallRecord
      <4> QED BY <2>4, <4>1 DEF Deliver, CallRecord
    <3>2. calls[i].samples = 0 /\ calls'[i].samples = 1
      BY <2>1, <2>2, <3>1 DEF SampleBookkeeping
    <3>3. Delivered' = Delivered \cup {i} /\ i \notin Delivered
      BY <2>1, <3>2 DEF Delivered
    <3>4. pc \notin {"call", "returned"}
      <4>1. calls # <<>>
        BY <1>2
      <4>2. i \in InFlight
        BY <3>1 DEF InFlight
      <4>3. wg # 0
        BY <4>2, InFlightFinite, FS_EmptySet DEF WgCountsInFlight
      <4> QED BY <4>1, <4>3 DEF ControlState
    <3>5. Window!Land(i)
      BY <2>1, <3>3, <3>4 DEF Window!Land
    <3>6. i \in 1..MaxCalls
      BY <1>2 DEF CallsBounded
    <3> QED BY <3>5, <3>6 DEF Window!Next
  <2> QED BY <1>2, <2>3, <2>4 DEF Call
<1>3. CASE Start
  <2>1. calls = <<>> /\ DOMAIN calls = {} /\ ret = "none"
    BY <1>3 DEF Start, ControlState
  <2>2. Delivered = {}
    BY <2>1 DEF Delivered
  <2>3. Delivered' = Delivered
    BY <1>3 DEF Start, Delivered
  <2>4. Window!Open
    BY <1>3, <2>1, <2>2, <2>3 DEF Start, Window!Open
  <2> QED BY <2>4 DEF Window!Next
<1>4. CASE Reject \/ Sleep \/ Canceled \/ LoopEnds \/ Tick \/ UNCHANGED vars
  <2>1. Delivered' = Delivered
    BY <1>4 DEF Reject, Sleep, Canceled, LoopEnds, Tick, vars, Delivered
  <2>2. CASE Reject
    <3>1. ret = "none"
      BY <2>2 DEF Reject, ControlState
    <3> QED BY <2>1, <2>2, <3>1 DEF Reject, Window!windowVars
  <2>3. CASE Sleep \/ Canceled \/ LoopEnds \/ Tick \/ UNCHANGED vars
    BY <2>1, <2>3 DEF Sleep, Canceled, LoopEnds, Tick, vars, Window!windowVars
  <2> QED BY <1>4, <2>2, <2>3
<1>5. CASE Return
  <2>1. Delivered = DOMAIN calls /\ Delivered' = Delivered
    BY <1>5, AllDelivered DEF Return, Delivered
  <2>2. ret' \in {"ok", "canceled"} /\ ret' # "rejected" /\ pc' = "returned"
    BY <1>5 DEF Return
  <2>3. Window!CloseAs(ret')
    BY <1>5, <2>1, <2>2 DEF Return, ControlState, Window!CloseAs
  <2> QED BY <2>2, <2>3 DEF Window!Next
<1>6. CASE Cancel
  <2>1. Delivered' = Delivered
    BY <1>6 DEF Cancel, Delivered
  <2>2. Window!Cancel
    BY <1>6, <2>1 DEF Cancel, Window!Cancel
  <2> QED BY <2>2 DEF Window!Next
<1> QED BY <1>1, <1>2, <1>3, <1>4, <1>5, <1>6 DEF Next, Scheduler

\* RunOpenLoop keeps the promise of LoadWindow, with which Ramp is composed.
THEOREM Refinement == Spec => ImplementsLoadWindow
<1> QED BY Invariance, WindowInit, WindowStep, PTL DEF Spec, ImplementsLoadWindow, Window!Spec

===============================================================================
