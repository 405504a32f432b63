--------------------------------- MODULE Fleet ---------------------------------
(***************************************************************************)
(* A sharded run: the pods of cmd/authload run --shard-count, the results  *)
(* directory they share, and cmd/authload aggregate reading it             *)
(* (cmd/authload/main.go, internal/aggregate).  A pod is a ramp seen step  *)
(* by step -- Ramp models the inside of a step -- that writes one file per *)
(* step; nothing else connects pods to each other or to the aggregator.    *)
(*                                                                         *)
(* Rates are those of the whole fleet, multiples of ShardCount.            *)
(***************************************************************************)
EXTENDS Verdict, SequencesExt

CONSTANTS
  ShardCount,                 \* pods; shard indices are 0 .. ShardCount-1
  StartRPS, StepRPS, MaxRPS,  \* the fleet-wide plan
  StepDuration,
  Loads,                      \* what a pod may measure in a step: [samples, health],
                              \* samples a sequence of [latency, outcome]
  Elapsed                     \* wall-clock lengths of a step on a pod

ASSUME FleetAssumption ==
  /\ ShardCount \in Nat \ {0}
  /\ \A r \in {StartRPS, StepRPS, MaxRPS} :
       r \in Nat \ {0} /\ r % ShardCount = 0
  /\ StepDuration \in Nat \ {0}
  /\ Loads \subseteq [samples : Seq([latency : Nat, outcome : Outcomes]), health : Reading]

VARIABLES
  pods,     \* per shard: where the pod is in its ramp
  files,    \* the results directory: file name -> content
  agg,      \* the aggregate command
  measured, \* per shard, the steps measured: [load, raw, report]
  lost      \* history: a write failed or a pod died

vars == <<pods, files, agg, measured, lost>>

Shards == 0..ShardCount - 1

\* Line 270: a pod's share of a fleet-wide rate.
Share(r) == r \div ShardCount

\* The configured early stop applies in every pod.
MutStopAfter == Abort.consecutiveBad

\* Lines 281-294: a sharded pod must run the whole plan, so its own limit on
\* failing steps is raised past the number of steps the plan can have.
StopAfter ==
  IF ShardCount > 1 THEN MaxRPS \div StepRPS + 2 ELSE Abort.consecutiveBad

\* Shards counted from one.
MutFileName(step, shard) == <<step, shard + 1>>

FileName(step, shard) == <<step, shard>>

\* What a file holds: nothing that parses until os.WriteFile has filled it.
Partial == {}
Full(raw) == {raw}

Collected(samples) ==
  FoldLeft(LAMBDA c, s : Add(c, s.latency, s.outcome), New, samples)

\* The aggregate command, when it has nothing in memory.
NotRun(st) == [st |-> st, todo |-> {}, raws |-> {}, steps |-> <<>>, whole |-> FALSE]

Init ==
  /\ pods = [s \in Shards |-> [st |-> "ramp", rate |-> Share(StartRPS), bad |-> 0]]
  /\ files = <<>>
  /\ agg = NotRun("idle")
  /\ measured = [s \in Shards |-> <<>>]
  /\ lost = FALSE

-------------------------------------------------------------------------------
(* A pod.                                                                  *)

Goes(s, st) == pods' = [pods EXCEPT ![s].st = st]

StepsDone(s) == Len(measured[s])

\* One step of the ramp: warmup or settle, measured window, live verdict.
RunStep(s) ==
  /\ pods[s].st = "ramp"
  /\ pods[s].rate <= Share(MaxRPS)
  /\ \E l \in Loads, elapsed \in Elapsed :
       LET raw  == [step |-> StepsDone(s), shard |-> s, offered |-> pods[s].rate,
                    data |-> Collected(l.samples), health |-> l.health]
           limited == Exceeds(l.health)
           pass == EvaluateStep(Snapshot(raw.data, raw.offered, elapsed)) /\ ~limited
           report == [offered |-> raw.offered, pass |-> pass, limited |-> limited]
       IN  /\ measured' = [measured EXCEPT ![s] =
                              Append(@, [load |-> l, raw |-> raw, report |-> report])]
           /\ pods' = [pods EXCEPT ![s].st = "report", ![s].bad = IF pass THEN 0 ELSE @ + 1]
  /\ UNCHANGED <<files, agg, lost>>

Report(s) == Last(measured[s]).raw

Put(s, content) ==
  files' = [f \in DOMAIN files \cup {FileName(Report(s).step, s)} |->
              IF f = FileName(Report(s).step, s) THEN content ELSE files[f]]

\* The increment is not divided among the pods.
MutEndStep(s) ==
  pods' = [pods EXCEPT ![s].st = IF pods[s].bad >= StopAfter THEN "finished" ELSE "ramp",
                       ![s].rate = @ + StepRPS]

\* Back from onStep, the ramp stops or takes the next rate.
EndStep(s) ==
  pods' = [pods EXCEPT ![s].st = IF pods[s].bad >= StopAfter THEN "finished" ELSE "ramp",
                       ![s].rate = @ + Share(StepRPS)]

\* onStep: os.WriteFile creates the file, then fills it ...
CreateFile(s) ==
  /\ pods[s].st = "report"
  /\ Put(s, Partial)
  /\ Goes(s, "fill")
  /\ UNCHANGED <<agg, measured, lost>>

FillFile(s) ==
  /\ pods[s].st = "fill"
  /\ Put(s, Full(Report(s)))
  /\ EndStep(s)
  /\ UNCHANGED <<agg, measured, lost>>

\* ... and either half may fail, which is only a warning (line 315).
WriteFails(s) ==
  /\ pods[s].st \in {"report", "fill"}
  /\ EndStep(s)
  /\ lost' = TRUE
  /\ UNCHANGED <<files, agg, measured>>

RampOver(s) ==
  /\ pods[s].st = "ramp"
  /\ pods[s].rate > Share(MaxRPS)
  /\ Goes(s, "finished")
  /\ UNCHANGED <<files, agg, measured, lost>>

Over(s) == pods[s].st \in {"finished", "dead"}

\* The Job has backoffLimit 0 and restartPolicy Never: a dead pod stays dead.
Crash(s) ==
  /\ ~Over(s)
  /\ Goes(s, "dead")
  /\ lost' = TRUE
  /\ UNCHANGED <<files, agg, measured>>

-------------------------------------------------------------------------------
(* authload aggregate.                                                     *)

AllFinished == \A s \in Shards : pods[s].st = "finished"

\* ReadDir; may be run as often as one wants, and nothing makes it wait for
\* the pods.  `whole` remembers, for the properties only, that the operator
\* did wait for every pod and that no write had failed.
List ==
  /\ agg.st # "reading"
  /\ agg' = IF files = <<>>
            THEN NotRun("failed")
            ELSE [st |-> "reading", todo |-> DOMAIN files, raws |-> {}, steps |-> <<>>,
                  whole |-> AllFinished /\ ~lost]
  /\ UNCHANGED <<pods, files, measured, lost>>

\* Entries come sorted by name.
First(names) ==
  CHOOSE f \in names : \A g \in names : f[1] < g[1] \/ (f[1] = g[1] /\ f[2] <= g[2])

\* The error of json.Unmarshal is ignored: a zero RawStep is used.
MutReadFile ==
  /\ agg.st = "reading" /\ agg.todo # {}
  /\ LET f == First(agg.todo)
         zero == [step |-> 0, shard |-> 0, offered |-> 0, data |-> New,
                  health |-> NoReading]
     IN  agg' = [agg EXCEPT !.todo = @ \ {f},
                            !.raws = @ \cup (IF files[f] = Partial THEN {zero} ELSE files[f])]
  /\ UNCHANGED <<pods, files, measured, lost>>

\* A file that does not parse fails the whole command.
ReadFile ==
  /\ agg.st = "reading" /\ agg.todo # {}
  /\ LET f == First(agg.todo)
     IN  agg' = IF files[f] = Partial
                THEN NotRun("failed")
                ELSE [agg EXCEPT !.todo = @ \ {f}, !.raws = @ \cup files[f]]
  /\ UNCHANGED <<pods, files, measured, lost>>

\* aggregate.Merge: regroup by step index, in order, and judge each merged
\* step afresh over the nominal step duration.
StepIndices(raws) ==
  LET indices == {r.step : r \in raws}
  IN  [i \in 1..Cardinality(indices) |->
         CHOOSE k \in indices : Cardinality({j \in indices : j < k}) = i - 1]

MergedStep(raws) ==
  LET snap    == MergeRaw(raws, StepDuration)
      health  == FoldSet(WorstHealth, NoReading, {r.health : r \in raws})
      limited == Exceeds(health)
  IN  [offered |-> snap.offered, pass |-> EvaluateStep(snap) /\ ~limited,
       limited |-> limited]

\* Per-shard verdicts are combined instead of per-shard data.
MutMerge(raws) ==
  [i \in DOMAIN StepIndices(raws) |->
     LET at == {r \in raws : r.step = StepIndices(raws)[i]}
     IN  [offered |-> OfferedBy(at),
          pass    |-> \A r \in at : MergedStep({r}).pass,
          limited |-> \E r \in at : MergedStep({r}).limited]]

Merge(raws) ==
  [i \in DOMAIN StepIndices(raws) |->
     MergedStep({r \in raws : r.step = StepIndices(raws)[i]})]

MergeAll ==
  /\ agg.st = "reading" /\ agg.todo = {}
  /\ agg' = [agg EXCEPT !.st = "done", !.raws = {}, !.steps = Merge(agg.raws)]
  /\ UNCHANGED <<pods, files, measured, lost>>

Pod(s) ==
  \/ RunStep(s) \/ CreateFile(s) \/ FillFile(s) \/ WriteFails(s)
  \/ RampOver(s) \/ Crash(s)

Aggregate == List \/ ReadFile \/ MergeAll

Next == (\E s \in Shards : Pod(s)) \/ Aggregate

Spec == Init /\ [][Next]_vars

\* The uneventful runs of Spec: nothing is lost, the aggregator waits for the
\* pods, and the pods, which do not interact, take their turns in order.
QuietSpec ==
  /\ Init
  /\ [][/\ Next
        /\ ~lost'
        /\ \A s \in Shards : pods'[s] # pods[s] => \A t \in 0..s - 1 : Over(t)
        /\ agg' # agg => AllFinished]_vars

-------------------------------------------------------------------------------

\* Rates of the fleet-wide plan, by step index.
PlannedRate(k) == StartRPS + k * StepRPS

PlanLength == IF StartRPS > MaxRPS THEN 0 ELSE (MaxRPS - StartRPS) \div StepRPS + 1

RawStep ==
  [step : Nat, shard : Shards, offered : Nat, data : Collector, health : Reading]

TypeOK ==
  /\ pods \in [Shards -> [st : {"ramp", "report", "fill", "finished", "dead"},
                          rate : Nat, bad : Nat]]
  /\ \A f \in DOMAIN files :
       f \in Nat \X Shards /\ files[f] \subseteq RawStep
  /\ agg.st \in {"idle", "reading", "failed", "done"}
  /\ agg.todo \subseteq Nat \X Shards
  /\ agg.raws \subseteq RawStep
  /\ agg.steps \in Seq(Step)
  /\ agg.whole \in BOOLEAN
  /\ \A s \in Shards :
       measured[s] \in Seq([load : Loads, raw : RawStep, report : Step])
  /\ lost \in BOOLEAN

\* A pod of a sharded run that finishes has measured every step of the plan,
\* however many failed, so each step index has a file from every pod that
\* could write one.
FullRange ==
  ShardCount > 1 =>
    \A s \in Shards : pods[s].st = "finished" => StepsDone(s) = PlanLength

\* The aggregator may run at any moment, also against a directory the pods
\* are writing: whatever it merges is a step that some pod measured, complete.
OnlyMeasuredData ==
  \A r \in agg.raws :
    r.step < StepsDone(r.shard) /\ measured[r.shard][r.step + 1].raw = r

\* The reference for a merged step: one generator that offered the whole rate,
\* took every pod's samples and saw every pod's health.
OneGenerator(k) ==
  LET loads   == [s \in Shards |-> measured[s][k].load]
      samples == FlattenSeq([i \in 1..ShardCount |-> loads[i - 1].samples])
      limited == \E s \in Shards : Exceeds(loads[s].health)
      rate    == PlannedRate(k - 1)
      pass    == EvaluateStep(Snapshot(Collected(samples), rate, StepDuration))
  IN  [offered |-> rate, pass |-> pass /\ ~limited, limited |-> limited]

\* Once every pod has finished and written its files, the merged steps are
\* those one generator would have reported: histograms, outcome counts and
\* rates merge without loss, and no shard's own verdict takes part.
MergeIsLossless ==
  agg.st = "done" /\ agg.whole =>
    /\ DOMAIN agg.steps = DOMAIN measured[0]
    /\ \A k \in DOMAIN agg.steps : agg.steps[k] = OneGenerator(k)

\* Every pod keeps the promise of a ramp over its share of the rates, which
\* is where this module meets Ramp.
ReportsOf(s) == [k \in DOMAIN measured[s] |-> measured[s][k].report]

VerdictOf(s) ==
  CASE pods[s].st = "finished" -> DetermineOutcome(ReportsOf(s))
    [] pods[s].st = "dead"     -> [outcome |-> "error", breakingPoint |-> 0]
    [] OTHER                   -> [outcome |-> "none", breakingPoint |-> 0]

Contract(s) == INSTANCE RampContract WITH
  StartRPS       <- Share(StartRPS),
  StepRPS        <- Share(StepRPS),
  MaxRPS         <- Share(MaxRPS),
  ConsecutiveBad <- StopAfter,
  steps          <- ReportsOf(s),
  verdict        <- VerdictOf(s)

PodsKeepContract ==
  /\ \A s \in Shards : Contract(s)!Init
  /\ [][\A s \in Shards : [Contract(s)!Next]_<<ReportsOf(s), VerdictOf(s)>>]_<<pods, measured>>

-------------------------------------------------------------------------------
(* What the documentation says of the aggregate.                           *)

\* The steps a single run would have offered before it gave up.
UpToTheKnee(steps) ==
  LET Bad(n) == n >= Abort.consecutiveBad
                /\ \A i \in n - Abort.consecutiveBad + 1..n : ~steps[i].pass
      stops  == {n \in DOMAIN steps : Bad(n)}
  IN  IF stops = {} THEN steps ELSE SubSeq(steps, 1, Min(stops))

\* main.go:289-292, methodology.md:315-318: failing steps past the knee do not
\* change the breaking point.
TrailingStepsDontMatter ==
  LET knee == UpToTheKnee(agg.steps)
  IN  agg.st = "done" /\ agg.whole
        /\ (\A i \in Len(knee) + 1..Len(agg.steps) : ~agg.steps[i].pass)
        => DetermineOutcome(agg.steps).breakingPoint = DetermineOutcome(knee).breakingPoint

\* runbook.md:174-175: with every pod finished, aggregate sums each step's
\* offered rate back to the fleet-wide target.
OfferedIsFleetTarget ==
  agg.st = "done" /\ AllFinished =>
    \A k \in DOMAIN agg.steps : agg.steps[k].offered = PlannedRate(k - 1)

================================================================================
