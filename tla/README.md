# Verification of teleport-auth-stress

TLA+ models of the load-test harness in `src/`: its open-loop driver, its ramp
controller and its health sampler, the sharded run with its aggregation step, the
login, certificate and bot renewal scenarios, the seeding commands and the
attribution of failing steps, what TLC checks of them, and proofs (TLAPS) of what
matters most.

The harness drives authentication load at a Teleport cluster in steps of
increasing rate and reports a *breaking point*. Its worth rests on one thing:
that the number, or the refusal to give one, follows from what was measured.
That is what the properties below are about.

## 1. Inventory

| Component | State it keeps | Operations | Talks to |
|---|---|---|---|
| open-loop driver, `internal/driver` | schedule (`next`), WaitGroup, one goroutine per call | `RunOpenLoop`, (`RunClosedLoop`, unused) | called by ramp; runs `Task`, calls `onSample` from many goroutines |
| ramp, `internal/ramp/ramp.go` | rate, failing steps in a row, step reports | `RunWithHooks`, `runStep`, `pollHealth`, `EvaluateStep`, `DetermineOutcome` | driver, collector, health sampler, two hooks |
| generator health, `internal/ramp/health.go` | last CPU time and clock of the sampler | `Sample`, `Exceeds`, `WorstHealth` | polled by a goroutine per step |
| collector, `internal/collect` | histogram, outcome counts under a mutex | `Add`, `Snapshot`, `Export`, `MergeRaw` | fed by `onSample`; exports go to files |
| sharded run, `cmd/authload run` | step index, files in a shared directory | setup, rendezvous, ramp, `WriteRawStep` | pods share nothing but the directory |
| aggregation, `cmd/authload aggregate`, `internal/aggregate` | none | `ReadRawSteps`, `Merge` | the directory, `EvaluateStep`, `DetermineOutcome` |
| fixtures and key pool, `internal/identity/{fixtures,keypool}.go` | users, keys, state file | `Shard`, `Save`, `Load`, `At` | seeding, scenarios |
| seeding, `internal/identity/seed.go`, `cmd/authseed` | cluster users, state file | `ApplyFixtures`, `TeardownFixtures` | the cluster |
| devices, `internal/identity/{totp,webauthn}_soft.go` | signature counter | register, assert, code | login scenarios |
| scenarios, `internal/scenario` | clients, round-robin counters, bot certificate and generation | `Setup`, `Execute`, `Teardown` | the cluster; `Execute` runs concurrently |
| attribution, `cmd/authload/attribution.go`, `internal/attrib` | last scrape, causes per step | `onStepStart`, `onStep`, `Rank`, profile capture | ramp hooks, metrics endpoint |
| configuration, reports, Helm chart | - | load, validate, render | - |

Behaviours that are hard to get right, in short (PROJECT.json lists each at its
line): call goroutines against the scheduler and the WaitGroup; the health
poller's goroutine against the step that started it; timers against
cancellation; samples of one window leaking into the next; reset and order of
the ramp's counters; files written by pods that crash while an aggregator
reads; merging data rather than verdicts; single-use tokens and certificate
generations shared by concurrent calls and pods; half-done seeding; scrapes that
fail or see a restarted target, and the choice of a baseline; codes that are spent
once and failures that lock a user, both counted by the cluster while calls of
many pods share users.

What makes each component correct: the driver keeps its schedule whatever the
target does and returns only when every sample is in; a step's verdict counts
the step's own calls and the worst reading of its own poller; the ramp offers
the plan's rates and stops where it says; the verdict of the run is sound; a
pod of a fleet runs the whole plan; the aggregate merges only whole, measured
data and equals what one generator would have seen; shards are disjoint and
cover all fixtures; a bot never presents a stale generation; a login repeats a
code only when its pod's users are used up; a call's client lives as long as the
call; re-running the seed command converges; a failing step
is compared with the last passing one, on what happened in these two steps.

## 2. Modules

| Module | Models | Kind |
|---|---|---|
| `LoadWindow` | what a load window promises its callers | abstract specification |
| `OpenLoop` | `driver.RunOpenLoop`: scheduler, call goroutines, WaitGroup, timer, context, clock | component, implements `LoadWindow` |
| `OpenLoopProofs` | inductive invariant, theorems, refinement proof | proofs |
| `Collect` | `internal/collect`: collector, percentile, merge | pure operators |
| `Verdict` | `Exceeds`, `WorstHealth`, `EvaluateStep`, `DetermineOutcome` | pure operators, on `Collect` |
| `RampContract` | what a ramp promises whoever reads its result | abstract specification |
| `Ramp`, `MCRamp` | `RunWithHooks`, `runStep`, `pollHealth`, composed with `LoadWindow` | component, implements `RampContract` |
| `Fleet`, `MCFleet` | pods, results directory, aggregate | component; each pod implements `RampContract` over its share |
| `RampProofs` | inductive invariant, theorems, proof that `Ramp` implements `RampContract` | proofs |
| `FleetProofs` | inductive invariant and theorems | proofs |
| `Health` | `procSampler` between samples | component |
| `HealthProofs` | when a reading can be trusted | proofs |
| `BotRenew` | `BotJoinRenew`: `Setup`, concurrent `Execute` calls and `Teardown` of several pods, and the auth server's tokens, generations and locks | component |
| `BotRenewProofs` | inductive invariant and theorems | proofs |
| `Seed`, `MCSeed` | `authseed apply` and `teardown`, the guardrail, the cluster's users, the state file | component |
| `SeedProofs` | inductive invariant and theorems | proofs |
| `Rank` | the detectors of `internal/attrib/rank.go`, and which of them a target gets (`build.go`) | pure operators |
| `Attribution`, `MCAttribution` | `stepAttributor`: scrapes, baseline, ranking, profile goroutines; the targets' counters and restarts | component, on `Rank` |
| `AttributionProofs` | inductive invariant and theorems | proofs |
| `Config` | what `Validate` lets through of the workload: scenario, blend, route | pure operators |
| `Fixtures` | `FixtureState.Shard`, `ShardUsers`, `KeyPool.Shard`, `At` | pure operators |
| `Classify` | `ClassifyError` | pure operators |
| `Scenarios`, `MCScenarios` | the pods around their ramps: load, shard, `Setup`, `Execute`, `Teardown` of `LocalLogin`, `LocalLoginTOTP`, `CertRenewal`, `RouteCertIssuance`, `Mixed`; the cluster's users | component, on the three above |
| `ScenariosProofs` | inductive invariant and theorems | proofs |

The chain is: `OpenLoop` implements `LoadWindow`; `Ramp` is built on
`LoadWindow` and implements `RampContract`; the pods of `Fleet`, which see a
step as one action, keep that same `RampContract`. So `Fleet` may forget the
inside of a step, and `Ramp` the inside of a window. `Scenarios` is the other half
of a pod: what happens before, inside and after the windows, whatever the rate.
Its `Execute` starts calls as `LoadWindow` issues them, any number at a time, and its
`Teardown` waits for them as `OpenLoop`'s `wg.Wait` does.

### How state and actions correspond to the code

*OpenLoop.* `pc` is the scheduler's place in the loop of driver.go:93-127: `loop`
at the loop head, `select` inside the select on the timer, `abort` and `drain`
before the two kinds of `wg.Wait`. A record of `calls` is one goroutine of lines
114-120, with a state between each two effects another process could see:
spawned, running, finished (task returned), sampled (`onSample` called), done
(deferred `wg.Done` ran). Both branches of a select may be taken when both are
ready, as in Go.

*Ramp.* `pc` follows the loop: `next` (loop head), `discard` (inside the warmup or
settle window), `hook`, `step` (inside the measured window), `join` (waiting for
the poller), `decide`. A window is `LoadWindow`'s Open, Issue, Land and CloseAs;
landing in a measured window adds to `collector`. Pollers are separate
processes, one per step, whose `Sample` takes time. The two hooks run
synchronously and touch none of this state.

*Fleet.* A pod's step is one action (`RunStep`); `os.WriteFile` is two, because the
file exists before it is full and either half can fail; the aggregator lists the
directory, reads file by file, and merges. A pod may die at any point. `measured`
keeps what each pod measured, for the properties and for the file to be written.

*BotRenew.* A pod's Setup is three steps per bot (provision, join, dial), since
another pod's Setup can come between any two. An `Execute` call is a record of
`calls`: waiting for `id.mu` (`lock`), renewing, reconnecting (`dial`). The server is
external and modelled from the scenario's comments: a token admits one join; a
join starts a bot instance at generation 1; a renewal over a certificate of the
current generation increments it; one over any other locks the bot. `gen` is the
server's number, `client` the one in the certificate of `id.client`, which a call
reads once, when it starts to renew. A renewal's
answer may be lost after it took effect. `mishaps` records the bots that happened
to, or whose reconnect failed: the code's comment (botjoinrenew.go:211-217)
accepts a lock after those, and the property says that nothing else causes one.

*Seed.* One command at a time, each RPC an action, each user's reset token,
device registration and `ChangeUserAuthentication` one action, because only the
last changes the credential. `Fail` may come between any two actions (an error
returned, a crash), `Unanswered` is a call that took effect before the command
ended. `os.WriteFile` is two steps as in `Fleet`. A credential is named by the
number of the command that generated it: passwords and keys are random, so they
are new in each. A config may name another cluster than the guardrail's.

*Attribution.* `SetupAttribution`, `OnStepStart` and `OnStep` are one action each: the
ramp calls them one after the other, and `onStep` holds `a.mu` to its end.
`WriteReport` asks for the causes, `Exit` loses memory and goroutines. A profile is
a goroutine nobody waits for, a record of `captures` that is asked for, then being
written: `Refuse` (pprof.go:32, the client would give up first), `Receive`, `Finish`,
`Fail`. Targets count what they serve and start from zero when they restart;
a scrape of a target may fail at any time. A snapshot also carries, for the
properties only, the step at whose end it was taken (`at`), the target's restarts
(`boots`) and everything it ever served (`served`, which no restart resets);
`evidence` keeps what each ranked step was judged on. A window's length and a
target's cores, which divide the CPU score, are left out. Histogram counts are
uint64 in the code: their difference is taken modulo `Word`, 2^16 in the runs.

*Health.* Clock and CPU time since the process started, and the sampler's two
remembered values, from its creation (after Setup, main.go:304) on; a reading is
kept as a fraction. A poller's first sample of a step also covers the settle
window and the hooks before the step: it is the use of a longer interval, which
is what the code reports.

*Scenarios.* A pod loads its files (`Load`), sets its children up one after the other
in any order (`SetUp`; `Bootstrap` is one identity: a certificate, then a client),
closes the admin client (`Run`), makes calls (`Execute`) and tears down. `Fail` is an
exit at any point before the driver starts. A call is a record: in `begin` until
the cluster answers with a challenge, in `finish` until it accepts or refuses, in
`silent` when the answer is lost, in `issue` when a certificate was asked for. The
index of a call is fetched and advanced in one step (`atomic.AddUint64`), and the
user and the key are those the index picks. The cluster is external and modelled
from the scenarios' comments: it accepts a TOTP code once, counts failures in a
row, and locks a user at `MaxFailed`; it may also limit, fail or stay silent. A lock
does not expire within a run. The clock counts 30 s, which is both the period of a
code and the timeout of the login scenarios' HTTP clients. `counted` is kept for
one property: refusals of a user that were reported as client errors.

## 3. Runs

| Run | Configuration | What it shows |
|---|---|---|
| `open_loop` | 2 rates (one invalid), 3 arrival kinds (one invalid), window of 3 ticks with a mean interval of 2, Poisson draws {0, 2}, one burst, clock to 4 | `TypeOK`, `SampledOnceAtReturn`, `ScheduleKept`, `NeverEarly`; refinement of `LoadWindow`; `Returns` |
| `ramp` | 3 rates, warmup but no settle, 2 calls per window, 4 kinds of result, 3 readings, 2 metrics (one unlimited), stop after 2 failures, two elapsed times | `TypeOK`, `OnePollerAtATime`, `ReportCountsOwnCalls`, `SpikeMarksStep`; refinement of `RampContract`; `Terminates` |
| `fleet` | 2 pods, 2 steps, stop after 1 failure, 3 kinds of load | `TypeOK`, `FullRange`, `OnlyMeasuredData`, `MergeIsLossless`, `PodsKeepContract` |
| `fleet_trailing` | 3 steps, uneventful runs (`QuietSpec`) | violates `TrailingStepsDontMatter` |
| `fleet_target` | as `fleet` | violates `OfferedIsFleetTarget` |
| `bot_renew` | 2 pods, 2 bots, 2 calls at a time, 3 calls per pod | `TypeOK`, `LockedOnlyAfterMishap`, `NeverUsesClosed`, `NothingLeftOpen` |
| `bot_join` | 2 pods, 1 bot | violates `SetupIsIndependent` |
| `seed` | 2 clusters, 1 or 3 fixture users, 2 other users, 3 commands | `TypeOK`, `AppliedIsUsable`, `FileNeverAhead`, `TornDownIsClean`, `OthersUntouched` |
| `health_cpu` | 2 cores, clock to 4 | violates `NeverOverReports` |
| `scenarios` | 2 pods, up to 3 users and keys, 6 configurations (2 refused), lock after 1 failure, 3 calls per pod, 2 in flight, clock to 3 | `TypeOK`, `ShardsApart`, `ReplayIsARotationApart`, `LockNeedsRotations`, `PickedByWeight`, `ErrorsStopAtTheLock`, `ClientsOutliveCalls`; `LoginsEnd` |
| `attribution` | a scraped target and one only named for profiles, 3 steps, 2 bursts of work and 1 restart, steps of 10 s and of 180 s, 15 s client timeout | `TypeOK`, `BlamesOnlyFailures`, `JudgedByLastPass`, `EvidenceOfOneStep`, `ProfileNamesItsStep`, `LatencyOfTheStep` |
| `attribution_restart` | as `attribution` | violates `NoMisleadingZero` |

Why the bounds are enough. In `open_loop` up to five calls can be in flight at
once, the scheduler can be late by two arrivals, and a window holds both a call
at its first instant and an interval that does not divide it. The guard
`Len(calls) < MaxCalls` never blocks: the positive draws and `MaxBurst` leave
fewer arrivals than that in a window. In `ramp` three steps with a limit of two
failures show every pattern that matters to the counter: two in a row, and two
with a pass between; a warmup but no settle takes both branches of the discard;
a step can have no calls, one, or two. In `fleet` two pods and two steps give
every order of writing, crashing and reading; the loads are chosen so that a
fleet passes where one pod fails (few calls), and fails where one is saturated.
Thresholds are 40% so that whole numbers of calls fall on both sides. In
`bot_renew` the third call of a pod returns to the first bot, so calls meet on a
bot both at the same time and one after the other, across a renewal. In `seed`
three commands are enough for a half-done one, one that must repair it, and one
that spoils it again, with fewer or more users than before. In `attribution`
three steps give every pattern of pass, fail and limited before a ranked step,
and a scrape that failed with good ones on both sides; one fast and one slow
operation make the latency of a step differ from the average over all time.
In `scenarios` the state files have fewer keys than users, fewer users than keys,
and devices of either kind, and leave a pod with nothing; with two users in a
pod's share, or one, the third call is the second rotation, so a code can be
spent twice; two calls in flight meet on a user, on a client and around a
teardown; the clock leaves time for both timeouts of a login that starts last.
`MCInit` checks profiles with idle targets and scores without profiles, which
share nothing but the step's index.

Deadlock checking is off in these runs because the modelled programs end.

Abstractions. Rates, latencies and percentages are integers; `EvaluateStep`'s
three quotients are compared by cross-multiplication, so nothing is rounded. The
HDR histogram is a count per bucket; only p99, the percentile the abort criteria
use, is computed. `ramp.Plan`'s positivity check and everything `config.Validate`
guarantees are assumptions of the modules, as are rates a window can be run at.

### Fairness

`OpenLoop`: weak fairness of the scheduler and of the calls as a group, that is,
runnable goroutines run and Tasks return. Nothing is assumed of the clock or of
cancellation: `Returns` is asked only once the window's last moment has passed or
the context is done. A Task that hangs hangs the run; that is the code's
behaviour (driver.go:129) and listed as a hazard.
`Ramp`: weak fairness of the loop, of each call's landing and of the poller's
sampling; strong fairness of `StopPolling`, since Go's select picks among ready
branches at random, so a ticker that is always ready cannot win for ever.
`Scenarios`: time passes (`Tick`) and the timers of `net/http` fire (`Expire`); the
cluster owes nothing. `LoginsEnd` needs no more, since both of a login's requests
have a timeout.
`Fleet`, `BotRenew`, `Seed`, `Health` and `Attribution` assert no liveness: nobody waits
for a profile, and the report is written without those still running.

### Findings

- **Trailing steps do matter** (`fleet_trailing`). main.go:289-292 and
  methodology.md:315-318 argue that running a sharded pod past the knee cannot
  change the breaking point. `DetermineOutcome` gives up the breaking point if
  *any* step was generator-limited, and steps far past the knee are where
  generators saturate. An unsharded run would have stopped before.
  `OnlySaturationPastTheKneeMatters` proves that the argument holds otherwise.
- **A missing shard file goes unnoticed** (`fleet_target`). runbook.md:174-175
  says the merge sums back to the fleet-wide target; after a failed write, which
  is only logged, it sums to less and nothing says so.
- **Pods take each other's bots** (`bot_join`). methodology.md:319-322 says every
  pod's bootstrap is independent. Bot and token names come from the prefix and an
  index that starts at 0 in every pod (botjoinrenew.go:128-129), and a token
  admits one join: pods that set up at the same time can fail each other.
- **The first reading over-reports** (`health_cpu`). methodology.md:119-122 says that
  CPU is sampled as deltas during each step, and :291-293 that the sampler never
  over-reports. The sampler is created after Setup (main.go:304) with a CPU time of
  zero (health.go:102-104), so the first reading charges everything Setup used to
  the time since its creation; without a warmup that is next to nothing, and the
  first step, hence the run, is generator-limited. A failed read has the same
  effect on the next good one (health.go:119): running out of file descriptors, a
  load generator's usual trouble, makes reads fail. `ReadsTrueFromTheSecondOn`
  proves that there is no third way.
- **A restart hides the backend** (`attribution_restart`). rank.go:43-48 says a
  detector without enough data excludes itself instead of assigning a zero that
  reads as "definitely not the cause". When a target restarts within a failing
  step its counts fall, rank.go:201 subtracts them as uint64, the difference
  wraps, and a huge count gives an average of nothing: `backend-latency` is listed
  with a score of zero (or less) although the backend was slow. The CPU detector,
  on floating-point counters, goes negative instead.

Noticed while modelling, and not the subject of a run: a route is validated only
when `route-cert-issuance` is the whole workload (validate.go:165-170), so in a blend
a missing target fails in every call instead of at the start (`Config.Valid` says
so); scenario.go:98-99 promises that a failure degrades one virtual user and never
the run, but certificate and bot calls over gRPC have no timeout, and one that
hangs holds up `wg.Wait` and the run; a login rebuilds its WebAuthn device in every
`Execute`, so its counter is always 1, whatever webauthn_soft.go:126 says of
increasing ones; runbook.md:266-268 promises a CPU profile per step, which the
client's 15 s timeout (attribution.go:33) refuses for steps of 15 s or more.

## 4. Proofs

`OpenLoopProofs` proves for every rate, window, schedule and number of calls:

| Theorem | Statement |
|---|---|
| `TypeCorrect` | `Spec => []TypeOK` |
| `Delivery` | `Spec => []SampledOnceAtReturn` |
| `Punctual` | `Spec => []NeverEarly` |
| `NoCoordinatedOmission` | `Spec => []ScheduleKept` |
| `Refinement` | `Spec => ImplementsLoadWindow` |

They rest on `DriverAssumption` only. `TypeOK` is not inductive by itself: that
`wg - 1` is a natural number needs to know what `wg` counts. `IInv` therefore
adds `WgCountsInFlight` (the counter is the number of goroutines that are not
done), `SampleBookkeeping` (a goroutine's state tells whether its sample was
delivered), `SpawnedWhenDue`, and `ControlState` (what the scheduler's place says
about the rest). From these, `wg = 0` means that nothing is in flight, hence that
everything was delivered. The schedule needs `ScheduleInv` on top: `next` is the
number of calls times the mean interval, and the count of arrivals in a window
is a small lemma on multiples (`MultiplesIn`). Both invariants were checked by
TLC on the instance of `open_loop` before they were proved.

`BotRenewProofs` proves, for every number of pods, bots and calls, `TypeCorrect`,
`NoSelfInflictedLock` (`LockedOnlyAfterMishap`), `RenewsOnOpenConnection`
(`NeverUsesClosed`) and `CleanTeardown` (`NothingLeftOpen`), from `BotAssumption`.
None of the three is inductive. The invariant says what a client's certificate
may be (`ClientKeepsUp`: the server's generation, unless a mishap happened or a
call that holds the bot's mutex is about to replace it), that the mutex excludes
(`MutexHeld`), that an answered renewal carries the newest generation
(`AnswerIsCurrent`), that a renewal runs over the
client (`RenewsOverClient`), how far Setup has got (`ClientAfterDial`), and that the open
connections are exactly the clients' (`ConnsAreClients`). A stale renewal is then
impossible without a mishap: whoever is about to replace the client holds the
mutex, and so does the renewal. `RefusedOnlyByOthers` and `LonePodIsIndependent` give
the finding about independent bootstraps its exact condition: a join is refused only
if another pod joined that bot, so never when there is one pod. Their invariant,
`TakenBeforeRefused`, rests on generations only growing.

`SeedProofs` proves, for every number of users, clusters and commands,
`TypeCorrect`, `Convergence` (`AppliedIsUsable`), `SavedLast` (`FileNeverAhead`),
`TeardownComplete` (`TornDownIsClean`) and `Scoped` (`OthersUntouched`), from
`SeedAssumption`. The invariant adds that only a command past the guardrail gets
further (`Guarded`), that the users an apply has done have its credential in the
cluster (`ApplyProgress`), and that what a teardown has still to delete includes
every fixture left (`TeardownProgress`).

`RampProofs` proves, for every plan, set of calls, results and readings,
`TypeCorrect`, `NoTwoPollers` (`OnePollerAtATime`), `ReportsAreComplete`
(`ReportCountsOwnCalls`), `SpikesAreSeen` (`SpikeMarksStep`) and `KeepsPromise`: `Spec`
implements `RampContract`, from `RampAssumption`. The invariant ties the loop's place
to what lives beside it: the window is open exactly inside `RunOpenLoop`
(`WindowOpen`), the rate is the plan's for this step (`OnPlan`), `consecutiveBad` is
the length of the failing tail (`Trailing`), the pollers of earlier steps are done
and of later ones not begun (`PollersPlaced`), the collector holds what landed
(`Counted`), and a worst reading exceeds a limit if and only if one it saw does
(`Watched`, `Marked`). In the refinement, measuring a step is the step in which its
report is appended; everything before it stutters. `LastPassing` supplies the
maximum the contract's breaking point needs, without an induction over steps.

`FleetProofs` proves, for every number of pods and every plan whose rates they can
share, from `FleetAssumption`:

| Theorem | Statement |
|---|---|
| `FleetTypeOK` | `Spec => []TypeOK` |
| `WholePlanMeasured` | `Spec => []FullRange` |
| `MergesOnlyMeasured` | `Spec => []OnlyMeasuredData` |
| `AggregateIsOneGenerator` | `Spec => []MergeIsLossless` |
| `WholeFleetOffersTarget` | merged rates are the fleet's targets if all files are there |
| `EveryPodKeepsItsPromise` | `Spec => PodsKeepContract`: each pod implements `RampContract` |
| `OnlySaturationPastTheKneeMatters` | the exact condition of the finding about trailing steps |
| `PercentileWasMeasured` | p99 of a non-empty histogram was measured, and few calls were slower |

`Paced` relates a pod's rate to its steps done; as failing steps in a row are at
most steps done, and these at most the plan's length, a sharded pod's raised limit
is never reached and it ends only past the maximum. `Genuine` says that whatever is
in a file or in the aggregator's memory some pod measured. For the contract,
`Judged` says that a pod's reports have the plan's rates, that its count of failing
steps is the length of their failing tail, and that the count is below the limit as
long as the ramp goes on; measuring a step is the contract's step, ending the ramp
its verdict, a crash its error, and the rest stutters.

That merging is lossless takes two arguments. One is about the directory:
`Recording` says what a measured step holds (the plan's rate, its index, the
collector of its samples), `Written` that a pod that lost nothing has filed every
step but the one in hand, and `Gathered` that a list made after the pods finished
leads to exactly the steps they measured. The other is about data. Every sum in
`Collect` is shown to be the number of elements of a set of tokens
(`SumCountsTokens`), a pod's collector to be the tally of its samples
(`CollectedIsTally`), and the pods' flattened samples to be a union of disjoint
pieces (`FlattenJoins`, `CountJoined`), so bucket by bucket the sum over the pods is
the count over all samples (`CountsOverPods`). The rates add up because the shares
are equal (`OfferedIsPlanned`), and a worst reading exceeds a limit if and only if
some pod's did (`WorstExceeds`). The folds of the library are defined by recursion;
instead of the induction theorems with an operator parameter, which no prover here
can instantiate, these lemmas take a least counterexample, or show that a set of
subsets closed under adding an element has them all (`AllSubsets`).

`AttributionProofs` proves, for every number of targets, steps, profiles and
restarts, `TypeCorrect`, `BlameIsEarned` (`BlamesOnlyFailures`), `BaselineIsLastPass`
(`JudgedByLastPass`), `EvidenceIsOfTheStep` (`EvidenceOfOneStep`),
`ProfilesAreNamedRight` (`ProfileNamesItsStep`), `LatencyIsOfTheStep`
(`LatencyOfTheStep`) and `OnlyRestartsMislead`, from `AttributionAssumption`. The
invariant ties together indices that the code keeps apart: `nextIndex` is the
number of steps reported (`Indexed`), every snapshot in `prev` was taken at the end
of the last one (`PrevIsFresh`), and the baseline is the last step that passed
(`LastPass`), at every ranking so far too (`Judged`). For the latency score, `LInv`
says that of two snapshots of one process the later exposes what the earlier did
plus what the target served in between, histogram by histogram (`Follows`), and that
this holds of both ends of every step kept as evidence (`GroundedIn`). It is proved
under `CountsFit`: a target has served fewer than 2^64 operations, since a difference
of counts wraps there. `OnlyRestartsMislead` concludes that the finding about a
misleading zero has no cause but a restart within one of the two steps.

`ScenariosProofs` proves, for every number of pods, users, keys and calls, every
configuration and any sharing of the calls, `TypeCorrect`, `ShardsStayApart`
(`ShardsApart`), `ReplaysAreRotationsApart` (`ReplayIsARotationApart`),
`LocksNeedRotations` (`LockNeedsRotations`), `BlendsKeepWeights` (`PickedByWeight`),
`ErrorsStop` (`ErrorsStopAtTheLock`) and `ClientsLiveLongEnough`
(`ClientsOutliveCalls`), from
`ScenariosAssumption`. Its arithmetic is that of round-robin shards: an element's
index gives its shard by a remainder (`ShardOf`, `ShardsDisjoint`), and two indices
that pick one element of a share are at least its length apart (`RotationApart`).
The invariant says that the k-th identity of a pod is its k-th user with its k-th
key (`Matched`), that a call works with what its index picks (`CallIsOwn`), that no
index is used twice (`OneCallPerIndex`), and which call spent a user's last code
(`Spent`). A replay of a call by itself is excluded because a call that spent a code
waits for nothing but its answer. A lock is paid for call by call (`Paid`): a user's
failed logins, those in flight that may still fail, and the success that spent its
code were each started in another rotation of the pod, which a new login of the user
extends by its length. A blend's bounds are running sums of its weights, in whatever
order Go walks the map, so a scenario's draws are an interval as long as its weight.

`HealthProofs` proves `ReadsTrueFromTheSecondOn`: after one good read, and until a
read fails, every reading is within what the machine has. It says that the two
cases of the finding are all there are.

Model-checked only: the liveness properties `Returns`, `Terminates` and `LoginsEnd`.
They need fairness and `ENABLED`, which the proof system's provers do not treat; TLC
checks them on the instances of `open_loop`, `ramp` and `scenarios`. Every other
invariant and action property of a passing run is a theorem. What the proofs assume
beyond what the runs use: weights are whole numbers; a load's samples have a latency
and an outcome; a histogram that counts nothing sums to nothing.

## 5. Not modelled, and the plan

Left out, and why:

- `report.go` and `grafana.go` format what other parts computed; nothing reads it back.
- Parsing of configuration and flags, certificates' encodings, CBOR and protocol
  messages, histogram compression: conversions without state. What `Validate`
  guarantees of numbers is in the modules' assumptions.
- Floating-point rounding (ramp.go:121 can drop the plan's last step) is out of
  TLC's reach; rates are integers.
- `RunClosedLoop`: no command calls it.
- The Helm chart and the Job manifests; that a failed pod is not retried
  (`backoffLimit: 0`) is an assumption of `Fleet`.
- The devices' cryptography. A WebAuthn counter that is always 1 leaves nothing to
  model; a TOTP code is the period it is computed in.
- The wait for the common start: pods never synchronise in what the properties
  look at.

What could come next:

1. A results directory with leftovers of an earlier run. `OnlyMeasuredData` holds of
   an empty directory only; nothing in a step file says which run wrote it.
2. The expiry of a user's lock within a run, if the cluster's settings make it
   shorter than a step.
