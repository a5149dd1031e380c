# k8s-cronhpa: a TLA+ development

CronHPA is a Kubernetes controller that scales a workload, directly or through a
HorizontalPodAutoscaler (HPA), at the times of cron expressions. This directory models
the controller of `src/`, checks the model with TLC and proves its main properties with
TLAPS. `PROJECT.json` maps each definition to the lines it translates and lists the runs,
the hazards, the findings and the theorems.

## Inventory

| component | state | operations | hard because |
|---|---|---|---|
| Cron schedules (`util.go`) | none | missed starts since a time, exclude dates, conditions | limits (100 starts), deadlines shorter than the time between passes, schedules without a next start, `@every` |
| Reconcile loop (`cronhpa_controller.go` 116-219) | the snapshot of a pass, the object in hand | list, plan, scale, read the clock again, update the status | stale cache, crash or failure between scaling and recording, users who edit meanwhile, a second pod |
| Scaling (`cronhpa_controller.go` 221-356) | the HPA in hand | get and update the HPA, get and update the scale | read-modify-write against an autoscaler and a user, an HPA status that trails |
| CronHPA resource (`type.go`) | spec, lastScheduleTime, conditions | written by users and by the controller as one object | both write spec and status in one request |
| Informer, lister and client (`pkg/client/informers`, `listers`, `clientset`) | the cache | list at the start, then watch; list again when the watch ends | trails the store; loses events; hands out pointers |
| Startup and CRD (`main.go` 96-120, `crd.go`) | how far a process is, the stored CRD | get, create or update the CRD, wait for the cache | two processes and users race, an attempt fails |
| Leader election (`main.go` 121-156) | the record of the lease | acquire, renew, lose | lost requests and answers, no common clock, a leader that waits under its lease |
| Flags, clients, REST mapper, the rest of the generated clientset, event recording | - | - | no behaviour of their own that a property here depends on |

How they interact: `main` calls `run` (CRD, informer, controller), directly or when the elector has got
the lease; the elector ends the process when it cannot renew it. The informer fills the
cache; every period `reconcileCronHPAs` takes a list from it and calls `reconcileCronHPA`
for each object; that calls `updateScaleTargetRef`, and after a scaling writes the object
with its new status. The API server tells every informer, the controller's own included.
Processes share nothing but the API server's objects and, roughly, the time.

What makes each part correct: a start that is due is scaled for, one that was recorded is
not scaled for again, no status is recorded for a scaling that failed, nobody's edit is
lost, an HPA never gets bounds that contradict each other, a CronHPA that fails does
not hold up the others, and under leader election one process works and never two.

## Modules

| module | what it models |
|---|---|
| `CronTimes` | the pure functions of `util.go` on schedules: a set of fire times, or `@every d` |
| `MissedStarts` | the loop of `getRecentUnmetScheduleTimes` a round at a time, and its calls pass after pass |
| `ScaleTarget` | one call of `updateScaleTargetRef`, a step per API request, with the autoscaler, users and other processes writing the same HPA and workload |
| `CronHPAController` | the reconcile loop, the cache, the watch, the store and its users; EXTENDS `CronTimes` and `ScaleTarget` |
| `CronLedger` | what the stored CronHPAs promise: a ledger of scalings, without caches, processes or requests |
| `Startup` | from the start of a process to its first pass |
| `LeaderElection` | the lease that decides which process starts, and what ends it; EXTENDS `Startup` |
| `MCScaleTarget`, `MCCronHPAController`, `MCStartup`, `MCLeaderElection`, `MCMissedStarts` | values of the constants for TLC |
| `ScaleTargetProofs`, `CronHPAControllerProofs`, `PassProofs`, `CronLedgerProofs`, `WedgedProofs`, `StartupProofs`, `LeaderElectionProofs`, `MissedStartsProofs` | theorems |

`CronHPAController` drives the actions of `ScaleTarget` (`StartCronHPA` opens a call,
`ScaleStep` carries it on, `AbandonCronHPA` and `RecordScaling` take its result), and its
`Restart` stands for the whole of `Startup`. `LeaderElection` calls `Start` and `Leave` of `Startup`
where `main.go` calls `run` and `klog.Fatalf`.

### Correspondence

- `todo[c]` is what is left of the slice `reconcileCronHPAs` ranges over. The lister
  returns the cache in no fixed order, so a pass takes any of them next. A pass follows
  another at any time: the period only says how often.
- `work[c]` holds the locals of `reconcileCronHPA`: its deep copy, the first of
  the sorted batch, `now`, and the second reading of the clock once the scaling is done. The
  sort is not stable, so any cron of the largest size may come first (`Winners`).
- Planning is one step (`SkipCronHPA`, `StartCronHPA`): it reads only the object in hand
  and one reading of the clock. Each API request after it is a step of its own.
- `UpdateCronHPA` is the `Update` of the whole object. The CRD has no status subresource, so spec
  and status are written together and the version check protects both. A lost answer
  to it is not a separate action: the process ignores the answer except to log it.
- `conditions` is the set of the names of Succeed conditions, the only status the code
  writes. `updateConditions` replaces a condition of the same name; so does the union.
- Time is in whole seconds: cron expressions fire on whole seconds, and `metav1.Time` is
  stored with that precision. `Skew` is each process's constant distance from the API
  server's clock. Clocks do not step back.
- In `ScaleTarget`, `hpaHeld` and `scaleHeld` stand for resource versions: the set of
  processes whose last read is still current. `RequestLost` is an error before the server
  acted, `AnswerLost` an error after it did.
- The autoscaler writes any size within the bounds and reports in `status.currentReplicas`,
  in a later write, the size it found when it began.
- `Every[s]` is 0 for a calendar schedule and d for `@every d`, which fires every d seconds
  from the time it is asked with (`FiresBetween`). Schedules fire on whole seconds; an `@every`
  below one second is rounded up by the library.
- `MissedStarts` keeps the locals of one call (`from`, `t`, `starts`) and, as history, which
  starts a pass has been told of or has given up with an error (`answered`). `NextStart` is `sched.Next`
  with its zero time; `Settle` is what any scaling of the CronHPA does to `LastScheduleTime`: the
  second reading of the clock settles the times since the plan's reading, which no call has seen, and `passedOver` keeps them.
- `WatchBreaks` drops the events on their way and puts a listing in their place; passes go on
  meanwhile. A listing is delivered object by object.
- In `LeaderElection` the lease is a record with a holder. No process compares clocks:
  `age` is the time since the record was stored, `known[c]` how long c has seen it unchanged,
  `sinceOk[c]` how long ago a leader's last attempt succeeded. `held` is the set of processes whose
  last read of the record is current, as resource versions decide. An attempt is a read, a store
  and its answer; each may be lost. The elector makes the first attempt of a new leader in the
  same way as the later ones, and the time of its first round is allowed to be as long as
  `RetryPeriod + RenewDeadline`, a little longer than the code's. Only electors write the record.
  `klog.Fatalf` ends a process that lost its lease in one step; a request it sent before, or one
  that is paused by its machine while others go on is outside this model, and `rolling` shows that two
  active processes keep the ledger correct.
- In `Startup`, `informer[c]` says whether the factory has been asked for the informer (`InformerFor`, called by
  `NewCronHPAController` before `run`) and whether `factory.Start`, which starts only those asked for, has started it.
  In `LeaderElection` it is asked for when `run` is called, which nobody can tell apart.
- In `Startup`, whatever `EnsureCRDCreated` returns ends the poll (`PollEnds`): it never returns
  (false, nil), and `run` drops the result of `PollUntil`.

## Runs

Passing runs, with every bound:

| run | instance | shows |
|---|---|---|
| `scale_target` | 2 processes, 1 target with HPA, sizes 1-3, targets {0,2,3}, 1 disruption; symmetry in the processes (safety only); 1.4 M states | `ScaleTypeOK`, `EditIsValid`, `BelowOneIsRefused`, `RaisedBoundHolds`, `UpdateHPAIsAtomic`, `OkMeansApplied` |
| `single` | 1 process, 1 CronHPA, 3 specs (one `@every`), time to 4, 2 edits, 2 faults, limit of 2 missed starts; 937 k states | `TypeOK`, `SnapshotFaithful`, `RecordedMeansApplied`, `LedgerSpec`, `WedgedUntilEdited`, `OnlyLate`, `CacheNeverGoesBack` |
| `rolling` | 2 processes a second apart, 1 CronHPA of two crons for a target with an HPA, scaled through it or directly, the autoscaler, time to 1, 1 edit; 926 k states | `SnapshotFaithful`, `LedgerSpec`, `ScaleSpec`, `PassEnds`, `ScaledAsPlanned` |
| `liveness` | 1 process, 2 CronHPAs of 5 specs (four of which always fail, one of them in its scaling), time to 1, 1 edit, 1 fault; 152 k states | `DueIsServed`, `CacheCatchesUp` |
| `startup` | 3 processes, one without the flag, 3 faults or foreign writes; 27 k states | `StartupTypeOK`, `ReplacesWhatItSaw`, `ServesOnceDefined` |
| `election` | 2 processes, durations 8, 5 and 1, delay 1, 3 faults or foreign writes, one process that may stay away; 469 k states | `ElectionTypeOK`, `OneLeader`, `LedAgain`, `ServedUnderLease`, `ReplacesWhatItSaw` |
| `unmet_loop` | 6 kinds of schedule and one refused, deadlines {-1, 0, 1, 2, 4}, passes up to 2 apart, limit of 3, time to 8; 172 k states | `MissedTypeOK`, `LoopIsExact`, `OnlyScalingLosesStarts`, `DelayIsDue`, `CallEnds` |

Why the bounds are enough: the limit of 100 missed starts is a constant (`MaxMissed`), 2 here, so
that a clock of 4 passes it with one schedule and not with the other. Two processes
are the fewest that race and as many as the safety properties name; one edit is enough to come between any
two steps, and two make a delete and a new object of the same name. Sizes 1-3
put a target below, between and above the bounds; 0 is one the server refuses. One
disruption already separates a failed request from a lost answer. In `rolling` time 1
is time 2 for the process that is ahead: one cron is due to both processes and the other to one of them,
with sizes at and above the bounds; longer times and more faults are left to `single`, so that the HPA
and the autoscaler have room. In `liveness` one edit
comes before or after the one fault (a broken watch, a crash or a failed request), and time 1 is
when something is due; the other CronHPA fails in every pass, so that longer times add
only more of the same. The durations of `election` keep the order of 15, 10 and 2 seconds with the room
for a delay that `Timely` asks for; three faults are two lost answers and a death. The deadlines of
`unmet_loop` are below, at and above the time between passes and the periods of its `@every`
schedules. The theorems hold without any of these bounds.

`MaxDisruptions`, `MaxEdits`, `MaxTime` and `MaxUpsets` cap what the environment does, in the
guards of `Disrupt`, `Edit`, `Tick` and `Upset`. Fires after `MaxTime` (`Later`) keep
a schedule from looking as if it had no next start. `MaxGap` and `MaxDelay` are not bounds of the
search but premises: how far apart passes are, how late an answer may be. Of the
controller's runs only `rolling` has an HPA and the autoscaler in it; the others scale a
Deployment (or, in `liveness`, through an HPA that is not there), and what is specific to the HPA is checked in `scale_target` with users, faults and larger
sizes. `ImplementsScaleTarget` says that this carries over. Deadlock is checked except in the runs of `MCStartup`, where
the system comes to rest when all processes serve.

`EditIsValid` says nothing of a target below one, which the code leaves to the server; `BelowOneIsRefused` says that such
a call never ends as a success. `OkMeansApplied` takes the size the HPA last reported, as the code does; that this size may be
stale is `keeps_highest`. `ScaledAsPlanned` has one CronHPA in `rolling`: that a success is not taken from
another object of the pass is shown by its theorem only. What client-go does with the cache (lists, watches, delivers in order)
is modelled from how the program uses it: of `OnlyLate`, `CacheNeverGoesBack` and `CacheCatchesUp` the program's part is that it works on a
deep copy and never writes into the cache. `OnlyScalingLosesStarts` names the starts the code does
lose, those `settled_unplanned` shows: only a scaling loses any, and only those between its two readings of the clock.

Violations: each run checks one statement of a comment or text of the repository, which the code
does not keep.

| run | statement | what the code does |
|---|---|---|
| `keeps_highest` | "try to keep the highest replicas" (`cronhpa_controller.go:269`) | compares with the size the HPA last reported, and scales down a workload that has grown since |
| `excluded_runs` | "filter with exclude time" (`cronhpa_controller.go:174`) | compares the last missed start with the last time of each exclude date only; an excluded start is scaled for when the exclude date fires again first |
| `run_once_twice` | "whether the job has been run" (`util.go:133`) | the mark is written after the scaling; if that fails, the cron runs again |
| `settled_unplanned` | "when was the last time the schedule was successfully scheduled" (`type.go:38`) | stores a second reading of the clock; a start between the two is never scaled for |
| `crd_missing` | "Create cronhpa CRD if it does not exist" (`main.go:45`) | the first error ends the attempts, and the process waits for ever |

### Fairness

Safety properties assume none. `FairSpec` has weak fairness of each process's step
(`wait.Until` goes on calling the loop, requests are answered or time out), of the
informer's delivery, and of the restart (the Deployment). `FairStartup` has weak
fairness of each process's step. `FairElection` has it of time, of answers, of a leader's own
steps and its end, and of the attempts of `Reliable` processes only: the others may be gone for good, and
one process that goes on trying must be enough. `ServedUnderLease` assumes that the CRD stays and that
from some point no leader is late (`Settles`). `CacheCatchesUp` assumes that the objects are left alone.
Users, the clock, the autoscaler and faults owe nothing;
faults are finite in number, so `DueIsServed` says what holds after the last of them.
`DueIsServed` is restricted to targets that can be scaled (`Reachable`): others fail for ever, and are there as
neighbours that must not hold it up. `CallEnds` assumes only that the loop goes on (`FairSpec` of `MissedStarts`): it is sequential code.

`OneLeader` rests on a premise that is not fairness: an answer comes within `MaxDelay`, which `Timely` keeps below 3 s for
the durations of `main.go`. What a later answer leads to is not modelled.

## Proofs

All theorems are for any number of processes, clocks, CronHPAs, schedules, edits
and faults, from the named assumptions on the constants (`CronTimesAssumption`,
`MissedStartsAssumption`, `ScaleTargetAssumption`, `ControllerAssumption`,
`StartupAssumption`, `ElectionAssumption`: types, that `Nil` is none of the values, that there are finitely many
CronHPAs and that the three durations are `Timely`), which TLC evaluates in the runs.

- `ScaleTargetProofs`: types, then an invariant (`ScaleIInv`) that relates the HPA in the hand of a
  process that holds a current version to the stored one. Without it an accepted update could be
  of anything; with it `UpdateHPAIsAtomic` (whose update may be stored although its answer is lost),
  `OkMeansApplied` and `RaisedBoundHolds` follow, the latter as long as no user has written and no fault has happened.
  `BelowOneFails` has `BelowOneIsRefused` from the server's refusal alone.
- `CronHPAControllerProofs`: `TypeCorrect`; every step is a step of `ScaleTarget`
  (`ImplementsScaleTarget`); then `SnapshotsAreFaithful`. The inductive invariant
  (`CopiesInv`) adds to it that no copy is newer than the last version given out
  and that objects are stored under their names: a new version is then one
  no copy has. Its step is split in two facts every action has: it changes at most one
  stored object (`StoreStep`) and copies come only from copies or the store (`CopyStep`).
  `RecordedAreApplied` adds that what a process is about to record was applied, and uses
  `SnapshotFaithful` where the update is accepted.
- `PassProofs`, first the cache. `OnlyLate` alone is not inductive: when an event is delivered,
  what is left on the way must still end with what is stored, and a process that is down must not be told
  anything. `InformerInv` says so (`LastWord`, `DownKnowsNothing`) and adds that along the way from the cache
  to the store versions never fall (`Ascends`), which gives `CacheNeverGoesBack`. New versions are the
  newest by `CopiesInv`. `CachesAreOnlyLate` is the part of `CacheCatchesUp` that needs no fairness: what is left is that events
  are delivered.
- `PassProofs`, then the pass. `PassesEnd`: `StepsLeft` counts the objects that are left and the requests
  the call in progress may still make, and every step of the pass lowers it; it rests on the list of a pass being
  finite (`TodoFinite`, since there are finitely many CronHPAs). This is the part of "a pass ends" that needs no
  fairness. `SuccessesAreAsPlanned`: the call a pass is in was made for the object and cron it is at (`CallIsForWork`),
  only an answer makes it a success (`SuccessIsAnAnswer`), and `OkStep` of `ScaleTargetProofs` says what holds then.
- `CronLedgerProofs`: `WorkIsDue` (the work in hand answers a start nobody settled, and a
  process's clock is not behind the plan) and the invariants before it give
  `ImplementsLedger`: the stored objects refine `CronLedger` under the mapping `Entry`. It
  means that each scaling recorded answers at least one start that was not settled, that a
  run-once cron is entered once, and that neither an edit nor another entry is undone,
  whatever the caches hold and however many processes run.
- `StartupProofs`: types with the flag, and `ReplacesWhatItSaw`, from the invariant that a
  process whose read is current has the stored definition in hand.
- `WedgedProofs`: a plan made for an object with too many missed starts fails at any later time
  (the set of missed starts only grows, `NeverFewer`), and an update from older work would not carry the stored
  version (`CopiesInv`). It is proved under `NoneBehind`: a process whose clock trails the API server's
  may still see few enough starts.
- `LeaderElectionProofs`: `LeadersAreAlone`, for answers within `MaxDelay`, from `LeaseInv`: nobody has known the record for longer
  than it is old, a process about to take another's record has known it for `LeaseDuration`, and a leader's record is
  at most `MaxDelay` older than its last success. With `Timely` the leader is gone before
  `LeaseDuration` is over. It holds for any values of the durations, those of `main.go` among them.
  `LeadersUpdateWhatTheySaw` carries `ReplacesWhatItSaw` over: a step of the election is, for what `run` does, a
  step of `Startup`, no step, or the end of a process. (It is not a refinement of `StartupSpec` as it stands, whose
  counter `upsets` counts other things: a lost attempt raises it and the end of a late leader does not.)
- `MissedStartsProofs`: `ScalingAloneLosesStarts`, from the invariants `FindsAll` (a start up to the last
  call was answered or passed over, or the running call is still to find it) and `Apart` (what was passed over is
  never found later, and nothing answered is called passed over); `DelayComesDue`, from the one start that decides; and
  `LoopComputesUnmetTimes`, from `CallInv`: what has been collected is the set of missed starts before `t`,
  each once and in order, unless the schedule has no next start, and then `t` never passes now. This justifies
  that `CronHPAController` takes the call as one step. The arithmetic of `@every` rests on five lemmas on
  quotient and remainder, the least element of a set of times on the well-foundedness of the naturals.

Only model-checked: the liveness properties `CallEnds`, `DueIsServed`, `CacheCatchesUp`, `ServesOnceDefined`, `LedAgain`
and `ServedUnderLease` (fairness and ENABLED are beyond the prover), and the violations. Of `CacheCatchesUp` the safety part is
proved (`CachesAreOnlyLate`), and of `DueIsServed` that no pass goes on for ever (`PassesEnd`).

## Not modelled

Flags and client construction, which happen once before anything runs concurrently; the REST mapper's periodic
reset (a mapping that is missing meanwhile is a refused request); the scheme, the fakes and those methods of the
generated clientset, factory and lister that the program does not call; events and logs. Namespaces are part of a
CronHPA's or target's name. The informer's resync only repeats what the cache holds, and the controller
registers no handlers. A controller starts from an empty status; a user who edits a
status by hand is left out. Clocks do not step back. In `LeaderElection`, anything but electors that
writes the endpoints object is left out. So is the access the election needs: the roles in
`deploy/cronhpa_controller.yaml` grant none to endpoints, with which no process would ever lead.

## What is left

What `CronLedger` promises could be stated without its actions: that a run-once cron is entered once and that what is
settled never falls, as theorems of the ledger that `ImplementsLedger` carries over to the controller.

A theorem that the controller under leader election makes no scaling but those of a single process needs the
composition of `LeaderElection` with `CronHPAController`, which is not written: the second's theorems hold for
any number of active processes, so the election adds no guarantee they need. That `Startup` implements the action
`Restart` says little, because `Startup` keeps no objects: what `Restart` does to the cache has no counterpart in it.
