------------------------- MODULE CronHPAController -------------------------
(***************************************************************************)
(* The CronHPA controller: reconcileCronHPAs and reconcileCronHPA of       *)
(* pkg/controller/cronhpa_controller.go, the informer cache they read, the *)
(* API server that stores the CronHPA objects, the users who edit them,    *)
(* and the scaling of the target (module ScaleTarget).                     *)
(*                                                                         *)
(* A controller process takes a snapshot of its cache, handles the objects *)
(* of the snapshot one after the other, and for each of them decides       *)
(* whether a cron is due, scales the target, reads the clock again and     *)
(* writes the whole object back with its new status.  Each API request is  *)
(* a step of its own, so that users, other processes, the watch and the    *)
(* clock act in between.                                                   *)
(***************************************************************************)
EXTENDS CronTimes, ScaleTarget, Sequences, Functions

CONSTANTS
  CronHPA,        \* names of CronHPA objects
  Specs,          \* specs users give them
  Skew,           \* how far each process's clock is ahead of the API server's
  MaxTime,        \* the clock stops here
  MaxEdits        \* how often users create, edit or delete a CronHPA

VARIABLES
  clock,   \* the API server's clock
  api,     \* the stored CronHPA objects, Nil where there is none
  rev,     \* the last resource version the API server gave
  edits,   \* how many edits users made
  up,      \* is the process running?
  cache,   \* the informer cache of each process
  watch,   \* the events on their way to it
  todo,    \* the snapshots the running pass has yet to handle
  work,    \* the object a process is scaling or recording, or Nil
  applied  \* history: crons whose scaling succeeded, as <<name, uid, cron>>

storeVars   == <<api, rev, edits>>
cacheVars   == <<up, cache, watch>>
processVars == <<todo, work, applied>>

vars == <<clock, storeVars, cacheVars, processVars, scaleVars>>

-----------------------------------------------------------------------------
(* The objects.                                                            *)

Cron == [name : STRING, schedule : Schedule, runOnce : BOOLEAN, targeSize : TargeSizes]

CronHPASpec == [scaleTargetRef : Ref, crons : Seq(Cron),
                excludeDates : SUBSET Schedule, startingDeadlineSeconds : Int]

(***************************************************************************)
(* Of the status the code reads the time and, of a condition, the name and *)
(* whether it is Succeed, the only status it ever writes: conditions is    *)
(* the set of those names.                                                 *)
(***************************************************************************)
Object == [name : CronHPA, uid : Nat, resourceVersion : Nat, spec : CronHPASpec,
           creationTimestamp : Int, lastScheduleTime : Int \cup {Nil},
           conditions : SUBSET STRING]

(* A watch event: what a name now stands for, Nil when it was deleted. *)
Event == [name : CronHPA, obj : Object \cup {Nil}]

(* What is known of an object while it is handled: at is Nil until the     *)
(* scaling is done, then the LastScheduleTime to be written.               *)
Work == [obj : Object, cron : Cron, now : Int, at : Int \cup {Nil}]

ASSUME ControllerAssumption ==
  /\ IsFiniteSet(CronHPA)
  /\ Specs \subseteq CronHPASpec
  /\ Skew \in [Controller -> Int]
  /\ MaxTime \in Nat
  /\ MaxEdits \in Nat
  /\ Nil \notin Object
  /\ Nil \notin Work
  /\ Nil \notin [spec : CronHPASpec, settled : Int, ran : SUBSET STRING]

Now(c) == clock + Skew[c]

NewObject(h, uid, spec, created) ==
  [name |-> h, uid |-> uid, resourceVersion |-> uid, spec |-> spec,
   creationTimestamp |-> created, lastScheduleTime |-> Nil, conditions |-> {}]

-----------------------------------------------------------------------------
(* What reconcileCronHPA decides for an object at a time.                  *)

getLatestScheduledTime(o) ==
  IF o.lastScheduleTime # Nil THEN o.lastScheduleTime ELSE o.creationTimestamp

\* mutant: the conditions are not consulted
NeverRunBefore(cron, o) == FALSE

haveRunAlready(cron, o) == cron.name \in o.conditions

Pending(o) == {cron \in Range(o.spec.crons) : ~(cron.runOnce /\ haveRunAlready(cron, o))}

DuplicateName(o) == ~IsInjective([i \in DOMAIN o.spec.crons |-> o.spec.crons[i].name])

UnmetTimes(o, now, schedule) ==
  getRecentUnmetScheduleTimes(getLatestScheduledTime(o), now, schedule,
                              o.spec.startingDeadlineSeconds)

ExcludeTimes(o, now) ==
  getExcludeTimes(getLatestScheduledTime(o), now, o.spec.excludeDates,
                  o.spec.startingDeadlineSeconds)

(* One exclude date or pending cron in error makes the whole object fail.  *)
PlanFails(o, now) ==
  \/ ExcludeTimes(o, now).err
  \/ DuplicateName(o)
  \/ \E cron \in Pending(o) : UnmetTimes(o, now, cron.schedule).err

(* The crons that are due: cronJobBatch. *)
Batch(o, now) ==
  {cron \in Pending(o) :
     LET times == UnmetTimes(o, now, cron.schedule).times
     IN  /\ times # {}
         /\ ~shoudFilterTimesWithExcludeTimes(ExcludeTimes(o, now).times, Max(times))}

(* After the sort, any cron of the largest size may come first. *)
Winners(batch) == {cron \in batch : \A other \in batch : other.targeSize <= cron.targeSize}

(* The object with the status of a successful scaling. *)
Recorded(o, cron, at) ==
  [o EXCEPT !.lastScheduleTime = at, !.conditions = @ \cup {cron.name}]

-----------------------------------------------------------------------------
(* The API server and its users.                                           *)

Tick ==
  /\ clock < MaxTime
  /\ clock' = clock + 1
  /\ UNCHANGED <<storeVars, cacheVars, processVars, scaleVars>>

(* A write is stored and sent to every process that watches. *)
Publish(h, o) ==
  /\ api' = [api EXCEPT ![h] = o]
  /\ rev' = rev + 1
  /\ watch' = [c \in Controller |->
                 IF up[c] THEN Append(watch[c], [name |-> h, obj |-> o]) ELSE watch[c]]

Edit(h, o) ==
  /\ edits < MaxEdits
  /\ edits' = edits + 1
  /\ Publish(h, o)
  /\ UNCHANGED <<clock, up, cache, processVars, scaleVars>>

UserCreates(h) ==
  /\ api[h] = Nil
  /\ \E s \in Specs : Edit(h, NewObject(h, rev + 1, s, clock))

UserUpdates(h) ==
  /\ api[h] # Nil
  /\ \E s \in Specs \ {api[h].spec} :
       Edit(h, [api[h] EXCEPT !.spec = s, !.resourceVersion = rev + 1])

UserDeletes(h) ==
  /\ api[h] # Nil
  /\ Edit(h, Nil)

-----------------------------------------------------------------------------
(* The informer.                                                           *)

\* mutant: any event on its way may be the next
DeliverAny(c) ==
  /\ up[c]
  /\ \E i \in DOMAIN watch[c] :
       LET event == watch[c][i]
       IN  /\ cache' = [cache EXCEPT ![c][event.name] = event.obj]
           /\ watch' = [watch EXCEPT ![c] =
                          SubSeq(@, 1, i - 1) \o SubSeq(@, i + 1, Len(@))]
  /\ UNCHANGED <<clock, storeVars, up, processVars, scaleVars>>

(* The next event reaches the cache. *)
Deliver(c) ==
  /\ up[c]
  /\ watch[c] # <<>>
  /\ cache' = [cache EXCEPT ![c][Head(watch[c]).name] = Head(watch[c]).obj]
  /\ watch' = [watch EXCEPT ![c] = Tail(@)]
  /\ UNCHANGED <<clock, storeVars, up, processVars, scaleVars>>

\* mutant: the list is not asked for, and what was on its way is missed
WatchResumes(c) ==
  /\ up[c]
  /\ FaultElsewhere
  /\ watch' = [watch EXCEPT ![c] = <<>>]
  /\ UNCHANGED <<clock, storeVars, up, cache, processVars>>

Listing == {[name |-> h, obj |-> api[h]] : h \in CronHPA}

(* The watch ends and what was on its way is lost.  The informer lists     *)
(* again, in any order; meanwhile the passes go on with the old cache.     *)
WatchBreaks(c) ==
  /\ up[c]
  /\ FaultElsewhere
  /\ \E events \in [1 .. Cardinality(CronHPA) -> Listing] :
       /\ Range(events) = Listing
       /\ watch' = [watch EXCEPT ![c] = events]
  /\ UNCHANGED <<clock, storeVars, up, cache, processVars>>

Crash(c) ==
  /\ up[c]
  /\ CallerDies(c)
  /\ up' = [up EXCEPT ![c] = FALSE]
  /\ cache' = [cache EXCEPT ![c] = [h \in CronHPA |-> Nil]]
  /\ watch' = [watch EXCEPT ![c] = <<>>]
  /\ todo' = [todo EXCEPT ![c] = {}]
  /\ work' = [work EXCEPT ![c] = Nil]
  /\ UNCHANGED <<clock, storeVars, applied>>

(* Run waits until the cache holds a full list before the first pass. *)
Restart(c) ==
  /\ ~up[c]
  /\ up' = [up EXCEPT ![c] = TRUE]
  /\ cache' = [cache EXCEPT ![c] = api]
  /\ UNCHANGED <<clock, storeVars, watch, processVars, scaleVars>>

-----------------------------------------------------------------------------
(* A pass of reconcileCronHPAs.                                            *)

Idle(c) == up[c] /\ work[c] = Nil

(* The lister returns what the cache holds, in no order. *)
Listed(c) == {cache[c][h] : h \in CronHPA} \ {Nil}

List(c) ==
  /\ Idle(c)
  /\ todo[c] = {}
  /\ todo' = [todo EXCEPT ![c] = Listed(c)]
  /\ UNCHANGED <<clock, storeVars, cacheVars, work, applied, scaleVars>>

\* mutant: an error ends the pass
SkipEndsPass(c) ==
  /\ Idle(c)
  /\ \E o \in todo[c] :
       \/ /\ PlanFails(o, Now(c))
          /\ todo' = [todo EXCEPT ![c] = {}]
       \/ /\ ~PlanFails(o, Now(c)) /\ Batch(o, Now(c)) = {}
          /\ todo' = [todo EXCEPT ![c] = @ \ {o}]
  /\ UNCHANGED <<clock, storeVars, cacheVars, work, applied, scaleVars>>

(* Nothing is due, or an error is logged: on to the next object. *)
SkipCronHPA(c) ==
  /\ Idle(c)
  /\ \E o \in todo[c] :
       /\ PlanFails(o, Now(c)) \/ Batch(o, Now(c)) = {}
       /\ todo' = [todo EXCEPT ![c] = @ \ {o}]
  /\ UNCHANGED <<clock, storeVars, cacheVars, work, applied, scaleVars>>

\* mutant: one cron of the batch is recorded, another one scaled for
StartMixesBatch(c) ==
  /\ Idle(c)
  /\ \E o \in todo[c] :
       /\ ~PlanFails(o, Now(c))
       /\ \E cron \in Winners(Batch(o, Now(c))), other \in Batch(o, Now(c)) :
            /\ work' = [work EXCEPT ![c] =
                          [obj |-> o, cron |-> cron, now |-> Now(c), at |-> Nil]]
            /\ updateScaleTargetRef(c, o.spec.scaleTargetRef, other.targeSize)
       /\ todo' = [todo EXCEPT ![c] = @ \ {o}]
  /\ UNCHANGED <<clock, storeVars, cacheVars, applied>>

StartCronHPA(c) ==
  /\ Idle(c)
  /\ \E o \in todo[c] :
       /\ ~PlanFails(o, Now(c))
       /\ \E cron \in Winners(Batch(o, Now(c))) :
            /\ work' = [work EXCEPT ![c] =
                          [obj |-> o, cron |-> cron, now |-> Now(c), at |-> Nil]]
            /\ updateScaleTargetRef(c, o.spec.scaleTargetRef, cron.targeSize)
       /\ todo' = [todo EXCEPT ![c] = @ \ {o}]
  /\ UNCHANGED <<clock, storeVars, cacheVars, applied>>

ScaleStep(c) ==
  /\ CallStep(c)
  /\ UNCHANGED <<clock, storeVars, cacheVars, processVars>>

\* mutant: the error is logged but not returned
AbandonRecords(c) ==
  /\ call[c].pc = "err"
  /\ Return(c)
  /\ work' = [work EXCEPT ![c].at = Now(c)]
  /\ UNCHANGED <<clock, storeVars, cacheVars, todo, applied>>

\* mutant: the pass goes on while the call is still open
AbandonOpenCall(c) ==
  /\ call[c].pc = "err"
  /\ work' = [work EXCEPT ![c] = Nil]
  /\ UNCHANGED <<clock, storeVars, cacheVars, todo, applied, scaleVars>>

\* mutant: the caller does not wait for the answer
AbandonsUnanswered(c) ==
  /\ call[c].pc \in Requests \cup {"err"}
  /\ EndCall(c)
  /\ work' = [work EXCEPT ![c] = Nil]
  /\ UNCHANGED <<clock, storeVars, cacheVars, todo, applied, disruptions>>

(* The scaling failed: the object keeps its status and is tried again in   *)
(* the next pass.                                                          *)
AbandonCronHPA(c) ==
  /\ call[c].pc = "err"
  /\ Return(c)
  /\ work' = [work EXCEPT ![c] = Nil]
  /\ UNCHANGED <<clock, storeVars, cacheVars, todo, applied>>

\* mutant: the object in the cache is changed in place
CacheSharesObject(c) ==
  [cache EXCEPT ![c][work[c].obj.name] =
     IF @ = work[c].obj THEN Recorded(@, work[c].cron, Now(c)) ELSE @]

(* reconcileCronHPA works on a deep copy of what the lister gave it. *)
CacheAfterRecording(c) == cache

(* The scaling succeeded: the clock is read a second time. *)
RecordScaling(c) ==
  /\ call[c].pc = "ok"
  /\ Return(c)
  /\ work' = [work EXCEPT ![c].at = Now(c)]
  /\ applied' = applied \cup
       {<<work[c].obj.name, work[c].obj.uid, work[c].cron.name>>}
  /\ cache' = CacheAfterRecording(c)
  /\ UNCHANGED <<clock, storeVars, up, watch, todo>>

Recording(c) == work[c] # Nil /\ work[c].at # Nil

\* mutant: an update overwrites whatever is stored
AnyVersion(o) == api[o.name] # Nil

(* The version a status update was computed from is still the stored one.  *)
NoConflict(o) == api[o.name] # Nil /\ api[o.name].resourceVersion = o.resourceVersion

(* An answer that is lost is the same to the process: it goes on, and the  *)
(* next pass finds in the cache what was stored.                           *)
UpdateCronHPA(c) ==
  /\ Recording(c)
  /\ LET o == work[c].obj
     IN  /\ NoConflict(o)
         /\ Publish(o.name, [Recorded(o, work[c].cron, work[c].at) EXCEPT
                               !.resourceVersion = rev + 1])
  /\ work' = [work EXCEPT ![c] = Nil]
  /\ UNCHANGED <<clock, edits, up, cache, todo, applied, scaleVars>>

UpdateFails(c) ==
  /\ Recording(c)
  /\ \/ /\ ~NoConflict(work[c].obj)
        /\ UNCHANGED scaleVars
     \/ FaultElsewhere
  /\ work' = [work EXCEPT ![c] = Nil]
  /\ UNCHANGED <<clock, storeVars, cacheVars, todo, applied>>

ControllerStep(c) ==
  \/ List(c)
  \/ SkipCronHPA(c)
  \/ StartCronHPA(c)
  \/ ScaleStep(c)
  \/ AbandonCronHPA(c)
  \/ RecordScaling(c)
  \/ UpdateCronHPA(c)
  \/ UpdateFails(c)

-----------------------------------------------------------------------------
Init ==
  /\ clock = 0
  /\ api \in [CronHPA -> {Nil} \cup {NewObject(h, 0, s, 0) : h \in CronHPA, s \in Specs}]
  /\ \A h \in CronHPA : api[h] # Nil => api[h].name = h
  /\ rev = 0
  /\ edits = 0
  /\ up = [c \in Controller |-> TRUE]
  /\ cache = [c \in Controller |-> api]
  /\ watch = [c \in Controller |-> <<>>]
  /\ todo = [c \in Controller |-> {}]
  /\ work = [c \in Controller |-> Nil]
  /\ applied = {}
  /\ ScaleInit

Environment(t) ==
  /\ ScaleEnvironment(t)
  /\ UNCHANGED <<clock, storeVars, cacheVars, processVars>>

Next ==
  \/ Tick
  \/ \E h \in CronHPA : UserCreates(h) \/ UserUpdates(h) \/ UserDeletes(h)
  \/ \E c \in Controller : \/ ControllerStep(c)
                           \/ Deliver(c)
                           \/ WatchBreaks(c)
                           \/ Crash(c)
                           \/ Restart(c)
  \/ \E t \in Target : Environment(t)

Spec == Init /\ [][Next]_vars

(***************************************************************************)
(* A process goes on with its pass, and starts the next one when its       *)
(* period has passed; requests are answered or time out, the watch         *)
(* delivers, and the Deployment restarts a dead process.  Users, the clock *)
(* and other writers owe nothing.                                          *)
(***************************************************************************)
Fairness == \A c \in Controller : /\ WF_vars(ControllerStep(c))
                                  /\ WF_vars(Deliver(c))
                                  /\ WF_vars(Restart(c))

FairSpec == Spec /\ Fairness

-----------------------------------------------------------------------------
(* Properties.                                                             *)

CallTypeOK(c) ==
  /\ work[c] = Nil => call[c].pc = "none"
  /\ work[c] # Nil => \/ work[c].at = Nil /\ call[c].pc # "none"
                      \/ work[c].at # Nil /\ call[c].pc = "none"

TypeOK ==
  /\ clock \in Nat
  /\ api \in [CronHPA -> Object \cup {Nil}]
  /\ rev \in Nat
  /\ edits \in Nat
  /\ up \in [Controller -> BOOLEAN]
  /\ cache \in [Controller -> [CronHPA -> Object \cup {Nil}]]
  /\ watch \in [Controller -> Seq(Event)]
  /\ todo \in [Controller -> SUBSET Object]
  /\ work \in [Controller -> Work \cup {Nil}]
  /\ applied \subseteq CronHPA \X Nat \X STRING
  /\ ScaleTypeOK
  /\ \A c \in Controller : CallTypeOK(c)

(* The objects a process has a copy of. *)
Copies(c) ==
  {cache[c][h] : h \in CronHPA} \cup {event.obj : event \in Range(watch[c])}
    \cup todo[c] \cup (IF work[c] = Nil THEN {} ELSE {work[c].obj})

(***************************************************************************)
(* A copy that carries the version the API server has now is equal to what *)
(* the API server has.  An update that is refused for any other version is *)
(* then computed from the current spec and the current status.  It rests   *)
(* on reconcileCronHPA working on a deep copy: the lister hands out        *)
(* pointers into the cache.                                                *)
(***************************************************************************)
SnapshotFaithful ==
  \A c \in Controller : \A o \in Copies(c) \ {Nil} :
    NoConflict(o) => o = api[o.name]

(***************************************************************************)
(* A condition says Succeed only of a cron of this very object whose       *)
(* scaling went through: neither a failed scaling, nor one made for a      *)
(* deleted object of the same name, marks a cron as run.                   *)
(***************************************************************************)
RecordedMeansApplied ==
  \A h \in CronHPA : api[h] # Nil =>
    \A name \in api[h].conditions : <<h, api[h].uid, name>> \in applied

(***************************************************************************)
(* The stored objects are a ledger of scalings (module CronLedger): no     *)
(* update of a status undoes a user's edit or another update, brings a     *)
(* deleted object back or enters a run-once cron again, and each settles   *)
(* at least one start time nobody had settled.                             *)
(***************************************************************************)
Entry(o) ==
  IF o = Nil THEN Nil
  ELSE [spec |-> o.spec, settled |-> getLatestScheduledTime(o), ran |-> o.conditions]

Ledger == INSTANCE CronLedger WITH ledger <- [h \in CronHPA |-> Entry(api[h])]

LedgerSpec == Ledger!Spec

(***************************************************************************)
(* Without a deadline, a schedule that has missed too many starts blocks   *)
(* its CronHPA for good: the error returns before anything is scaled, so   *)
(* LastScheduleTime never moves and the count only grows.  Restarts and    *)
(* time do not help, a user's edit does.                                   *)
(***************************************************************************)
MissedTooMany(o) ==
  /\ o.spec.startingDeadlineSeconds = 0
  /\ \E s \in o.spec.excludeDates \cup {cron.schedule : cron \in Pending(o)} :
       Cardinality(FiresBetween(s, getLatestScheduledTime(o), clock)) > MaxMissed

Wedged(h) ==
  /\ api[h] # Nil
  /\ MissedTooMany(api[h])
  /\ \A c \in Controller : work[c] # Nil => work[c].obj # api[h]

WedgedUntilEdited ==
  [][\A h \in CronHPA : Wedged(h) => Wedged(h)' \/ edits' # edits]_vars

(***************************************************************************)
(* Whatever is due is served, or stops being due, if only the clock stands *)
(* still long enough: a failed scaling, a refused update, a crash and an   *)
(* object that always fails do not keep another CronHPA waiting for ever.  *)
(***************************************************************************)
Due(h) ==
  /\ api[h] # Nil
  /\ ~PlanFails(api[h], clock)
  /\ Batch(api[h], clock) # {}

Reachable(h) ==
  /\ api[h].spec.scaleTargetRef.kind # HPAKind
  /\ api[h].spec.scaleTargetRef.name \in Deployed
  /\ \A cron \in Range(api[h].spec.crons) : cron.targeSize >= 0

DueIsServed ==
  \A h \in CronHPA : (Due(h) /\ Reachable(h)) ~> ~(Due(h) /\ Reachable(h))

(***************************************************************************)
(* The cache is only late, never wrong for good: when the objects are left *)
(* alone, every process comes to see them as they are stored, whatever was *)
(* lost with a watch that ended.                                           *)
(***************************************************************************)
CacheCatchesUp ==
  <>[][api' = api]_vars => <>[](\A c \in Controller : up[c] => cache[c] = api)

(***************************************************************************)
(* At any moment the cache lacks only what is on its way: whatever ended a *)
(* watch, the last event about an object that a process has yet to be told *)
(* is what is stored, and where there is none the cache already holds it.  *)
(***************************************************************************)
About(c, h) == {i \in DOMAIN watch[c] : watch[c][i].name = h}

OnlyLate ==
  \A c \in Controller, h \in CronHPA : up[c] =>
    /\ About(c, h) = {} => cache[c][h] = api[h]
    /\ \A i \in About(c, h) :
         (\A j \in About(c, h) : j <= i) => watch[c][i].obj = api[h]

(***************************************************************************)
(* No event puts an older state of an object in the place of a newer one,  *)
(* across watches that end and are followed by a listing: a later pass     *)
(* does not plan from an older spec or LastScheduleTime than an earlier.   *)
(***************************************************************************)
CacheNeverGoesBack ==
  [][\A c \in Controller, h \in CronHPA :
       up[c] /\ up'[c] /\ cache[c][h] # Nil /\ cache'[c][h] # Nil
         => cache[c][h].resourceVersion <= cache'[c][h].resourceVersion]_vars

(***************************************************************************)
(* A pass comes to its end, however its requests are answered and whoever  *)
(* writes meanwhile: each of its steps leaves fewer to be made.  What was  *)
(* refused or lost is not tried again before the next pass, so one CronHPA *)
(* cannot keep a process from the others (reconcileCronHPAs).              *)
(***************************************************************************)
StepsOfCall == [none |-> 1, ok |-> 2, err |-> 2, updateScale |-> 3, getScale |-> 4,
                updateHPA |-> 5, getHPA |-> 6]

StepsLeft(c) ==
  7 * Cardinality(todo[c]) + (IF work[c] = Nil THEN 0 ELSE StepsOfCall[call[c].pc])

PassEnds ==
  [][\A c \in Controller :
       ~(Idle(c) /\ todo[c] = {})
         => \/ UNCHANGED <<todo[c], work[c], call[c]>>
            \/ StepsLeft(c)' < StepsLeft(c)]_vars

(***************************************************************************)
(* A success that is going to be recorded for a cron was had with the size *)
(* of this cron and on the target of this object, at the moment the last   *)
(* request was answered: the workload had the size, or the HPA admitted it *)
(* and reported no fewer replicas.  No other cron that was due lends its   *)
(* size, and no other object that is handled in the same pass its target.  *)
(***************************************************************************)
ScaledAsPlanned ==
  [][\A c \in Controller :
       call[c].pc # "ok" /\ call'[c].pc = "ok"
         => LET ref == work[c].obj.spec.scaleTargetRef
                n   == work[c].cron.targeSize
            IN  /\ work'[c] = work[c]
                /\ \/ workload'[ref.name] = n
                   \/ /\ ref.kind = HPAKind
                      /\ hpa'[ref.name].min <= n /\ n <= hpa'[ref.name].max
                      /\ n <= hpa'[ref.name].current]_vars

(***************************************************************************)
(* "filter with exclude time" (reconcileCronHPA): no scaling is made for a *)
(* start time that an exclude date names.                                  *)
(***************************************************************************)
ExcludedNeverRuns ==
  [][\A c \in Controller :
       work[c] = Nil /\ work'[c] # Nil
         => LET o     == work'[c].obj
                start == Max(UnmetTimes(o, work'[c].now, work'[c].cron.schedule).times)
            IN  \A s \in o.spec.excludeDates :
                  start \notin FiresBetween(s, getLatestScheduledTime(o), start)]_vars

(***************************************************************************)
(* "job has been run" (reconcileCronHPA): a run-once cron whose scaling    *)
(* went through is not scaled a second time, at the latest when the        *)
(* process sees the object as it is stored.                                *)
(***************************************************************************)
RunOnceScalesOnce ==
  [][\A c \in Controller :
       work[c] = Nil /\ work'[c] # Nil
         => LET o    == work'[c].obj
                cron == work'[c].cron
            IN  o = api[o.name] /\ cron.runOnce
                  => <<o.name, o.uid, cron.name>> \notin applied]_vars

(***************************************************************************)
(* LastScheduleTime is "when was the last time the schedule was            *)
(* successfully scheduled": every start time up to it was seen by the plan *)
(* that was carried out.                                                   *)
(***************************************************************************)
SettledWasPlanned ==
  [][\A c \in Controller : \A h \in CronHPA :
       Recording(c) /\ work[c].obj = api[h] /\ api'[h] # api[h] /\ edits' = edits
         => \A cron \in Pending(api[h]) :
              LET missed(now) ==
                    FiresBetween(cron.schedule, getLatestScheduledTime(api[h]), now)
              IN  missed(work[c].at) = missed(work[c].now)]_vars
=============================================================================
