---------------------------- MODULE WedgedProofs ----------------------------
(***************************************************************************)
(* A CronHPA that has missed too many starts stays blocked until it is     *)
(* edited, for any number of processes none of whose clocks is behind the  *)
(* API server's.  A clock that is behind may still see few enough missed   *)
(* starts and scale.                                                       *)
(***************************************************************************)
EXTENDS CronLedgerProofs

NoneBehind == \A c \in Controller : Skew[c] >= 0

LEMMA FiresAreFinite ==
  ASSUME NEW s, NEW from \in Int, NEW now \in Int
  PROVE  IsFiniteSet(FiresBetween(s, from, now))
<1>1. IsFiniteSet((from + 1) .. now)
  BY FS_Interval
<1>2. FiresBetween(s, from, now) \subseteq (from + 1) .. now
  BY DEF FiresBetween
<1> QED  BY <1>1, <1>2, FS_Subset

(* Too many missed starts at one time are too many at any later one.       *)
LEMMA NeverFewer ==
  ASSUME NEW s \in Schedule, NEW from \in Int, NEW now \in Int, NEW at \in Int,
         now <= at, Cardinality(FiresBetween(s, from, now)) > MaxMissed
  PROVE  Cardinality(FiresBetween(s, from, at)) > MaxMissed
<1>1. FiresBetween(s, from, now) \subseteq FiresBetween(s, from, at)
  BY LaterFires
<1>2. IsFiniteSet(FiresBetween(s, from, at)) /\ IsFiniteSet(FiresBetween(s, from, now))
  BY FiresAreFinite
<1>3. Cardinality(FiresBetween(s, from, now)) <= Cardinality(FiresBetween(s, from, at))
  BY <1>1, <1>2, FS_Subset
<1>4. /\ Cardinality(FiresBetween(s, from, now)) \in Nat
      /\ Cardinality(FiresBetween(s, from, at)) \in Nat
  BY <1>2, FS_CardinalityType
<1> QED  BY <1>3, <1>4, CronTimesAssumption

(* More starts than none lie only before now, where the code looks. *)
LEMMA TooManyIsError ==
  ASSUME NEW o \in Object, NEW now \in Int, NEW s \in Schedule,
         o.spec.startingDeadlineSeconds = 0,
         Cardinality(FiresBetween(s, getLatestScheduledTime(o), now)) > MaxMissed
  PROVE  UnmetTimes(o, now, s).err
<1> DEFINE latest == getLatestScheduledTime(o)
<1>1. latest \in Int
  BY UnmetAreMissed
<1> HIDE DEF latest
<1>2. latest <= now
  <2> SUFFICES ASSUME now < latest PROVE FALSE
    BY <1>1
  <2>1. FiresBetween(s, latest, now) = {}
    BY <1>1 DEF FiresBetween
  <2>2. Cardinality(FiresBetween(s, latest, now)) = 0
    BY <2>1, FS_EmptySet
  <2> QED  BY <2>2, CronTimesAssumption DEF latest
<1>3. EarliestTime(latest, now, o.spec.startingDeadlineSeconds) = latest
  BY DEF EarliestTime
<1> QED
  BY <1>2, <1>3 DEF UnmetTimes, getRecentUnmetScheduleTimes, latest

(* A plan for such an object fails, at any reading of any process's clock. *)
LEMMA MissedTooManyFails ==
  ASSUME TypeOK, NEW o \in Object, MissedTooMany(o), NEW now \in Int, clock <= now
  PROVE  PlanFails(o, now)
<1>1. PICK s \in o.spec.excludeDates \cup {cron.schedule : cron \in Pending(o)} :
        Cardinality(FiresBetween(s, getLatestScheduledTime(o), clock)) > MaxMissed
  BY DEF MissedTooMany
<1>2. \A cron \in Pending(o) : cron.schedule \in Schedule
  BY CronOfObject DEF Cron
<1>3. s \in Schedule
  BY <1>1, <1>2 DEF Object, CronHPASpec
<1>4. getLatestScheduledTime(o) \in Int
  BY <1>3, UnmetAreMissed
<1>5. clock \in Int
  BY DEF TypeOK
<1>6. UnmetTimes(o, now, s).err
  BY <1>1, <1>3, <1>4, <1>5, NeverFewer, TooManyIsError DEF MissedTooMany
<1>7. CASE s \in o.spec.excludeDates
  BY <1>6, <1>7 DEF PlanFails, ExcludeTimes, getExcludeTimes, UnmetTimes
<1>8. CASE s \in {cron.schedule : cron \in Pending(o)}
  BY <1>6, <1>8 DEF PlanFails
<1> QED  BY <1>1, <1>7, <1>8

-----------------------------------------------------------------------------
(* Time goes by, the object stays, and nobody begins to work on it.        *)
LEMMA StaysWedged ==
  ASSUME TypeOK, TypeOK', NEW h \in CronHPA, Wedged(h),
         api'[h] = api[h], clock <= clock',
         \A c \in Controller :
           work'[c] # Nil => \/ work'[c].obj # api[h]
                             \/ work[c] # Nil /\ work'[c].obj = work[c].obj
  PROVE  Wedged(h)'
<1> DEFINE o == api[h]
<1>1. o \in Object /\ clock \in Int /\ clock' \in Int /\ api'[h] = o
  BY DEF TypeOK, Wedged
<1>2. MissedTooMany(o)
  BY DEF Wedged
<1> HIDE DEF o
<1>3. PICK s \in o.spec.excludeDates \cup {cron.schedule : cron \in Pending(o)} :
        Cardinality(FiresBetween(s, getLatestScheduledTime(o), clock)) > MaxMissed
  BY <1>2 DEF MissedTooMany
<1>4. \A cron \in Pending(o) : cron.schedule \in Schedule
  BY <1>1, CronOfObject DEF Cron
<1>5. s \in Schedule
  BY <1>1, <1>3, <1>4 DEF Object, CronHPASpec
<1>6. getLatestScheduledTime(o) \in Int
  BY <1>1, <1>5, UnmetAreMissed
<1>7. Cardinality(FiresBetween(s, getLatestScheduledTime(o), clock')) > MaxMissed
  BY <1>1, <1>3, <1>5, <1>6, NeverFewer
<1>8. MissedTooMany(api[h])'
  BY <1>1, <1>2, <1>3, <1>7 DEF MissedTooMany
<1> QED  BY <1>8 DEF Wedged, o

LEMMA PassStaysWedged ==
  ASSUME NoneBehind, TypeOK, TypeOK', CopiesInv, NEW c \in Controller, ControllerStep(c),
         NEW h \in CronHPA, Wedged(h)
  PROVE  Wedged(h)'
<1> DEFINE o == api[h]
<1>1. o \in Object /\ MissedTooMany(o) /\ clock \in Int
  BY DEF TypeOK, Wedged
<1>2. CASE List(c) \/ SkipCronHPA(c) \/ ScaleStep(c) \/ AbandonCronHPA(c) \/ UpdateFails(c)
  <2>1. api' = api /\ clock' = clock
    BY <1>2
    DEF List, SkipCronHPA, ScaleStep, AbandonCronHPA, UpdateFails, storeVars
  <2>2. work' = work \/ work' = [work EXCEPT ![c] = Nil]
    BY <1>2
    DEF List, SkipCronHPA, ScaleStep, AbandonCronHPA, UpdateFails, processVars
  <2>3. \A d \in Controller : work'[d] # Nil => work[d] # Nil /\ work'[d].obj = work[d].obj
    BY <2>2 DEF TypeOK
  <2> QED  BY <1>1, <2>1, <2>3, StaysWedged
<1>3. CASE StartCronHPA(c)
  <2>1. PICK p \in todo[c] :
          /\ ~PlanFails(p, Now(c))
          /\ \E cron \in Winners(Batch(p, Now(c))) :
               work' = [work EXCEPT ![c] =
                          [obj |-> p, cron |-> cron, now |-> Now(c), at |-> Nil]]
    BY <1>3 DEF StartCronHPA
  <2>2. Now(c) \in Int /\ clock <= Now(c)
    BY <1>1, ControllerAssumption DEF Now, NoneBehind
  <2>3. p # o
    BY <1>1, <2>1, <2>2, MissedTooManyFails
  <2>4. work'[c].obj = p /\ \A d \in Controller : d # c => work'[d] = work[d]
    BY <2>1 DEF TypeOK
  <2>5. api' = api /\ clock' = clock
    BY <1>3 DEF StartCronHPA, storeVars
  <2> QED  BY <1>1, <2>3, <2>4, <2>5, StaysWedged
<1>4. CASE RecordScaling(c)
  <2>1. work[c] \in Work /\ work[c] # Nil
    BY <1>4, ControllerAssumption DEF RecordScaling, TypeOK, CallTypeOK
  <2>2. /\ work' = [work EXCEPT ![c].at = Now(c)]
        /\ api' = api /\ clock' = clock
    BY <1>4 DEF RecordScaling, storeVars
  <2>3. work'[c] = [work[c] EXCEPT !.at = Now(c)]
    BY <2>2 DEF TypeOK
  <2>4. work'[c].obj = work[c].obj
    BY <2>1, <2>3 DEF Work
  <2>5. \A d \in Controller : d # c => work'[d] = work[d]
    BY <2>2 DEF TypeOK
  <2> QED  BY <1>1, <2>1, <2>2, <2>4, <2>5, StaysWedged
<1>5. CASE UpdateCronHPA(c)
  <2>1. work[c] # Nil /\ work[c].obj \in Object /\ NoConflict(work[c].obj)
    BY <1>5 DEF UpdateCronHPA, Recording, TypeOK, Work
  <2>2. work[c].obj = api[work[c].obj.name]
    BY <2>1, ControllerAssumption DEF CopiesInv, SnapshotFaithful, Copies
  <2>3. work[c].obj.name # h
    BY <2>1, <2>2 DEF Wedged
  <2>4. /\ \E new : api' = [api EXCEPT ![work[c].obj.name] = new]
        /\ work' = [work EXCEPT ![c] = Nil]
        /\ clock' = clock
    BY <1>5 DEF UpdateCronHPA, Publish
  <2>5. api'[h] = api[h]
    BY <2>3, <2>4 DEF TypeOK
  <2>6. \A d \in Controller : work'[d] # Nil => work[d] # Nil /\ work'[d].obj = work[d].obj
    BY <2>4 DEF TypeOK
  <2> QED  BY <1>1, <2>4, <2>5, <2>6, StaysWedged
<1> QED  BY <1>2, <1>3, <1>4, <1>5 DEF ControllerStep

LEMMA StepStaysWedged ==
  ASSUME NoneBehind, TypeOK, TypeOK', CopiesInv, [Next]_vars,
         NEW h \in CronHPA, Wedged(h), edits' = edits
  PROVE  Wedged(h)'
<1>1. ~\E g \in CronHPA : UserCreates(g) \/ UserUpdates(g) \/ UserDeletes(g)
  <2> SUFFICES ASSUME NEW g \in CronHPA, NEW p, Edit(g, p) PROVE FALSE
    BY DEF UserCreates, UserUpdates, UserDeletes
  <2> QED  BY DEF Edit, TypeOK
<1>2. ASSUME api' = api, clock' \in Int, clock <= clock',
             \A c \in Controller : work'[c] = Nil \/ work'[c] = work[c]
      PROVE  Wedged(h)'
  BY <1>2, StaysWedged
<1>3. clock \in Int
  BY DEF TypeOK
<1>4. CASE Tick \/ UNCHANGED vars \/ \E t \in Target : Environment(t)
  <2>1. api' = api /\ work' = work /\ (clock' = clock \/ clock' = clock + 1)
    BY <1>4 DEF Tick, vars, Environment, storeVars, processVars
  <2> QED  BY <1>2, <1>3, <2>1
<1>5. ASSUME NEW c \in Controller, Deliver(c) \/ WatchBreaks(c) \/ Crash(c) \/ Restart(c)
      PROVE  Wedged(h)'
  <2>1. api' = api /\ clock' = clock
    BY <1>5 DEF Deliver, WatchBreaks, Crash, Restart, storeVars
  <2>2. work' = work \/ work' = [work EXCEPT ![c] = Nil]
    BY <1>5 DEF Deliver, WatchBreaks, Crash, Restart, processVars
  <2>3. \A d \in Controller : work'[d] = Nil \/ work'[d] = work[d]
    BY <2>2 DEF TypeOK
  <2> QED  BY <1>2, <1>3, <2>1, <2>3
<1> QED  BY <1>1, <1>4, <1>5, PassStaysWedged DEF Next

(***************************************************************************)
(* getRecentUnmetScheduleTimes fails for a schedule with more than         *)
(* MaxMissed missed starts, LastScheduleTime then never moves, and so the  *)
(* CronHPA is not scaled for again before a user edits it.                 *)
(***************************************************************************)
THEOREM StuckUntilEdited ==
  ASSUME NoneBehind
  PROVE  Spec => WedgedUntilEdited
<1>1. TypeOK /\ TypeOK' /\ CopiesInv /\ [Next]_vars
        => [\A h \in CronHPA : Wedged(h) => Wedged(h)' \/ edits' # edits]_vars
  BY StepStaysWedged
<1> QED  BY <1>1, TypeCorrect, CopiesAreKnown, PTL DEF Spec, WedgedUntilEdited
=============================================================================
