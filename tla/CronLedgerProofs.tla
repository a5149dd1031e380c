-------------------------- MODULE CronLedgerProofs --------------------------
(***************************************************************************)
(* The controller implements the ledger: every step of CronHPAController   *)
(* is a step of CronLedger or leaves the ledger alone.                     *)
(***************************************************************************)
EXTENDS CronHPAControllerProofs

(***************************************************************************)
(* The work in hand answers a start time nobody has settled, and the clock *)
(* of the process never shows a time before the one it planned with.       *)
(***************************************************************************)
IsDue(w) ==
  /\ w.cron \in Pending(w.obj)
  /\ FiresBetween(w.cron.schedule, getLatestScheduledTime(w.obj), w.now) # {}

WorkIsDue ==
  \A c \in Controller : work[c] # Nil =>
    /\ IsDue(work[c])
    /\ work[c].now <= Now(c)
    /\ work[c].at # Nil => work[c].now <= work[c].at

-----------------------------------------------------------------------------
(* A schedule that fires after a time at or past latest fires after latest. *)
LEMMA EarlierFires ==
  ASSUME NEW s \in Schedule, NEW latest \in Int, NEW from \in Int, NEW now \in Int,
         latest <= from, FiresBetween(s, from, now) # {}
  PROVE  FiresBetween(s, latest, now) # {}
<1>1. PICK t \in (from + 1) .. now :
        IF Every[s] = 0 THEN t \in Fires[s] ELSE (t - from) % Every[s] = 0
  BY DEF FiresBetween
<1>2. CASE Every[s] = 0
  BY <1>1, <1>2 DEF FiresBetween
<1>3. CASE Every[s] # 0
  <2> DEFINE e == Every[s]
  <2>1. e \in Nat /\ e > 0
    BY <1>3, CronTimesAssumption DEF CronTimesAssumption
  <2> HIDE DEF e
  <2>2. \A n \in Nat : n > 0 /\ n % e = 0 => n >= e
    BY <2>1
  <2>3. (t - from) % e = 0 /\ t - from \in Nat /\ t - from > 0
    BY <1>1, <1>3 DEF e
  <2>4. t - from >= e
    BY <2>2, <2>3
  <2>5. latest + e \in (latest + 1) .. now
    BY <2>1, <2>4
  <2>6. (latest + e) - latest = e /\ e % e = 0
    BY <2>1
  <2> QED  BY <1>3, <2>5, <2>6 DEF FiresBetween, e
<1> QED  BY <1>2, <1>3

LEMMA UnmetAreMissed ==
  ASSUME NEW o \in Object, NEW now \in Int, NEW s \in Schedule
  PROVE  /\ getLatestScheduledTime(o) \in Int
         /\ UnmetTimes(o, now, s).times # {} =>
              FiresBetween(s, getLatestScheduledTime(o), now) # {}
<1> DEFINE latest == getLatestScheduledTime(o)
           from == EarliestTime(latest, now, o.spec.startingDeadlineSeconds)
<1>1. latest \in Int /\ o.spec.startingDeadlineSeconds \in Int
  BY DEF getLatestScheduledTime, Object, CronHPASpec
<1>2. from \in Int /\ latest <= from
  <2> HIDE DEF latest
  <2> QED  BY <1>1 DEF EarliestTime
<1>3. UnmetTimes(o, now, s).times \subseteq FiresBetween(s, from, now)
  BY DEF UnmetTimes, getRecentUnmetScheduleTimes
<1> HIDE DEF latest, from
<1>4. FiresBetween(s, from, now) # {} => FiresBetween(s, latest, now) # {}
  BY <1>1, <1>2, EarlierFires
<1> QED  BY <1>1, <1>3, <1>4 DEF latest

LEMMA LaterFires ==
  ASSUME NEW s \in Schedule, NEW from \in Int, NEW now \in Int, NEW at \in Int, now <= at
  PROVE  FiresBetween(s, from, now) \subseteq FiresBetween(s, from, at)
BY DEF FiresBetween

LEMMA NowType == ASSUME TypeOK, NEW c \in Controller PROVE Now(c) \in Int
BY ControllerAssumption DEF Now, TypeOK, ControllerAssumption

-----------------------------------------------------------------------------
(* Steps after which every process works on what it worked on, or nothing. *)
LEMMA SameWorkIsDue ==
  ASSUME TypeOK, WorkIsDue, clock' \in Int, clock <= clock',
         \A c \in Controller : work'[c] = Nil \/ work'[c] = work[c]
  PROVE  WorkIsDue'
<1>1. \A c \in Controller : Now(c) \in Int /\ Now(c)' \in Int /\ Now(c) <= Now(c)'
  BY ControllerAssumption DEF Now, TypeOK, ControllerAssumption
<1>2. \A c \in Controller : work[c] # Nil => work[c].now \in Int
  BY DEF TypeOK, Work
<1> QED  BY <1>1, <1>2 DEF WorkIsDue

LEMMA StartIsDue ==
  ASSUME TypeOK, WorkIsDue, NEW c \in Controller, StartCronHPA(c)
  PROVE  WorkIsDue'
<1>1. PICK o \in todo[c] : \E cron \in Winners(Batch(o, Now(c))) :
        work' = [work EXCEPT ![c] = [obj |-> o, cron |-> cron, now |-> Now(c), at |-> Nil]]
  BY DEF StartCronHPA
<1>2. PICK cron \in Winners(Batch(o, Now(c))) :
        work' = [work EXCEPT ![c] = [obj |-> o, cron |-> cron, now |-> Now(c), at |-> Nil]]
  BY <1>1
<1>3. o \in Object /\ Now(c) \in Int /\ Now(c)' = Now(c)
  BY NowType DEF TypeOK, StartCronHPA, Now
<1>4. cron \in Batch(o, Now(c))
  BY DEF Winners
<1>5. cron \in Pending(o) /\ UnmetTimes(o, Now(c), cron.schedule).times # {}
  BY <1>4 DEF Batch
<1>6. cron.schedule \in Schedule
  BY <1>3, <1>5, CronOfObject DEF Cron
<1>7. FiresBetween(cron.schedule, getLatestScheduledTime(o), Now(c)) # {}
  BY <1>3, <1>5, <1>6, UnmetAreMissed
<1>8. work'[c] = [obj |-> o, cron |-> cron, now |-> Now(c), at |-> Nil]
  BY <1>2 DEF TypeOK
<1>9. IsDue(work'[c]) /\ work'[c].now <= Now(c)' /\ work'[c].at = Nil
  BY <1>3, <1>5, <1>7, <1>8 DEF IsDue
<1>10. \A d \in Controller : d # c => work'[d] = work[d] /\ Now(d)' = Now(d)
  BY <1>2 DEF TypeOK, StartCronHPA, Now
<1> QED  BY <1>9, <1>10 DEF WorkIsDue, IsDue

LEMMA RecordIsDue ==
  ASSUME TypeOK, WorkIsDue, NEW c \in Controller, RecordScaling(c)
  PROVE  WorkIsDue'
<1>1. work' = [work EXCEPT ![c].at = Now(c)] /\ clock' = clock
  BY DEF RecordScaling
<1>2. work[c] \in Work /\ work[c] # Nil
  BY ControllerAssumption DEF RecordScaling, TypeOK, CallTypeOK, ControllerAssumption
<1>3. work'[c] = [work[c] EXCEPT !.at = Now(c)]
  BY <1>1 DEF TypeOK
<1>4. /\ work'[c].obj = work[c].obj /\ work'[c].cron = work[c].cron
      /\ work'[c].now = work[c].now /\ work'[c].at = Now(c)
  BY <1>2, <1>3 DEF Work
<1>5. IsDue(work[c]) /\ work[c].now <= Now(c)
  BY <1>2 DEF WorkIsDue
<1>6. \A d \in Controller : Now(d)' = Now(d) /\ (d # c => work'[d] = work[d])
  BY <1>1 DEF TypeOK, Now
<1>7. IsDue(work[c])'
  BY <1>4, <1>5 DEF IsDue
<1> QED  BY <1>4, <1>5, <1>6, <1>7 DEF WorkIsDue, IsDue

LEMMA WorkIsDueStep == TypeOK /\ WorkIsDue /\ [Next]_vars => WorkIsDue'
<1> SUFFICES ASSUME TypeOK, WorkIsDue, [Next]_vars PROVE WorkIsDue'
  OBVIOUS
<1>1. clock \in Nat
  BY DEF TypeOK
<1>2. ASSUME clock' = clock \/ clock' = clock + 1,
             \A c \in Controller : work'[c] = Nil \/ work'[c] = work[c]
      PROVE  WorkIsDue'
  <2>1. clock' \in Int /\ clock <= clock'
    BY <1>1, <1>2
  <2> QED  BY <1>2, <2>1, SameWorkIsDue
<1>3. ASSUME NEW c \in Controller, ControllerStep(c)
      PROVE  WorkIsDue'
  <2>1. CASE List(c) \/ SkipCronHPA(c) \/ ScaleStep(c)
    BY <1>2, <2>1 DEF List, Listed, SkipCronHPA, ScaleStep, processVars
  <2>2. CASE AbandonCronHPA(c) \/ UpdateCronHPA(c) \/ UpdateFails(c)
    BY <1>2, <2>2 DEF AbandonCronHPA, UpdateCronHPA, UpdateFails, TypeOK
  <2> QED  BY <1>3, <2>1, <2>2, StartIsDue, RecordIsDue DEF ControllerStep
<1>4. ASSUME NEW c \in Controller, Deliver(c) \/ WatchBreaks(c) \/ Crash(c) \/ Restart(c)
      PROVE  WorkIsDue'
  BY <1>2, <1>4 DEF Deliver, WatchBreaks, Crash, Restart, processVars, TypeOK
<1>5. ASSUME NEW h \in CronHPA, UserCreates(h) \/ UserUpdates(h) \/ UserDeletes(h)
      PROVE  WorkIsDue'
  BY <1>2, <1>5 DEF UserCreates, UserUpdates, UserDeletes, Edit, processVars
<1>6. CASE Tick \/ UNCHANGED vars
  BY <1>2, <1>6 DEF Tick, vars, processVars
<1>7. ASSUME NEW t \in Target, Environment(t)
      PROVE  WorkIsDue'
  BY <1>2, <1>7 DEF Environment, processVars
<1> QED  BY <1>3, <1>4, <1>5, <1>6, <1>7 DEF Next

(* No process ever carries out or records a plan that answers nothing.     *)
THEOREM WorkAlwaysDue == Spec => []WorkIsDue
<1>1. Init => WorkIsDue
  BY DEF Init, WorkIsDue
<1> QED  BY <1>1, WorkIsDueStep, TypeCorrect, PTL DEF Spec

-----------------------------------------------------------------------------
(* The entries of the ledger.                                              *)

ledger == [h \in CronHPA |-> Entry(api[h])]

LEMMA EntryOfObject ==
  ASSUME NEW o \in Object
  PROVE  /\ o # Nil /\ Entry(o) # Nil
         /\ Entry(o) = [spec |-> o.spec, settled |-> getLatestScheduledTime(o),
                        ran |-> o.conditions]
<1>1. o # Nil
  BY ControllerAssumption DEF ControllerAssumption
<1>2. getLatestScheduledTime(o) \in Int /\ o.spec \in CronHPASpec /\ o.conditions \in SUBSET STRING
  BY DEF getLatestScheduledTime, Object
<1> QED  BY <1>1, <1>2, ControllerAssumption DEF Entry, ControllerAssumption

(* What a published object means for the ledger. *)
LEMMA PublishEntry ==
  ASSUME TypeOK, NEW h \in CronHPA, NEW o, Publish(h, o)
  PROVE  /\ ledger[h] = Entry(api[h]) /\ ledger'[h] = Entry(o)
         /\ \A g \in CronHPA \ {h} : ledger'[g] = ledger[g]
<1>1. api' = [api EXCEPT ![h] = o]
  BY DEF Publish
<1>2. \A g \in CronHPA : api'[g] = IF g = h THEN o ELSE api[g]
  BY <1>1 DEF TypeOK
<1>3. ledger' = [g \in CronHPA |-> Entry(api'[g])]
  BY DEF ledger, Entry, getLatestScheduledTime
<1> QED  BY <1>2, <1>3 DEF ledger

LEMMA UserWritesLedger ==
  ASSUME TypeOK, NEW h \in CronHPA, UserCreates(h) \/ UserUpdates(h) \/ UserDeletes(h)
  PROVE  Ledger!Next
<1>1. CASE UserCreates(h)
  <2>1. PICK s \in Specs : Edit(h, NewObject(h, rev + 1, s, clock))
    BY <1>1 DEF UserCreates
  <2> DEFINE o == NewObject(h, rev + 1, s, clock)
  <2>2. rev + 1 \in Nat /\ clock \in Int
    BY DEF TypeOK
  <2>3. o \in Object /\ o.spec \in Specs /\ o.conditions = {}
    BY <2>2, NewObjectType DEF NewObject
  <2>4. Publish(h, o) /\ api[h] = Nil
    BY <1>1, <2>1 DEF Edit, UserCreates
  <2> HIDE DEF o
  <2>5. /\ ledger[h] = Nil /\ ledger'[h] = Entry(o)
        /\ \A g \in CronHPA \ {h} : ledger'[g] = ledger[g]
    BY <2>4, PublishEntry DEF Entry
  <2>6. Entry(o) # Nil /\ Entry(o).spec \in Specs /\ Entry(o).ran = {}
    BY <2>3, EntryOfObject
  <2>7. Ledger!Create(h)
    BY <2>5, <2>6 DEF Ledger!Create, Ledger!Fresh, Ledger!Others, ledger
  <2> QED  BY <2>7 DEF Ledger!Next
<1>2. CASE UserUpdates(h)
  <2>1. PICK s \in Specs : Edit(h, [api[h] EXCEPT !.spec = s, !.resourceVersion = rev + 1])
    BY <1>2 DEF UserUpdates
  <2> DEFINE o == [api[h] EXCEPT !.spec = s, !.resourceVersion = rev + 1]
  <2>2. s \in CronHPASpec /\ rev + 1 \in Nat
    BY ControllerAssumption DEF ControllerAssumption, TypeOK
  <2>3. api[h] \in Object
    BY <1>2 DEF UserUpdates, TypeOK
  <2>4. /\ o \in Object /\ o.spec = s /\ o.conditions = api[h].conditions
        /\ getLatestScheduledTime(o) = getLatestScheduledTime(api[h])
    BY <2>2, <2>3 DEF Object, getLatestScheduledTime
  <2>5. Publish(h, o)
    BY <2>1 DEF Edit
  <2> HIDE DEF o
  <2>6. /\ ledger[h] = Entry(api[h]) /\ ledger'[h] = Entry(o)
        /\ \A g \in CronHPA \ {h} : ledger'[g] = ledger[g]
    BY <2>5, PublishEntry
  <2>7. ledger[h] # Nil /\ ledger'[h] = [ledger[h] EXCEPT !.spec = s]
    BY <2>3, <2>4, <2>6, EntryOfObject
  <2>8. Ledger!Edit(h)
    BY <2>6, <2>7 DEF Ledger!Edit, Ledger!Others, ledger
  <2> QED  BY <2>8 DEF Ledger!Next
<1>3. CASE UserDeletes(h)
  <2>1. api[h] \in Object /\ Publish(h, Nil)
    BY <1>3 DEF UserDeletes, Edit, TypeOK
  <2>2. /\ ledger[h] # Nil /\ ledger'[h] = Nil
        /\ \A g \in CronHPA \ {h} : ledger'[g] = ledger[g]
    BY <2>1, PublishEntry, EntryOfObject DEF Entry
  <2>3. Ledger!Delete(h)
    BY <2>2 DEF Ledger!Delete, Ledger!Others, ledger
  <2> QED  BY <2>3 DEF Ledger!Next
<1> QED  BY <1>1, <1>2, <1>3

LEMMA UpdateEnters ==
  ASSUME TypeOK, CopiesInv, WorkIsDue, NEW c \in Controller, UpdateCronHPA(c)
  PROVE  Ledger!Next
<1> DEFINE o    == work[c].obj
           cron == work[c].cron
           at   == work[c].at
           h    == o.name
           new  == [Recorded(o, cron, at) EXCEPT !.resourceVersion = rev + 1]
<1>1. work[c] \in Work /\ work[c] # Nil /\ at # Nil
  BY DEF UpdateCronHPA, Recording, TypeOK
<1>2. /\ o \in Object /\ cron \in Cron /\ at \in Int /\ rev + 1 \in Nat
      /\ work[c].now \in Int
  BY <1>1 DEF Work, TypeOK
<1>3. Publish(h, new) /\ NoConflict(o)
  BY DEF UpdateCronHPA
<1>4. new \in Object /\ h \in CronHPA
  BY <1>2, RecordedType DEF Object
<1>5. /\ new.spec = o.spec /\ new.conditions = o.conditions \cup {cron.name}
      /\ new.lastScheduleTime = at
  BY <1>2 DEF Recorded, Object, Cron
<1>6. getLatestScheduledTime(new) = at
  BY <1>1, <1>5 DEF getLatestScheduledTime
<1>7. o = api[h] /\ api[h] # Nil
  <2>1. o \in Copies(c) \ {Nil}
    BY <1>1, <1>2, ControllerAssumption DEF Copies, ControllerAssumption
  <2> QED  BY <1>3, <2>1 DEF CopiesInv, SnapshotFaithful, NoConflict
<1>8. /\ cron \in Range(o.spec.crons) /\ ~(cron.runOnce /\ cron.name \in o.conditions)
      /\ FiresBetween(cron.schedule, getLatestScheduledTime(o), at) # {}
  <2>1. IsDue(work[c]) /\ work[c].now <= at
    BY <1>1 DEF WorkIsDue
  <2>2. cron.schedule \in Schedule /\ getLatestScheduledTime(o) \in Int
    BY <1>2, UnmetAreMissed DEF Cron
  <2>3. FiresBetween(cron.schedule, getLatestScheduledTime(o), work[c].now) \subseteq
          FiresBetween(cron.schedule, getLatestScheduledTime(o), at)
    BY <1>2, <2>1, <2>2, LaterFires
  <2> QED  BY <2>1, <2>3 DEF IsDue, Pending, haveRunAlready
<1> HIDE DEF new, at, cron, o, h
<1>9. /\ ledger[h] = Entry(o) /\ ledger'[h] = Entry(new)
      /\ \A g \in CronHPA \ {h} : ledger'[g] = ledger[g]
  BY <1>3, <1>4, <1>7, PublishEntry
<1>10. /\ Entry(o) = [spec |-> o.spec, settled |-> getLatestScheduledTime(o),
                      ran |-> o.conditions]
       /\ Entry(new) = [spec |-> o.spec, settled |-> at, ran |-> o.conditions \cup {cron.name}]
       /\ Entry(o) # Nil /\ Entry(new) # Nil
  BY <1>2, <1>4, <1>5, <1>6, EntryOfObject
<1>11. Entry(new) = [spec |-> Entry(o).spec, settled |-> Entry(new).settled,
                     ran  |-> Entry(o).ran \cup {cron.name}]
  BY <1>10
<1>12. Ledger!FiresBetween(cron.schedule, Entry(o).settled, Entry(new).settled) # {}
  BY <1>8, <1>10 DEF FiresBetween, Ledger!FiresBetween
<1>13. cron \in Ledger!Range(Entry(o).spec.crons) /\ ~(cron.runOnce /\ cron.name \in Entry(o).ran)
  BY <1>8, <1>10 DEF Range, Ledger!Range
<1>14. \E k \in Ledger!Range(ledger[h].spec.crons) :
         /\ ~(k.runOnce /\ k.name \in ledger[h].ran)
         /\ Ledger!FiresBetween(k.schedule, ledger[h].settled, ledger'[h].settled) # {}
         /\ ledger'[h] = [spec |-> ledger[h].spec, settled |-> ledger'[h].settled,
                          ran  |-> ledger[h].ran \cup {k.name}]
  BY <1>9, <1>11, <1>12, <1>13
<1>15. ledger[h] # Nil /\ ledger'[h] # Nil
  BY <1>9, <1>10
<1>16. Ledger!Enter(h)
  BY <1>9, <1>14, <1>15 DEF Ledger!Enter, Ledger!Others, ledger
<1> QED  BY <1>4, <1>16 DEF Ledger!Next

LEMMA StepIsLedgerStep ==
  TypeOK /\ CopiesInv /\ WorkIsDue /\ [Next]_vars => [Ledger!Next]_ledger
<1> SUFFICES ASSUME TypeOK, CopiesInv, WorkIsDue, [Next]_vars
             PROVE  Ledger!Next \/ ledger' = ledger
  OBVIOUS
<1>1. ASSUME api' = api PROVE ledger' = ledger
  BY <1>1 DEF ledger, Entry, getLatestScheduledTime
<1>2. ASSUME NEW c \in Controller, ControllerStep(c)
      PROVE  Ledger!Next \/ api' = api
  BY <1>2, UpdateEnters DEF ControllerStep, List, Listed, SkipCronHPA, StartCronHPA, ScaleStep,
     AbandonCronHPA, RecordScaling, UpdateFails, storeVars
<1>3. ASSUME NEW c \in Controller, Deliver(c) \/ WatchBreaks(c) \/ Crash(c) \/ Restart(c)
      PROVE  api' = api
  BY <1>3 DEF Deliver, WatchBreaks, Crash, Restart, storeVars
<1>4. ASSUME NEW h \in CronHPA, UserCreates(h) \/ UserUpdates(h) \/ UserDeletes(h)
      PROVE  Ledger!Next
  BY <1>4, UserWritesLedger
<1>5. CASE Tick \/ UNCHANGED vars
  BY <1>1, <1>5 DEF Tick, vars, storeVars
<1>6. ASSUME NEW t \in Target, Environment(t)
      PROVE  api' = api
  BY <1>6 DEF Environment, storeVars
<1> QED  BY <1>1, <1>2, <1>3, <1>4, <1>5, <1>6 DEF Next

LEMMA InitIsLedgerInit == Init => Ledger!Init
<1> SUFFICES ASSUME Init, NEW h \in CronHPA
             PROVE  ledger[h] = Nil \/ Ledger!Fresh(h)
  BY DEF Ledger!Init, ledger
<1>1. CASE api[h] = Nil
  BY <1>1 DEF ledger, Entry
<1>2. CASE api[h] # Nil
  <2>1. PICK g \in CronHPA, s \in Specs : api[h] = NewObject(g, 0, s, 0)
    BY <1>2 DEF Init
  <2>2. api[h] \in Object /\ api[h].spec = s /\ api[h].conditions = {}
    BY <2>1, NewObjectType DEF NewObject
  <2>3. Entry(api[h]) # Nil /\ Entry(api[h]).spec \in Specs /\ Entry(api[h]).ran = {}
    BY <2>2, EntryOfObject
  <2> QED  BY <2>3 DEF Ledger!Fresh
<1> QED  BY <1>1, <1>2

(***************************************************************************)
(* Whatever the caches hold, however the requests fail and however many    *)
(* processes run, the stored objects change only as the ledger allows.     *)
(***************************************************************************)
THEOREM ImplementsLedger == Spec => LedgerSpec
<1>1. [Ledger!Next]_ledger = [Ledger!Next]_[h \in CronHPA |-> Entry(api[h])]
  BY DEF ledger
<1>2. TypeOK /\ CopiesInv /\ WorkIsDue /\ [Next]_vars
        => [Ledger!Next]_[h \in CronHPA |-> Entry(api[h])]
  BY <1>1, StepIsLedgerStep
<1> QED
  BY <1>2, InitIsLedgerInit, TypeCorrect, CopiesAreKnown, WorkAlwaysDue, PTL
     DEF Spec, LedgerSpec, Ledger!Spec
=============================================================================
