---------------------- MODULE CronHPAControllerProofs ----------------------
(***************************************************************************)
(* Theorems about the controller, for any number of processes with any     *)
(* clocks, any CronHPA objects and schedules, any number of edits and      *)
(* faults.                                                                 *)
(***************************************************************************)
EXTENDS CronHPAController, ScaleTargetProofs, FiniteSetTheorems

(***************************************************************************)
(* Sequences and objects.                                                  *)
(***************************************************************************)
LEMMA RangeAppend ==
  ASSUME NEW S, NEW s \in Seq(S), NEW e \in S
  PROVE  Range(Append(s, e)) = Range(s) \cup {e}
<1>1. DOMAIN s = 1 .. Len(s) /\ Len(s) \in Nat
  OBVIOUS
<1>2. DOMAIN Append(s, e) = 1 .. Len(s) + 1
  OBVIOUS
<1>3. /\ \A i \in DOMAIN s : Append(s, e)[i] = s[i]
      /\ Append(s, e)[Len(s) + 1] = e
  OBVIOUS
<1> QED  BY <1>1, <1>2, <1>3 DEF Range

LEMMA RangeTail ==
  ASSUME NEW S, NEW s \in Seq(S), s # <<>>
  PROVE  /\ Range(Tail(s)) \subseteq Range(s)
         /\ Head(s) \in Range(s)
         /\ Range(s) \subseteq S
<1>1. DOMAIN s = 1 .. Len(s) /\ Len(s) \in Nat /\ Len(s) # 0
  OBVIOUS
<1>2. DOMAIN Tail(s) = 1 .. Len(s) - 1 /\ \A i \in DOMAIN Tail(s) : Tail(s)[i] = s[i + 1]
  BY <1>1
<1>3. Head(s) = s[1]
  BY <1>1
<1> QED  BY <1>1, <1>2, <1>3 DEF Range

LEMMA RangeEmpty == Range(<<>>) = {}
BY DEF Range

LEMMA NewObjectType ==
  ASSUME NEW h \in CronHPA, NEW uid \in Nat, NEW s \in Specs, NEW t \in Int
  PROVE  NewObject(h, uid, s, t) \in Object
BY ControllerAssumption DEF NewObject, Object, ControllerAssumption

LEMMA CronOfObject ==
  ASSUME NEW o \in Object, NEW cron \in Pending(o)
  PROVE  cron \in Cron
<1>1. o.spec.crons \in Seq(Cron)
  BY DEF Object, CronHPASpec
<1> QED  BY <1>1 DEF Pending, Range

LEMMA RecordedType ==
  ASSUME NEW o \in Object, NEW cron \in Cron, NEW at \in Int, NEW v \in Nat
  PROVE  [Recorded(o, cron, at) EXCEPT !.resourceVersion = v] \in Object
BY DEF Recorded, Object, Cron

-----------------------------------------------------------------------------
(***************************************************************************)
(* Types.  A step of the controller is a step of ScaleTarget or leaves its *)
(* variables alone, so what ScaleTarget keeps is kept.                     *)
(***************************************************************************)
LEMMA StartIsCall ==
  ASSUME TypeOK, NEW c \in Controller, StartCronHPA(c)
  PROVE  \E ref \in Ref, n \in TargeSizes : updateScaleTargetRef(c, ref, n)
<1>1. PICK o \in todo[c] :
        \E cron \in Winners(Batch(o, Now(c))) :
          updateScaleTargetRef(c, o.spec.scaleTargetRef, cron.targeSize)
  BY DEF StartCronHPA
<1>2. PICK cron \in Winners(Batch(o, Now(c))) :
        updateScaleTargetRef(c, o.spec.scaleTargetRef, cron.targeSize)
  BY <1>1
<1>3. o \in Object
  BY DEF TypeOK
<1>4. cron \in Cron
  BY <1>3, CronOfObject DEF Winners, Batch
<1>5. o.spec.scaleTargetRef \in Ref /\ cron.targeSize \in TargeSizes
  BY <1>3, <1>4 DEF Object, CronHPASpec, Cron
<1> QED  BY <1>2, <1>5

LEMMA StepIsScaleStep == TypeOK /\ [Next]_vars => [ScaleNext]_scaleVars
<1> SUFFICES ASSUME TypeOK, [Next]_vars PROVE [ScaleNext]_scaleVars
  OBVIOUS
<1>1. ASSUME NEW h \in CronHPA, UserCreates(h) \/ UserUpdates(h) \/ UserDeletes(h)
      PROVE  UNCHANGED scaleVars
  BY <1>1 DEF UserCreates, UserUpdates, UserDeletes, Edit
<1>2. ASSUME NEW c \in Controller, ControllerStep(c)
      PROVE  [ScaleNext]_scaleVars
  <2>1. CASE List(c) \/ SkipCronHPA(c) \/ UpdateCronHPA(c)
    BY <2>1 DEF List, Listed, SkipCronHPA, UpdateCronHPA
  <2>2. CASE StartCronHPA(c)
    BY <2>2, StartIsCall DEF ScaleNext
  <2>3. CASE ScaleStep(c)
    BY <2>3 DEF ScaleStep, ScaleNext
  <2>4. CASE AbandonCronHPA(c) \/ RecordScaling(c)
    BY <2>4 DEF AbandonCronHPA, RecordScaling, ScaleNext
  <2>5. CASE UpdateFails(c)
    BY <2>5 DEF UpdateFails, ScaleNext
  <2> QED  BY <1>2, <2>1, <2>2, <2>3, <2>4, <2>5 DEF ControllerStep
<1>3. ASSUME NEW c \in Controller, Deliver(c) \/ WatchBreaks(c) \/ Crash(c) \/ Restart(c)
      PROVE  [ScaleNext]_scaleVars
  BY <1>3 DEF Deliver, WatchBreaks, Crash, Restart, ScaleNext
<1>4. ASSUME NEW t \in Target, Environment(t)
      PROVE  [ScaleNext]_scaleVars
  BY <1>4 DEF Environment, ScaleNext
<1>5. CASE Tick
  BY <1>5 DEF Tick
<1>6. CASE UNCHANGED vars
  BY <1>6 DEF vars
<1> QED  BY <1>1, <1>2, <1>3, <1>4, <1>5, <1>6 DEF Next

LEMMA InitTypeOK == Init => TypeOK
<1> SUFFICES ASSUME Init PROVE TypeOK
  OBVIOUS
<1>1. ScaleTypeOK
  BY ScaleInitTypeOK DEF Init
<1>2. {NewObject(h, 0, s, 0) : h \in CronHPA, s \in Specs} \subseteq Object
  BY NewObjectType
<1>3. api \in [CronHPA -> Object \cup {Nil}]
  BY <1>2 DEF Init
<1>4. \A c \in Controller : CallTypeOK(c)
  BY DEF Init, ScaleInit, CallTypeOK, NoCall
<1>5. cache \in [Controller -> [CronHPA -> Object \cup {Nil}]]
  BY <1>3 DEF Init
<1>6. watch \in [Controller -> Seq(Event)]
  BY DEF Init
<1> QED  BY <1>1, <1>3, <1>4, <1>5, <1>6 DEF Init, TypeOK

LEMMA PublishType ==
  ASSUME TypeOK, NEW h \in CronHPA, NEW o \in Object \cup {Nil}, Publish(h, o)
  PROVE  /\ api' \in [CronHPA -> Object \cup {Nil}]
         /\ rev' \in Nat
         /\ watch' \in [Controller -> Seq(Event)]
<1>1. [name |-> h, obj |-> o] \in Event
  BY DEF Event
<1>2. \A c \in Controller : Append(watch[c], [name |-> h, obj |-> o]) \in Seq(Event)
  BY <1>1 DEF TypeOK
<1> QED  BY <1>2 DEF Publish, TypeOK

LEMMA EditType ==
  ASSUME TypeOK, ScaleTypeOK', NEW h \in CronHPA, NEW o \in Object \cup {Nil}, Edit(h, o)
  PROVE  TypeOK'
<1>1. Publish(h, o)
  BY DEF Edit
<1>2. /\ api' \in [CronHPA -> Object \cup {Nil}] /\ rev' \in Nat
      /\ watch' \in [Controller -> Seq(Event)]
  BY <1>1, PublishType
<1>3. UNCHANGED <<clock, up, cache, todo, work, applied, call>> /\ edits' = edits + 1
  BY DEF Edit, processVars, scaleVars
<1>4. \A c \in Controller : CallTypeOK(c)'
  BY <1>3 DEF TypeOK, CallTypeOK
<1> QED  BY <1>2, <1>3, <1>4 DEF TypeOK

LEMMA UserType ==
  ASSUME TypeOK, ScaleTypeOK', NEW h \in CronHPA,
         UserCreates(h) \/ UserUpdates(h) \/ UserDeletes(h)
  PROVE  TypeOK'
<1>1. CASE UserCreates(h)
  <2>1. PICK s \in Specs : Edit(h, NewObject(h, rev + 1, s, clock))
    BY <1>1 DEF UserCreates
  <2>2. rev + 1 \in Nat /\ clock \in Int
    BY DEF TypeOK
  <2>3. NewObject(h, rev + 1, s, clock) \in Object
    BY <2>2, NewObjectType
  <2> QED  BY <2>1, <2>3, EditType
<1>2. CASE UserUpdates(h)
  <2>1. PICK s \in Specs : Edit(h, [api[h] EXCEPT !.spec = s, !.resourceVersion = rev + 1])
    BY <1>2 DEF UserUpdates
  <2>2. api[h] \in Object /\ rev + 1 \in Nat /\ s \in CronHPASpec
    <3>1. s \in CronHPASpec
      BY ControllerAssumption DEF ControllerAssumption
    <3>2. api[h] # Nil
      BY <1>2 DEF UserUpdates
    <3> QED  BY <3>1, <3>2 DEF TypeOK
  <2>3. [api[h] EXCEPT !.spec = s, !.resourceVersion = rev + 1] \in Object
    BY <2>2 DEF Object
  <2> QED  BY <2>1, <2>3, EditType
<1>3. CASE UserDeletes(h)
  BY <1>3, EditType DEF UserDeletes
<1> QED  BY <1>1, <1>2, <1>3

(* A step of one process: what it may do to its call and its work.         *)
LEMMA StartType ==
  ASSUME TypeOK, ScaleTypeOK', NEW c \in Controller, StartCronHPA(c)
  PROVE  TypeOK'
<1>1. PICK o \in todo[c] :
        /\ \E cron \in Winners(Batch(o, Now(c))) :
             /\ work' = [work EXCEPT ![c] =
                          [obj |-> o, cron |-> cron, now |-> Now(c), at |-> Nil]]
             /\ updateScaleTargetRef(c, o.spec.scaleTargetRef, cron.targeSize)
        /\ todo' = [todo EXCEPT ![c] = @ \ {o}]
  BY DEF StartCronHPA
<1>2. PICK cron \in Winners(Batch(o, Now(c))) :
        /\ work' = [work EXCEPT ![c] =
                     [obj |-> o, cron |-> cron, now |-> Now(c), at |-> Nil]]
        /\ updateScaleTargetRef(c, o.spec.scaleTargetRef, cron.targeSize)
  BY <1>1
<1>3. o \in Object
  BY DEF TypeOK
<1>4. cron \in Cron
  BY <1>3, CronOfObject DEF Winners, Batch
<1>5. Now(c) \in Int
  BY ControllerAssumption DEF Now, TypeOK, ControllerAssumption
<1>6. [obj |-> o, cron |-> cron, now |-> Now(c), at |-> Nil] \in Work
  BY <1>3, <1>4, <1>5 DEF Work
<1>7. work' \in [Controller -> Work \cup {Nil}] /\ todo' \in [Controller -> SUBSET Object]
  BY <1>1, <1>2, <1>6 DEF TypeOK
<1>8. \A d \in Controller : CallTypeOK(d)'
  <2>1. /\ work'[c] # Nil /\ work'[c].at = Nil
        /\ \A d \in Controller : d # c => work'[d] = work[d]
    BY <1>2, <1>6, ControllerAssumption DEF TypeOK, ControllerAssumption
  <2>2. /\ call'[c].pc # "none"
        /\ \A d \in Controller : d # c => call'[d] = call[d]
    BY <1>2 DEF updateScaleTargetRef, NoCall, TypeOK, ScaleTypeOK
  <2> QED  BY <2>1, <2>2 DEF TypeOK, CallTypeOK
<1>9. UNCHANGED <<clock, storeVars, cacheVars, applied>>
  BY DEF StartCronHPA
<1> QED  BY <1>7, <1>8, <1>9 DEF TypeOK, storeVars, cacheVars

LEMMA ScaledType ==
  ASSUME TypeOK, ScaleTypeOK', NEW c \in Controller,
         ScaleStep(c) \/ AbandonCronHPA(c) \/ RecordScaling(c)
  PROVE  TypeOK'
<1>1. CASE ScaleStep(c)
  <2>1. UNCHANGED <<clock, storeVars, cacheVars, processVars>> /\ CallStep(c)
    BY <1>1 DEF ScaleStep
  <2>2. call[c].pc # "none" /\ call'[c].pc # "none"
    BY <2>1 DEF CallStep, GetHPA, UpdateHPA, StoreHPA, GetScale, UpdateScale, StoreScale,
       RequestRefused, RequestLost, AnswerLost, Requests, TypeOK, ScaleTypeOK, CallState
  <2>3. \A d \in Controller : d # c => call'[d] = call[d]
    BY <2>1 DEF CallStep, GetHPA, UpdateHPA, GetScale, UpdateScale,
       RequestRefused, RequestLost, AnswerLost, TypeOK, ScaleTypeOK
  <2>4. \A d \in Controller : CallTypeOK(d)'
    BY <2>1, <2>2, <2>3 DEF processVars, TypeOK, CallTypeOK
  <2> QED  BY <2>1, <2>4 DEF TypeOK, storeVars, cacheVars, processVars
<1>2. ASSUME Return(c)
      PROVE  /\ call'[c].pc = "none"
             /\ \A d \in Controller : d # c => call'[d] = call[d]
  BY <1>2 DEF Return, EndCall, NoCall, TypeOK, ScaleTypeOK
<1>3. CASE AbandonCronHPA(c)
  <2>1. /\ UNCHANGED <<clock, storeVars, cacheVars, todo, applied>>
        /\ work' = [work EXCEPT ![c] = Nil] /\ Return(c)
    BY <1>3 DEF AbandonCronHPA
  <2>2. work' \in [Controller -> Work \cup {Nil}]
    BY <2>1 DEF TypeOK
  <2>3. \A d \in Controller : CallTypeOK(d)'
    BY <1>2, <2>1 DEF TypeOK, CallTypeOK
  <2> QED  BY <2>1, <2>2, <2>3 DEF TypeOK, storeVars, cacheVars
<1>4. CASE RecordScaling(c)
  <2>1. /\ UNCHANGED <<clock, storeVars, up, cache, watch, todo>>
        /\ work' = [work EXCEPT ![c].at = Now(c)] /\ Return(c)
        /\ applied' = applied \cup {<<work[c].obj.name, work[c].obj.uid, work[c].cron.name>>}
    BY <1>4 DEF RecordScaling, CacheAfterRecording
  <2>2. work[c] \in Work
    BY <1>4 DEF RecordScaling, TypeOK, CallTypeOK
  <2>3. Now(c) \in Int
    BY ControllerAssumption DEF Now, TypeOK, ControllerAssumption
  <2>4. [work[c] EXCEPT !.at = Now(c)] \in Work
    BY <2>2, <2>3 DEF Work
  <2>5. work' \in [Controller -> Work \cup {Nil}]
    BY <2>1, <2>4 DEF TypeOK
  <2>6. <<work[c].obj.name, work[c].obj.uid, work[c].cron.name>> \in CronHPA \X Nat \X STRING
    BY <2>2 DEF Work, Object, Cron
  <2>7. /\ work'[c] # Nil /\ work'[c].at # Nil
        /\ \A d \in Controller : d # c => work'[d] = work[d]
    <3>1. work'[c] = [work[c] EXCEPT !.at = Now(c)]
      BY <2>1 DEF TypeOK
    <3>2. work'[c].at = Now(c)
      BY <2>2, <3>1 DEF Work
    <3> QED
      BY <2>1, <2>3, <2>4, <3>1, <3>2, ControllerAssumption, ScaleTargetAssumption
         DEF TypeOK, ControllerAssumption, ScaleTargetAssumption
  <2>8. \A d \in Controller : CallTypeOK(d)'
    BY <1>2, <2>1, <2>7 DEF TypeOK, CallTypeOK
  <2>9. applied' \subseteq CronHPA \X Nat \X STRING
    BY <2>1, <2>6 DEF TypeOK
  <2> QED  BY <2>1, <2>5, <2>8, <2>9 DEF TypeOK, storeVars
<1> QED  BY <1>1, <1>3, <1>4

LEMMA UpdateType ==
  ASSUME TypeOK, ScaleTypeOK', NEW c \in Controller, UpdateCronHPA(c) \/ UpdateFails(c)
  PROVE  TypeOK'
<1>1. work[c] \in Work /\ work[c].at # Nil
  BY DEF UpdateCronHPA, UpdateFails, Recording, TypeOK
<1>2. work' = [work EXCEPT ![c] = Nil] /\ call' = call
  BY DEF UpdateCronHPA, UpdateFails, FaultElsewhere, scaleVars
<1>3. work' \in [Controller -> Work \cup {Nil}]
  BY <1>2 DEF TypeOK
<1>4. \A d \in Controller : CallTypeOK(d)'
  BY <1>1, <1>2 DEF TypeOK, CallTypeOK
<1>5. CASE UpdateCronHPA(c)
  <2> DEFINE o == work[c].obj
             new == [Recorded(o, work[c].cron, work[c].at) EXCEPT !.resourceVersion = rev + 1]
  <2>1. Publish(o.name, new) /\ UNCHANGED <<clock, edits, up, cache, todo, applied>>
    BY <1>5 DEF UpdateCronHPA
  <2>2. o \in Object /\ work[c].cron \in Cron /\ work[c].at \in Int /\ rev + 1 \in Nat
    BY <1>1 DEF Work, TypeOK
  <2>3. new \in Object /\ o.name \in CronHPA
    BY <2>2, RecordedType DEF Object
  <2>4. /\ api' \in [CronHPA -> Object \cup {Nil}] /\ rev' \in Nat
        /\ watch' \in [Controller -> Seq(Event)]
    BY <2>1, <2>3, PublishType
  <2> QED  BY <1>3, <1>4, <2>1, <2>4 DEF TypeOK
<1>6. CASE UpdateFails(c)
  <2>1. UNCHANGED <<clock, storeVars, cacheVars, todo, applied>>
    BY <1>6 DEF UpdateFails
  <2> QED  BY <1>3, <1>4, <2>1 DEF TypeOK, storeVars, cacheVars
<1> QED  BY <1>5, <1>6

LEMMA PassType ==
  ASSUME TypeOK, NEW c \in Controller, List(c) \/ SkipCronHPA(c)
  PROVE  TypeOK'
<1>1. UNCHANGED <<clock, storeVars, cacheVars, work, applied, scaleVars>>
  BY DEF List, Listed, SkipCronHPA
<1>2. todo' \in [Controller -> SUBSET Object]
  <2>1. CASE List(c)
    <3>1. {cache[c][h] : h \in CronHPA} \ {Nil} \subseteq Object
      BY DEF TypeOK
    <3> QED  BY <2>1, <3>1 DEF List, Listed, TypeOK
  <2>2. CASE SkipCronHPA(c)
    BY <2>2 DEF SkipCronHPA, TypeOK
  <2> QED  BY <2>1, <2>2
<1>3. ScaleTypeOK'
  BY <1>1 DEF TypeOK, ScaleTypeOK, scaleVars
<1>4. \A d \in Controller : CallTypeOK(d)'
  BY <1>1 DEF TypeOK, CallTypeOK, scaleVars
<1> QED  BY <1>1, <1>2, <1>3, <1>4 DEF TypeOK, storeVars, cacheVars

LEMMA ListingType ==
  ASSUME TypeOK, NEW events \in [1 .. Cardinality(CronHPA) -> Listing]
  PROVE  events \in Seq(Event) /\ Range(events) \subseteq Listing
<1>1. Cardinality(CronHPA) \in Nat
  BY ControllerAssumption, FS_CardinalityType DEF ControllerAssumption
<1>2. Listing \subseteq Event
  BY DEF Listing, Event, TypeOK
<1> QED  BY <1>1, <1>2 DEF Range

LEMMA InformerType ==
  ASSUME TypeOK, ScaleTypeOK', NEW c \in Controller, Deliver(c) \/ WatchBreaks(c) \/ Crash(c) \/ Restart(c)
  PROVE  TypeOK'
<1>1. CASE Deliver(c)
  <2>1. /\ UNCHANGED <<clock, storeVars, up, processVars, call>>
        /\ cache' = [cache EXCEPT ![c][Head(watch[c]).name] = Head(watch[c]).obj]
        /\ watch' = [watch EXCEPT ![c] = Tail(@)] /\ watch[c] # <<>>
    BY <1>1 DEF Deliver, scaleVars
  <2>2. Head(watch[c]) \in Event /\ Tail(watch[c]) \in Seq(Event)
    BY <2>1 DEF TypeOK
  <2>3. watch' \in [Controller -> Seq(Event)]
    BY <2>1, <2>2 DEF TypeOK
  <2>4. cache' \in [Controller -> [CronHPA -> Object \cup {Nil}]]
    BY <2>1, <2>2 DEF TypeOK, Event
  <2>5. \A d \in Controller : CallTypeOK(d)'
    BY <2>1 DEF TypeOK, CallTypeOK, processVars
  <2> QED  BY <2>1, <2>3, <2>4, <2>5 DEF TypeOK, storeVars, processVars
<1>2. CASE Crash(c)
  <2>1. /\ UNCHANGED <<clock, storeVars, applied>>
        /\ up' \in [Controller -> BOOLEAN]
        /\ cache' \in [Controller -> [CronHPA -> Object \cup {Nil}]]
        /\ watch' \in [Controller -> Seq(Event)]
        /\ todo' \in [Controller -> SUBSET Object]
    BY <1>2 DEF Crash, TypeOK
  <2>2. work' = [work EXCEPT ![c] = Nil] /\ EndCall(c)
    BY <1>2 DEF Crash, CallerDies
  <2>3. /\ call'[c].pc = "none"
        /\ \A d \in Controller : d # c => call'[d] = call[d]
    BY <2>2 DEF EndCall, NoCall, TypeOK, ScaleTypeOK
  <2>4. work' \in [Controller -> Work \cup {Nil}] /\ \A d \in Controller : CallTypeOK(d)'
    BY <2>2, <2>3 DEF TypeOK, CallTypeOK
  <2> QED  BY <2>1, <2>4 DEF TypeOK, storeVars
<1>3. CASE Restart(c)
  <2>1. /\ UNCHANGED <<clock, storeVars, watch, processVars, call>>
        /\ up' \in [Controller -> BOOLEAN]
        /\ cache' \in [Controller -> [CronHPA -> Object \cup {Nil}]]
    BY <1>3 DEF Restart, TypeOK, scaleVars
  <2>2. \A d \in Controller : CallTypeOK(d)'
    BY <2>1 DEF TypeOK, CallTypeOK, processVars
  <2> QED  BY <2>1, <2>2 DEF TypeOK, storeVars, processVars
<1>4. CASE WatchBreaks(c)
  <2>1. PICK events \in [1 .. Cardinality(CronHPA) -> Listing] :
          watch' = [watch EXCEPT ![c] = events]
    BY <1>4 DEF WatchBreaks
  <2>2. UNCHANGED <<clock, storeVars, up, cache, processVars, call>>
    BY <1>4 DEF WatchBreaks, FaultElsewhere
  <2>3. watch' \in [Controller -> Seq(Event)]
    BY <2>1, ListingType DEF TypeOK
  <2>4. \A d \in Controller : CallTypeOK(d)'
    BY <2>2 DEF TypeOK, CallTypeOK, processVars
  <2> QED  BY <2>2, <2>3, <2>4 DEF TypeOK, storeVars, processVars
<1> QED  BY <1>1, <1>2, <1>3, <1>4

LEMMA TypeOKStep == TypeOK /\ [Next]_vars => TypeOK'
<1> SUFFICES ASSUME TypeOK, [Next]_vars PROVE TypeOK'
  OBVIOUS
<1>1. ScaleTypeOK'
  BY StepIsScaleStep, ScaleTypeOKStep DEF TypeOK
<1>2. ASSUME NEW h \in CronHPA, UserCreates(h) \/ UserUpdates(h) \/ UserDeletes(h)
      PROVE  TypeOK'
  BY <1>1, <1>2, UserType
<1>3. ASSUME NEW c \in Controller, ControllerStep(c) PROVE TypeOK'
  BY <1>1, <1>3, PassType, StartType, ScaledType, UpdateType DEF ControllerStep
<1>4. ASSUME NEW c \in Controller, Deliver(c) \/ WatchBreaks(c) \/ Crash(c) \/ Restart(c) PROVE TypeOK'
  BY <1>1, <1>4, InformerType
<1>5. ASSUME NEW t \in Target, Environment(t) PROVE TypeOK'
  <2>1. UNCHANGED <<clock, storeVars, cacheVars, processVars>> /\ ScaleEnvironment(t)
    BY <1>5 DEF Environment
  <2>2. call' = call
    BY <2>1 DEF ScaleEnvironment, Autoscale, ReportStatus, UserScales, UserEditsHPA
  <2>3. \A d \in Controller : CallTypeOK(d)'
    BY <2>1, <2>2 DEF TypeOK, CallTypeOK, processVars
  <2> QED  BY <1>1, <2>1, <2>3 DEF TypeOK, storeVars, cacheVars, processVars
<1>6. CASE Tick \/ UNCHANGED vars
  <2>1. /\ UNCHANGED <<storeVars, cacheVars, processVars, scaleVars>>
        /\ clock' = clock \/ clock' = clock + 1
    BY <1>6 DEF Tick, vars
  <2>2. clock' \in Nat
    BY <2>1 DEF TypeOK
  <2>3. \A d \in Controller : CallTypeOK(d)'
    BY <2>1 DEF TypeOK, CallTypeOK, processVars, scaleVars
  <2> QED  BY <1>1, <2>1, <2>2, <2>3 DEF TypeOK, storeVars, cacheVars, processVars
<1> QED  BY <1>2, <1>3, <1>4, <1>5, <1>6 DEF Next

(***************************************************************************)
(* The state keeps its type: in particular a process is in a call of       *)
(* updateScaleTargetRef exactly while the object it works on is not yet    *)
(* scaled.                                                                 *)
(***************************************************************************)
THEOREM TypeCorrect == Spec => []TypeOK
BY InitTypeOK, TypeOKStep, PTL DEF Spec

(***************************************************************************)
(* The controller uses updateScaleTargetRef only as ScaleTarget describes  *)
(* it, so all that is proved of ScaleSpec holds of the controller.         *)
(***************************************************************************)
THEOREM ImplementsScaleTarget == Spec => ScaleSpec
<1>1. Init => ScaleInit
  BY DEF Init
<1> QED  BY <1>1, StepIsScaleStep, TypeCorrect, PTL DEF Spec, ScaleSpec

-----------------------------------------------------------------------------
(***************************************************************************)
(* Copies.  A version number is given out once, so a copy that carries the *)
(* version of the stored object can only be that object.                   *)
(***************************************************************************)
NamesMatch == \A h \in CronHPA : api[h] # Nil => api[h].name = h

VersionsKnown ==
  /\ \A h \in CronHPA : api[h] # Nil => api[h].resourceVersion <= rev
  /\ \A c \in Controller : \A o \in Copies(c) \ {Nil} : o.resourceVersion <= rev

CopiesInv == NamesMatch /\ VersionsKnown /\ SnapshotFaithful

(* The store is as it was, or one object has a version nobody has seen.    *)
StoreStep ==
  \/ api' = api /\ rev' = rev
  \/ \E h \in CronHPA, o \in Object \cup {Nil} :
       /\ Publish(h, o)
       /\ o # Nil => o.name = h /\ o.resourceVersion = rev + 1

(* A process gets copies only from itself and from the store. *)
CopyStep ==
  \A c \in Controller : \A o \in Copies(c)' \ {Nil} :
    o \in Copies(c) \/ \E h \in CronHPA : o = api'[h]

LEMMA CopiesType ==
  ASSUME TypeOK, NEW c \in Controller
  PROVE  Copies(c) \subseteq Object \cup {Nil}
<1>1. \A event \in Range(watch[c]) : event.obj \in Object \cup {Nil}
  <2>1. Range(watch[c]) \subseteq Event
    BY DEF TypeOK, Range
  <2> QED  BY <2>1 DEF Event
<1>2. work[c] # Nil => work[c].obj \in Object
  BY DEF TypeOK, Work
<1> QED  BY <1>1, <1>2 DEF TypeOK, Copies

LEMMA CopiesStep ==
  ASSUME TypeOK, TypeOK', CopiesInv, StoreStep, CopyStep
  PROVE  CopiesInv'
<1> USE DEF CopiesInv
<1>1. NamesMatch'
  BY DEF NamesMatch, StoreStep, Publish, TypeOK
<1>2. /\ rev \in Nat /\ rev' >= rev
      /\ \A h \in CronHPA : api'[h] # Nil => api'[h].resourceVersion <= rev'
  <2>1. CASE api' = api /\ rev' = rev
    BY <2>1 DEF VersionsKnown, TypeOK
  <2>2. CASE ~(api' = api /\ rev' = rev)
    <3>1. PICK h \in CronHPA, o \in Object \cup {Nil} :
            /\ Publish(h, o)
            /\ o # Nil => o.name = h /\ o.resourceVersion = rev + 1
      BY <2>2 DEF StoreStep
    <3>2. rev' = rev + 1 /\ rev \in Nat
      BY <3>1 DEF Publish, TypeOK
    <3>3. ASSUME NEW g \in CronHPA, api'[g] # Nil
          PROVE  api'[g].resourceVersion <= rev'
      <4>1. CASE g = h
        BY <3>1, <3>2, <3>3, <4>1 DEF Publish, TypeOK
      <4>2. CASE g # h
        <5>1. api'[g] = api[g]
          BY <3>1, <4>2 DEF Publish, TypeOK
        <5>2. api[g].resourceVersion \in Nat /\ api[g].resourceVersion <= rev
          BY <3>3, <5>1 DEF VersionsKnown, TypeOK, Object
        <5> QED  BY <3>2, <5>1, <5>2
      <4> QED  BY <4>1, <4>2
    <3> QED  BY <3>2, <3>3
  <2> QED  BY <2>1, <2>2
<1>3. ASSUME NEW c \in Controller, NEW o \in Copies(c)' \ {Nil}
      PROVE  /\ o.resourceVersion <= rev'
             /\ NoConflict(o)' => o = api'[o.name]
  <2>1. CASE \E h \in CronHPA : o = api'[h]
    BY <1>1, <1>2, <2>1 DEF NamesMatch
  <2>2. CASE o \in Copies(c)
    <3>1. o \in Object /\ o.resourceVersion \in Nat /\ o.resourceVersion <= rev
      BY <2>2, CopiesType DEF VersionsKnown, Object
    <3>2. NoConflict(o)' => o = api'[o.name]
      <4>1. CASE api' = api
        BY <2>2, <4>1 DEF SnapshotFaithful, NoConflict
      <4>2. CASE api' # api
        <5>1. PICK h \in CronHPA, new \in Object \cup {Nil} :
                /\ Publish(h, new)
                /\ new # Nil => new.name = h /\ new.resourceVersion = rev + 1
          BY <4>2 DEF StoreStep
        <5>2. CASE o.name = h
          <6>1. api'[h] = new
            BY <5>1 DEF Publish, TypeOK
          <6>2. NoConflict(o)' => new # Nil /\ new.resourceVersion = o.resourceVersion
            BY <5>2, <6>1 DEF NoConflict
          <6>3. new # Nil => new.resourceVersion = rev + 1
            BY <5>1
          <6>4. ~NoConflict(o)'
            <7> SUFFICES ASSUME NoConflict(o)' PROVE FALSE
              OBVIOUS
            <7>1. rev + 1 <= rev
              BY <3>1, <6>2, <6>3
            <7> QED  BY <1>2, <7>1
          <6> QED  BY <6>4
        <5>3. CASE o.name # h
          <6>1. api'[o.name] = api[o.name]
            BY <3>1, <5>1, <5>3 DEF Publish, TypeOK, Object
          <6> QED  BY <2>2, <6>1 DEF SnapshotFaithful, NoConflict
        <5> QED  BY <5>2, <5>3
      <4> QED  BY <4>1, <4>2
    <3>3. o.resourceVersion <= rev'
      <4>1. rev \in Int /\ rev' \in Int
        BY DEF TypeOK
      <4> QED  BY <1>2, <3>1, <4>1
    <3> QED  BY <3>2, <3>3
  <2> QED  BY <1>3, <2>1, <2>2 DEF CopyStep
<1>4. VersionsKnown'
  BY <1>2, <1>3 DEF VersionsKnown
<1>5. SnapshotFaithful'
  BY <1>3 DEF SnapshotFaithful
<1> QED  BY <1>1, <1>4, <1>5

LEMMA PublishCopies ==
  ASSUME TypeOK, NEW h \in CronHPA, NEW o \in Object \cup {Nil}, Publish(h, o),
         cache' = cache, todo' = todo,
         \A c \in Controller : work'[c] = Nil \/ work'[c] = work[c]
  PROVE  CopyStep
<1>1. api'[h] = o
  BY DEF Publish, TypeOK
<1>2. ASSUME NEW c \in Controller
      PROVE  \A event \in Range(watch'[c]) : event \in Range(watch[c]) \/ event.obj = o
  <2>1. watch'[c] = IF up[c] THEN Append(watch[c], [name |-> h, obj |-> o]) ELSE watch[c]
    BY DEF Publish
  <2>2. [name |-> h, obj |-> o] \in Event /\ watch[c] \in Seq(Event)
    BY DEF Event, TypeOK
  <2>3. Range(Append(watch[c], [name |-> h, obj |-> o]))
          = Range(watch[c]) \cup {[name |-> h, obj |-> o]}
    BY <2>2, RangeAppend
  <2> QED  BY <2>1, <2>3
<1> QED  BY <1>1, <1>2 DEF CopyStep, Copies

(* The steps that change neither the store nor the cache of a process. *)
LEMMA SameCopies ==
  ASSUME cache' = cache, watch' = watch,
         \A c \in Controller : todo'[c] \subseteq todo[c] \cup {cache[c][h] : h \in CronHPA},
         \A c \in Controller : work'[c] = Nil \/ (work[c] # Nil /\ work'[c].obj = work[c].obj)
                                \/ work'[c].obj \in todo[c]
  PROVE  CopyStep
BY DEF CopyStep, Copies

LEMMA UserCopies ==
  ASSUME TypeOK, NamesMatch, NEW h \in CronHPA,
         UserCreates(h) \/ UserUpdates(h) \/ UserDeletes(h)
  PROVE  StoreStep /\ CopyStep
<1>1. PICK o \in Object \cup {Nil} :
        Edit(h, o) /\ (o # Nil => o.name = h /\ o.resourceVersion = rev + 1)
  <2>1. CASE UserCreates(h)
    <3>1. PICK s \in Specs : Edit(h, NewObject(h, rev + 1, s, clock))
      BY <2>1 DEF UserCreates
    <3>2. rev + 1 \in Nat /\ clock \in Int
      BY DEF TypeOK
    <3>3. NewObject(h, rev + 1, s, clock) \in Object
      BY <3>2, NewObjectType
    <3> QED  BY <3>1, <3>3 DEF NewObject
  <2>2. CASE UserUpdates(h)
    <3>1. PICK s \in Specs : Edit(h, [api[h] EXCEPT !.spec = s, !.resourceVersion = rev + 1])
      BY <2>2 DEF UserUpdates
    <3>2. s \in CronHPASpec
      BY ControllerAssumption DEF ControllerAssumption
    <3>3. api[h] # Nil
      BY <2>2 DEF UserUpdates
    <3>4. api[h] \in Object /\ api[h].name = h /\ rev + 1 \in Nat
      BY <3>3 DEF TypeOK, NamesMatch
    <3>5. [api[h] EXCEPT !.spec = s, !.resourceVersion = rev + 1] \in Object
      BY <3>2, <3>4 DEF Object
    <3>6. /\ [api[h] EXCEPT !.spec = s, !.resourceVersion = rev + 1].name = h
          /\ [api[h] EXCEPT !.spec = s, !.resourceVersion = rev + 1].resourceVersion = rev + 1
      BY <3>4 DEF Object
    <3> QED  BY <3>1, <3>5, <3>6
  <2>3. CASE UserDeletes(h)
    BY <2>3 DEF UserDeletes
  <2> QED  BY <2>1, <2>2, <2>3
<1>2. Publish(h, o) /\ UNCHANGED <<cache, todo, work>>
  BY <1>1 DEF Edit, processVars
<1> QED  BY <1>1, <1>2, PublishCopies DEF StoreStep

LEMMA UpdateCopies ==
  ASSUME TypeOK, NEW c \in Controller, UpdateCronHPA(c)
  PROVE  StoreStep /\ CopyStep
<1> DEFINE o   == work[c].obj
           new == [Recorded(o, work[c].cron, work[c].at) EXCEPT !.resourceVersion = rev + 1]
<1>1. work[c] \in Work /\ work[c].at # Nil
  BY DEF UpdateCronHPA, Recording, TypeOK
<1>2. Publish(o.name, new) /\ cache' = cache /\ todo' = todo /\ work' = [work EXCEPT ![c] = Nil]
  BY DEF UpdateCronHPA
<1>3. o \in Object /\ work[c].cron \in Cron /\ work[c].at \in Int /\ rev + 1 \in Nat
  BY <1>1 DEF Work, TypeOK
<1>4. new \in Object /\ o.name \in CronHPA
  BY <1>3, RecordedType DEF Object
<1>5. new.name = o.name /\ new.resourceVersion = rev + 1
  BY <1>3 DEF Recorded, Object
<1>6. StoreStep
  BY <1>2, <1>4, <1>5 DEF StoreStep
<1>7. \A d \in Controller : work'[d] = Nil \/ work'[d] = work[d]
  BY <1>2 DEF TypeOK
<1>8. CopyStep
  BY <1>2, <1>4, <1>7, PublishCopies
<1> QED  BY <1>6, <1>8

LEMMA InformerCopies ==
  ASSUME TypeOK, NEW c \in Controller, Deliver(c) \/ WatchBreaks(c) \/ Crash(c) \/ Restart(c)
  PROVE  StoreStep /\ CopyStep
<1>1. UNCHANGED storeVars
  BY DEF Deliver, WatchBreaks, Crash, Restart
<1>2. StoreStep
  BY <1>1 DEF StoreStep, storeVars
<1>3. CASE Deliver(c)
  <2>1. /\ cache' = [cache EXCEPT ![c][Head(watch[c]).name] = Head(watch[c]).obj]
        /\ watch' = [watch EXCEPT ![c] = Tail(@)] /\ watch[c] # <<>>
        /\ todo' = todo /\ work' = work
    BY <1>3 DEF Deliver, processVars
  <2>2. /\ Range(Tail(watch[c])) \subseteq Range(watch[c])
        /\ Head(watch[c]) \in Range(watch[c])
    BY <2>1, RangeTail DEF TypeOK
  <2>3. \A d \in Controller : Range(watch'[d]) \subseteq Range(watch[d])
    BY <2>1, <2>2 DEF TypeOK
  <2>4. \A d \in Controller, h \in CronHPA :
          \/ cache'[d][h] = cache[d][h]
          \/ \E event \in Range(watch[d]) : cache'[d][h] = event.obj
    BY <2>1, <2>2 DEF TypeOK
  <2>5. \A d \in Controller : Copies(d)' = {cache'[d][h] : h \in CronHPA}
          \cup {event.obj : event \in Range(watch'[d])}
          \cup todo[d] \cup (IF work[d] = Nil THEN {} ELSE {work[d].obj})
    BY <2>1 DEF Copies
  <2>6. \A d \in Controller : Copies(d)' \subseteq Copies(d)
    BY <2>3, <2>4, <2>5 DEF Copies
  <2> QED  BY <1>2, <2>6 DEF CopyStep
<1>4. CASE Crash(c)
  <2>1. /\ cache' = [cache EXCEPT ![c] = [h \in CronHPA |-> Nil]]
        /\ watch' = [watch EXCEPT ![c] = <<>>]
        /\ todo' = [todo EXCEPT ![c] = {}]
        /\ work' = [work EXCEPT ![c] = Nil]
    BY <1>4 DEF Crash
  <2>2. Copies(c)' \subseteq {Nil}
    BY <2>1, RangeEmpty DEF TypeOK, Copies
  <2>3. \A d \in Controller : d # c => Copies(d)' = Copies(d)
    BY <2>1 DEF TypeOK, Copies
  <2>4. CopyStep
    BY <2>2, <2>3 DEF CopyStep
  <2> QED  BY <1>2, <2>4
<1>5. CASE Restart(c)
  <2>1. /\ cache' = [cache EXCEPT ![c] = api] /\ api' = api
        /\ watch' = watch /\ todo' = todo /\ work' = work
    BY <1>5 DEF Restart, processVars, storeVars
  <2>2. \A d \in Controller, h \in CronHPA :
          cache'[d][h] = cache[d][h] \/ cache'[d][h] = api'[h]
    BY <2>1 DEF TypeOK
  <2>3. CopyStep
    BY <2>1, <2>2 DEF CopyStep, Copies
  <2> QED  BY <1>2, <2>3
<1>6. CASE WatchBreaks(c)
  <2>1. PICK events \in [1 .. Cardinality(CronHPA) -> Listing] :
          watch' = [watch EXCEPT ![c] = events]
    BY <1>6 DEF WatchBreaks
  <2>2. UNCHANGED <<api, cache, todo, work>>
    BY <1>6 DEF WatchBreaks, storeVars, processVars
  <2>3. \A d \in Controller : d # c => Copies(d)' = Copies(d)
    BY <2>1, <2>2 DEF TypeOK, Copies
  <2>4. \A event \in Range(watch'[c]) : \E h \in CronHPA : event.obj = api'[h]
    <3>1. watch'[c] = events
      BY <2>1 DEF TypeOK
    <3>2. Range(watch'[c]) \subseteq Listing
      BY <3>1, ListingType
    <3> QED  BY <2>2, <3>2 DEF Listing
  <2>5. \A o \in Copies(c)' : o \in Copies(c) \/ \E h \in CronHPA : o = api'[h]
    <3>1. Copies(c)' = {cache[c][h] : h \in CronHPA}
            \cup {event.obj : event \in Range(watch'[c])}
            \cup todo[c] \cup (IF work[c] = Nil THEN {} ELSE {work[c].obj})
      BY <2>2 DEF Copies
    <3> QED  BY <3>1, <2>4 DEF Copies
  <2> QED  BY <1>2, <2>3, <2>5 DEF CopyStep
<1> QED  BY <1>3, <1>4, <1>5, <1>6

LEMMA PassCopies ==
  ASSUME TypeOK, NEW c \in Controller,
         \/ List(c) \/ SkipCronHPA(c) \/ StartCronHPA(c) \/ ScaleStep(c)
         \/ AbandonCronHPA(c) \/ RecordScaling(c) \/ UpdateFails(c)
  PROVE  StoreStep /\ CopyStep
<1>1. UNCHANGED storeVars /\ cache' = cache /\ watch' = watch
  BY DEF List, Listed, SkipCronHPA, StartCronHPA, ScaleStep, AbandonCronHPA, RecordScaling,
         CacheAfterRecording, UpdateFails, cacheVars
<1>2. \A d \in Controller : todo'[d] \subseteq todo[d] \cup {cache[d][h] : h \in CronHPA}
  <2>1. CASE List(c)
    BY <2>1 DEF List, Listed, TypeOK
  <2>2. CASE SkipCronHPA(c) \/ StartCronHPA(c)
    <3>1. PICK o \in todo[c] : todo' = [todo EXCEPT ![c] = @ \ {o}]
      BY <2>2 DEF SkipCronHPA, StartCronHPA
    <3> QED  BY <3>1 DEF TypeOK
  <2>3. CASE ScaleStep(c) \/ AbandonCronHPA(c) \/ RecordScaling(c) \/ UpdateFails(c)
    BY <2>3 DEF ScaleStep, AbandonCronHPA, RecordScaling, UpdateFails, processVars
  <2> QED  BY <2>1, <2>2, <2>3
<1>3. \A d \in Controller : \/ work'[d] = Nil
                            \/ work[d] # Nil /\ work'[d].obj = work[d].obj
                            \/ work'[d].obj \in todo[d]
  <2>1. CASE List(c) \/ SkipCronHPA(c) \/ ScaleStep(c)
    BY <2>1 DEF List, Listed, SkipCronHPA, ScaleStep, processVars
  <2>2. CASE AbandonCronHPA(c) \/ UpdateFails(c)
    BY <2>2 DEF AbandonCronHPA, UpdateFails, TypeOK
  <2>3. CASE RecordScaling(c)
    <3>1. work[c] \in Work
      BY <2>3 DEF RecordScaling, TypeOK, CallTypeOK
    <3>2. work' = [work EXCEPT ![c].at = Now(c)] /\ work[c] # Nil
      BY <2>3, <3>1, ControllerAssumption DEF RecordScaling, ControllerAssumption
    <3>3. work'[c].obj = work[c].obj
      BY <3>1, <3>2 DEF TypeOK, Work
    <3> QED  BY <3>2, <3>3 DEF TypeOK
  <2>4. CASE StartCronHPA(c)
    <3>1. PICK o \in todo[c] : \E cron \in Winners(Batch(o, Now(c))) :
            work' = [work EXCEPT ![c] =
                       [obj |-> o, cron |-> cron, now |-> Now(c), at |-> Nil]]
      BY <2>4 DEF StartCronHPA
    <3> QED  BY <3>1 DEF TypeOK
  <2> QED  BY <2>1, <2>2, <2>3, <2>4
<1>4. CopyStep
  BY <1>1, <1>2, <1>3, SameCopies
<1> QED  BY <1>1, <1>4 DEF StoreStep, storeVars

LEMMA StoreAndCopyStep ==
  ASSUME TypeOK, CopiesInv, [Next]_vars
  PROVE  StoreStep /\ CopyStep
<1>1. ASSUME NEW h \in CronHPA, UserCreates(h) \/ UserUpdates(h) \/ UserDeletes(h)
      PROVE  StoreStep /\ CopyStep
  BY <1>1, UserCopies DEF CopiesInv
<1>2. ASSUME NEW c \in Controller, ControllerStep(c)
      PROVE  StoreStep /\ CopyStep
  BY <1>2, UpdateCopies, PassCopies DEF ControllerStep
<1>3. ASSUME NEW c \in Controller, Deliver(c) \/ WatchBreaks(c) \/ Crash(c) \/ Restart(c)
      PROVE  StoreStep /\ CopyStep
  BY <1>3, InformerCopies
<1>4. ASSUME UNCHANGED <<storeVars, cacheVars, processVars>>
      PROVE  StoreStep /\ CopyStep
  BY <1>4 DEF StoreStep, CopyStep, Copies, storeVars, cacheVars, processVars
<1>5. CASE Tick \/ UNCHANGED vars
  BY <1>4, <1>5 DEF Tick, vars
<1>6. ASSUME NEW t \in Target, Environment(t)
      PROVE  StoreStep /\ CopyStep
  BY <1>4, <1>6 DEF Environment
<1> QED  BY <1>1, <1>2, <1>3, <1>5, <1>6 DEF Next

LEMMA InitCopies == Init => CopiesInv
<1> SUFFICES ASSUME Init PROVE CopiesInv
  OBVIOUS
<1>1. NamesMatch
  BY DEF Init, NamesMatch
<1>2. \A c \in Controller : \A o \in Copies(c) \ {Nil} : \E h \in CronHPA : o = api[h]
  BY RangeEmpty DEF Init, Copies
<1>3. \A h \in CronHPA : api[h] # Nil => api[h].resourceVersion <= rev
  BY DEF Init, NewObject
<1>4. VersionsKnown
  BY <1>2, <1>3 DEF VersionsKnown
<1>5. SnapshotFaithful
  BY <1>1, <1>2 DEF NamesMatch, SnapshotFaithful
<1> QED  BY <1>1, <1>4, <1>5 DEF CopiesInv

(* No copy is newer than the store, and every copy of the stored version *)
(* is the stored object.                                                 *)
THEOREM CopiesAreKnown == Spec => []CopiesInv
<1>1. TypeOK /\ TypeOK' /\ CopiesInv /\ [Next]_vars => CopiesInv'
  BY StoreAndCopyStep, CopiesStep
<1> QED  BY <1>1, InitCopies, TypeCorrect, PTL DEF Spec

(***************************************************************************)
(* A copy that carries the stored version is the stored object, however    *)
(* old the cache, the snapshot of a pass or the object in hand may be.     *)
(***************************************************************************)
THEOREM SnapshotsAreFaithful == Spec => []SnapshotFaithful
<1>1. CopiesInv => SnapshotFaithful
  BY DEF CopiesInv
<1> QED  BY <1>1, CopiesAreKnown, PTL

-----------------------------------------------------------------------------
(***************************************************************************)
(* Conditions.  What a process is about to record was applied.             *)
(***************************************************************************)
RecordingIsApplied ==
  \A c \in Controller : Recording(c) =>
    <<work[c].obj.name, work[c].obj.uid, work[c].cron.name>> \in applied

AppliedInv == RecordingIsApplied /\ RecordedMeansApplied

(* Storing an object all of whose conditions are accounted for. *)
LEMMA PublishApplied ==
  ASSUME TypeOK, RecordedMeansApplied, NEW h \in CronHPA, NEW o \in Object \cup {Nil},
         Publish(h, o), applied' = applied,
         o # Nil => \A name \in o.conditions : <<h, o.uid, name>> \in applied
  PROVE  RecordedMeansApplied'
<1>1. /\ api'[h] = o
      /\ \A g \in CronHPA : g # h => api'[g] = api[g]
  BY DEF Publish, TypeOK
<1> QED  BY <1>1 DEF RecordedMeansApplied

LEMMA UserApplied ==
  ASSUME TypeOK, AppliedInv, NEW h \in CronHPA,
         UserCreates(h) \/ UserUpdates(h) \/ UserDeletes(h)
  PROVE  AppliedInv'
<1>1. UNCHANGED <<work, applied>>
  BY DEF UserCreates, UserUpdates, UserDeletes, Edit, processVars
<1>2. PICK o \in Object \cup {Nil} :
        /\ Publish(h, o)
        /\ \/ o = Nil \/ o.conditions = {}
           \/ api[h] # Nil /\ o.uid = api[h].uid /\ o.conditions = api[h].conditions
  <2>1. CASE UserCreates(h)
    <3>1. PICK s \in Specs : Edit(h, NewObject(h, rev + 1, s, clock))
      BY <2>1 DEF UserCreates
    <3>2. rev + 1 \in Nat /\ clock \in Int
      BY DEF TypeOK
    <3>3. NewObject(h, rev + 1, s, clock) \in Object
      BY <3>2, NewObjectType
    <3> QED  BY <3>1, <3>3 DEF NewObject, Edit
  <2>2. CASE UserUpdates(h)
    <3>1. PICK s \in Specs : Edit(h, [api[h] EXCEPT !.spec = s, !.resourceVersion = rev + 1])
      BY <2>2 DEF UserUpdates
    <3>2. s \in CronHPASpec /\ rev + 1 \in Nat
      BY ControllerAssumption DEF ControllerAssumption, TypeOK
    <3>3. api[h] \in Object /\ api[h] # Nil
      BY <2>2 DEF UserUpdates, TypeOK
    <3> DEFINE o == [api[h] EXCEPT !.spec = s, !.resourceVersion = rev + 1]
    <3>4. o \in Object /\ o.uid = api[h].uid /\ o.conditions = api[h].conditions
      BY <3>2, <3>3 DEF Object
    <3>5. Publish(h, o)
      BY <3>1 DEF Edit
    <3> HIDE DEF o
    <3> QED  BY <3>3, <3>4, <3>5
  <2>3. CASE UserDeletes(h)
    BY <2>3 DEF UserDeletes, Edit
  <2> QED  BY <2>1, <2>2, <2>3
<1>3. o # Nil => \A name \in o.conditions : <<h, o.uid, name>> \in applied
  BY <1>2 DEF AppliedInv, RecordedMeansApplied
<1>4. RecordedMeansApplied'
  BY <1>1, <1>2, <1>3, PublishApplied DEF AppliedInv
<1> QED  BY <1>1, <1>4 DEF AppliedInv, RecordingIsApplied, Recording

LEMMA RecordApplied ==
  ASSUME TypeOK, AppliedInv, NEW c \in Controller, RecordScaling(c)
  PROVE  AppliedInv'
<1>1. /\ api' = api /\ work' = [work EXCEPT ![c].at = Now(c)]
      /\ applied' = applied \cup {<<work[c].obj.name, work[c].obj.uid, work[c].cron.name>>}
  BY DEF RecordScaling, storeVars
<1>2. work[c] \in Work
  BY DEF RecordScaling, TypeOK, CallTypeOK
<1>3. work'[c].obj = work[c].obj /\ work'[c].cron = work[c].cron
  BY <1>1, <1>2 DEF TypeOK, Work
<1>4. \A d \in Controller : d # c => work'[d] = work[d]
  BY <1>1 DEF TypeOK
<1>5. RecordingIsApplied'
  BY <1>1, <1>3, <1>4 DEF AppliedInv, RecordingIsApplied, Recording
<1>6. RecordedMeansApplied'
  BY <1>1 DEF AppliedInv, RecordedMeansApplied
<1> QED  BY <1>5, <1>6 DEF AppliedInv

LEMMA UpdateApplied ==
  ASSUME TypeOK, CopiesInv, AppliedInv, NEW c \in Controller, UpdateCronHPA(c)
  PROVE  AppliedInv'
<1> DEFINE o   == work[c].obj
           new == [Recorded(o, work[c].cron, work[c].at) EXCEPT !.resourceVersion = rev + 1]
<1>1. work[c] \in Work /\ work[c].at # Nil
  BY DEF UpdateCronHPA, Recording, TypeOK
<1>2. o \in Object /\ work[c].cron \in Cron /\ work[c].at \in Int /\ rev + 1 \in Nat
  BY <1>1 DEF Work, TypeOK
<1>3. /\ Publish(o.name, new) /\ work' = [work EXCEPT ![c] = Nil] /\ applied' = applied
      /\ NoConflict(o) /\ Recording(c)
  BY DEF UpdateCronHPA
<1>4. new \in Object /\ o.name \in CronHPA
  BY <1>2, RecordedType DEF Object
<1>5. new.uid = o.uid /\ new.conditions = o.conditions \cup {work[c].cron.name}
  BY <1>2 DEF Recorded, Object, Cron
<1>6. o = api[o.name] /\ api[o.name] # Nil
  <2>1. o \in Copies(c) \ {Nil}
    BY <1>1, <1>2, ControllerAssumption DEF Copies, ControllerAssumption
  <2> QED  BY <1>3, <2>1 DEF CopiesInv, SnapshotFaithful, NoConflict
<1>7. \A name \in new.conditions : <<o.name, new.uid, name>> \in applied
  <2>1. \A name \in o.conditions : <<o.name, o.uid, name>> \in applied
    BY <1>4, <1>6 DEF AppliedInv, RecordedMeansApplied
  <2>2. <<o.name, o.uid, work[c].cron.name>> \in applied
    BY <1>3 DEF AppliedInv, RecordingIsApplied
  <2> QED  BY <1>5, <2>1, <2>2
<1>8. RecordedMeansApplied'
  <2> HIDE DEF o, new
  <2> QED  BY <1>3, <1>4, <1>7, PublishApplied DEF AppliedInv
<1>9. RecordingIsApplied'
  BY <1>3 DEF AppliedInv, RecordingIsApplied, Recording, TypeOK
<1> QED  BY <1>8, <1>9 DEF AppliedInv

(* The other steps store nothing and bring no process to Recording. *)
LEMMA OtherApplied ==
  ASSUME AppliedInv, UNCHANGED <<storeVars, applied>>,
         \A c \in Controller : \/ work'[c] = Nil \/ work'[c] = work[c]
                               \/ work'[c].at = Nil
  PROVE  AppliedInv'
BY DEF AppliedInv, RecordingIsApplied, RecordedMeansApplied, Recording, storeVars

LEMMA AppliedStep == TypeOK /\ CopiesInv /\ AppliedInv /\ [Next]_vars => AppliedInv'
<1> SUFFICES ASSUME TypeOK, CopiesInv, AppliedInv, [Next]_vars PROVE AppliedInv'
  OBVIOUS
<1>1. ASSUME NEW h \in CronHPA, UserCreates(h) \/ UserUpdates(h) \/ UserDeletes(h)
      PROVE  AppliedInv'
  BY <1>1, UserApplied
<1>2. ASSUME UNCHANGED <<storeVars, processVars>>
      PROVE  AppliedInv'
  BY <1>2, OtherApplied DEF processVars
<1>3. ASSUME NEW c \in Controller, ControllerStep(c)
      PROVE  AppliedInv'
  <2>1. CASE List(c) \/ SkipCronHPA(c) \/ ScaleStep(c)
    BY <2>1, OtherApplied DEF List, Listed, SkipCronHPA, ScaleStep, processVars
  <2>2. CASE StartCronHPA(c)
    <3>1. PICK o \in todo[c] : \E cron \in Winners(Batch(o, Now(c))) :
            work' = [work EXCEPT ![c] =
                       [obj |-> o, cron |-> cron, now |-> Now(c), at |-> Nil]]
      BY <2>2 DEF StartCronHPA
    <3>2. \A d \in Controller : work'[d] = work[d] \/ work'[d].at = Nil
      BY <3>1 DEF TypeOK
    <3> QED  BY <2>2, <3>2, OtherApplied DEF StartCronHPA
  <2>3. CASE AbandonCronHPA(c) \/ UpdateFails(c)
    <3>1. \A d \in Controller : work'[d] = Nil \/ work'[d] = work[d]
      BY <2>3 DEF AbandonCronHPA, UpdateFails, TypeOK
    <3> QED  BY <2>3, <3>1, OtherApplied DEF AbandonCronHPA, UpdateFails
  <2> QED  BY <1>3, <2>1, <2>2, <2>3, RecordApplied, UpdateApplied DEF ControllerStep
<1>4. ASSUME NEW c \in Controller, Deliver(c) \/ WatchBreaks(c) \/ Crash(c) \/ Restart(c)
      PROVE  AppliedInv'
  <2>1. \A d \in Controller : work'[d] = Nil \/ work'[d] = work[d]
    BY <1>4 DEF Deliver, WatchBreaks, Crash, Restart, processVars, TypeOK
  <2> QED  BY <1>4, <2>1, OtherApplied DEF Deliver, WatchBreaks, Crash, Restart, processVars
<1>5. CASE Tick \/ UNCHANGED vars
  BY <1>2, <1>5 DEF Tick, vars
<1>6. ASSUME NEW t \in Target, Environment(t)
      PROVE  AppliedInv'
  BY <1>2, <1>6 DEF Environment
<1> QED  BY <1>1, <1>3, <1>4, <1>5, <1>6 DEF Next

(***************************************************************************)
(* A cron is marked as run only when a scaling for it, made on behalf of   *)
(* this very object, was answered without an error.                        *)
(***************************************************************************)
THEOREM RecordedAreApplied == Spec => []RecordedMeansApplied
<1>1. Init => AppliedInv
  BY DEF Init, NewObject, AppliedInv, RecordingIsApplied, RecordedMeansApplied, Recording
<1>2. AppliedInv => RecordedMeansApplied
  BY DEF AppliedInv
<1> QED  BY <1>1, <1>2, AppliedStep, CopiesAreKnown, TypeCorrect, PTL DEF Spec
=============================================================================
