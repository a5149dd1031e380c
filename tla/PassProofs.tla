------------------------------ MODULE PassProofs ------------------------------
(***************************************************************************)
(* What a process knows and what it does with it: the informer's cache is  *)
(* only late and never goes back, a pass comes to its end, and a success   *)
(* that is recorded was had for the object and the cron it is recorded of. *)
(***************************************************************************)
EXTENDS CronHPAControllerProofs

-----------------------------------------------------------------------------
(***************************************************************************)
(* The informer.  For one process and one name: s is what is on its way,   *)
(* cached what the cache has, stored what the store has.                   *)
(***************************************************************************)
LastWord(s, h, cached, stored) ==
  /\ (\A i \in DOMAIN s : s[i].name # h) => cached = stored
  /\ \A i \in DOMAIN s :
       s[i].name = h /\ (\A j \in DOMAIN s : s[j].name = h => j <= i)
         => s[i].obj = stored

NotAfter(x, y) == x # Nil /\ y # Nil => x.resourceVersion <= y.resourceVersion

Ascends(s, h, cached, stored) ==
  /\ NotAfter(cached, stored)
  /\ \A i \in DOMAIN s : s[i].name = h =>
       /\ NotAfter(cached, s[i].obj)
       /\ NotAfter(s[i].obj, stored)
       /\ \A j \in DOMAIN s : i < j /\ s[j].name = h => NotAfter(s[i].obj, s[j].obj)

(* A process that is down knows nothing and is told nothing. *)
DownKnowsNothing ==
  \A c \in Controller : ~up[c] => watch[c] = <<>> /\ \A h \in CronHPA : cache[c][h] = Nil

InformerInv ==
  /\ DownKnowsNothing
  /\ \A c \in Controller, h \in CronHPA :
       /\ up[c] => LastWord(watch[c], h, cache[c][h], api[h])
       /\ Ascends(watch[c], h, cache[c][h], api[h])

LEMMA OnlyLateIsLastWord ==
  TypeOK => (OnlyLate <=> \A c \in Controller, h \in CronHPA :
                            up[c] => LastWord(watch[c], h, cache[c][h], api[h]))
BY DEF OnlyLate, LastWord, About

(* An event is added at the end, taken from the front, or a listing takes  *)
(* the place of all.                                                       *)
LEMMA AppendWord ==
  ASSUME NEW s \in Seq(Event), NEW e \in Event, NEW h, NEW cached, NEW stored,
         e.name # h => LastWord(s, h, cached, stored),
         e.name = h => e.obj = stored
  PROVE  LastWord(Append(s, e), h, cached, stored)
<1> DEFINE t == Append(s, e)
<1>1. /\ DOMAIN s = 1 .. Len(s) /\ Len(s) \in Nat /\ DOMAIN t = 1 .. Len(s) + 1
      /\ \A i \in DOMAIN s : t[i] = s[i]
      /\ t[Len(s) + 1] = e
  OBVIOUS
<1> HIDE DEF t
<1>2. CASE e.name = h
  BY <1>1, <1>2 DEF LastWord
<1>3. CASE e.name # h
  BY <1>1, <1>3 DEF LastWord
<1> QED  BY <1>2, <1>3 DEF t

LEMMA AppendAscends ==
  ASSUME NEW s \in Seq(Event), NEW e \in Event, NEW h, NEW cached, NEW old, NEW stored,
         Ascends(s, h, cached, old),
         e.name # h => stored = old,
         e.name = h => /\ e.obj = stored
                       /\ stored # Nil => stored.resourceVersion \in Nat
                       /\ NotAfter(cached, stored)
                       /\ \A i \in DOMAIN s : NotAfter(s[i].obj, stored)
  PROVE  Ascends(Append(s, e), h, cached, stored)
<1> DEFINE t == Append(s, e)
<1>1. /\ DOMAIN s = 1 .. Len(s) /\ Len(s) \in Nat /\ DOMAIN t = 1 .. Len(s) + 1
      /\ \A i \in DOMAIN s : t[i] = s[i]
      /\ t[Len(s) + 1] = e
  OBVIOUS
<1> HIDE DEF t
<1>2. CASE e.name = h
  <2>1. NotAfter(stored, stored)
    BY <1>2 DEF NotAfter
  <2> QED  BY <1>1, <1>2, <2>1 DEF Ascends
<1>3. CASE e.name # h
  BY <1>1, <1>3 DEF Ascends
<1> QED  BY <1>2, <1>3 DEF t

LEMMA TailElements ==
  ASSUME NEW s \in Seq(Event), s # <<>>
  PROVE  /\ Len(s) \in Nat /\ Len(s) > 0 /\ DOMAIN s = 1 .. Len(s)
         /\ Tail(s) \in Seq(Event) /\ DOMAIN Tail(s) = 1 .. Len(s) - 1
         /\ \A i \in DOMAIN Tail(s) : Tail(s)[i] = s[i + 1]
         /\ Head(s) = s[1] /\ Head(s) \in Event
OBVIOUS

LEMMA TailWord ==
  ASSUME NEW s \in Seq(Event), s # <<>>, NEW h, NEW cached, NEW stored,
         LastWord(s, h, cached, stored)
  PROVE  LastWord(Tail(s), h, IF Head(s).name = h THEN Head(s).obj ELSE cached, stored)
<1> DEFINE t == Tail(s)
<1>1. /\ Len(s) \in Nat /\ Len(s) > 0 /\ DOMAIN s = 1 .. Len(s)
      /\ DOMAIN t = 1 .. Len(s) - 1
      /\ \A i \in DOMAIN t : t[i] = s[i + 1]
      /\ Head(s) = s[1]
  BY TailElements
<1> HIDE DEF t
<1>2. ASSUME NEW i \in DOMAIN t, t[i].name = h, \A j \in DOMAIN t : t[j].name = h => j <= i
      PROVE  t[i].obj = stored
  <2>1. i + 1 \in DOMAIN s /\ s[i + 1] = t[i]
    BY <1>1
  <2>2. ASSUME NEW j \in DOMAIN s, s[j].name = h PROVE j <= i + 1
    <3>1. CASE j = 1
      BY <1>1, <3>1
    <3>2. CASE j # 1
      <4>1. j - 1 \in DOMAIN t /\ t[j - 1] = s[j]
        BY <1>1, <3>2
      <4>2. j - 1 <= i
        BY <1>2, <2>2, <4>1
      <4> QED  BY <1>1, <4>2
    <3> QED  BY <3>1, <3>2
  <2> QED  BY <1>2, <2>1, <2>2 DEF LastWord
<1>3. ASSUME \A i \in DOMAIN t : t[i].name # h
      PROVE  (IF Head(s).name = h THEN Head(s).obj ELSE cached) = stored
  <2>1. \A j \in DOMAIN s : j # 1 => s[j].name # h
    <3> SUFFICES ASSUME NEW j \in DOMAIN s, j # 1 PROVE s[j].name # h
      OBVIOUS
    <3>1. j - 1 \in DOMAIN t /\ t[j - 1] = s[j]
      BY <1>1
    <3> QED  BY <1>3, <3>1
  <2>2. CASE s[1].name = h
    <3>1. 1 \in DOMAIN s /\ \A j \in DOMAIN s : s[j].name = h => j <= 1
      BY <1>1, <2>1
    <3> QED  BY <1>1, <2>2, <3>1 DEF LastWord
  <2>3. CASE s[1].name # h
    <3>1. \A j \in DOMAIN s : s[j].name # h
      BY <2>1, <2>3
    <3> QED  BY <1>1, <2>3, <3>1 DEF LastWord
  <2> QED  BY <2>2, <2>3
<1> QED  BY <1>2, <1>3 DEF LastWord, t

LEMMA TailAscends ==
  ASSUME NEW s \in Seq(Event), s # <<>>, NEW h, NEW cached, NEW stored,
         Ascends(s, h, cached, stored)
  PROVE  /\ Ascends(Tail(s), h, IF Head(s).name = h THEN Head(s).obj ELSE cached, stored)
         /\ Head(s).name = h => NotAfter(cached, Head(s).obj)
<1> DEFINE t == Tail(s)
<1>1. /\ Len(s) \in Nat /\ Len(s) > 0 /\ DOMAIN s = 1 .. Len(s)
      /\ DOMAIN t = 1 .. Len(s) - 1
      /\ \A i \in DOMAIN t : t[i] = s[i + 1]
      /\ Head(s) = s[1]
  BY TailElements
<1> HIDE DEF t
<1>2. ASSUME NEW i \in DOMAIN t
      PROVE  i + 1 \in DOMAIN s /\ 1 \in DOMAIN s /\ 1 < i + 1 /\ s[i + 1] = t[i]
  BY <1>1
<1>3. ASSUME NEW i \in DOMAIN t, t[i].name = h, NEW j \in DOMAIN t, i < j, t[j].name = h
      PROVE  NotAfter(t[i].obj, t[j].obj)
  <2>1. i + 1 < j + 1
    BY <1>1, <1>3
  <2> QED  BY <1>2, <1>3, <2>1 DEF Ascends
<1>4. CASE Head(s).name = h
  BY <1>1, <1>2, <1>3, <1>4 DEF Ascends, t
<1>5. CASE Head(s).name # h
  BY <1>1, <1>2, <1>3, <1>5 DEF Ascends, t
<1> QED  BY <1>4, <1>5

LEMMA ListingWord ==
  ASSUME TypeOK, NEW events \in [1 .. Cardinality(CronHPA) -> Listing], Range(events) = Listing,
         NEW h \in CronHPA, NEW cached, NotAfter(cached, api[h])
  PROVE  LastWord(events, h, cached, api[h]) /\ Ascends(events, h, cached, api[h])
<1>1. \A i \in DOMAIN events : events[i].name = h => events[i].obj = api[h]
  BY DEF Listing
<1>2. \E i \in DOMAIN events : events[i].name = h
  <2>1. [name |-> h, obj |-> api[h]] \in Range(events)
    BY DEF Listing
  <2> QED  BY <2>1 DEF Range
<1>3. NotAfter(api[h], api[h])
  BY DEF NotAfter, TypeOK, Object
<1> QED  BY <1>1, <1>2, <1>3 DEF LastWord, Ascends

LEMMA NothingOnItsWay ==
  ASSUME NEW h \in CronHPA, NEW o \in Object \cup {Nil}
  PROVE  LastWord(<<>>, h, o, o) /\ Ascends(<<>>, h, o, o) /\ Ascends(<<>>, h, Nil, o)
<1>1. NotAfter(o, o) /\ NotAfter(Nil, o)
  BY DEF NotAfter, Object
<1> QED  BY <1>1 DEF LastWord, Ascends

(* All that a step can do to the informers. *)
LEMMA InformerStep ==
  ASSUME TypeOK, CopiesInv, [Next]_vars
  PROVE  \/ UNCHANGED <<api, up, cache, watch>>
         \/ \E h \in CronHPA, o \in Object \cup {Nil} :
              /\ Publish(h, o)
              /\ o # Nil => o.resourceVersion = rev + 1
              /\ UNCHANGED <<up, cache>>
         \/ \E c \in Controller : Deliver(c) \/ WatchBreaks(c) \/ Crash(c) \/ Restart(c)
<1>1. ASSUME NEW h \in CronHPA, NEW o, Publish(h, o), StoreStep
      PROVE  \E g \in CronHPA, new \in Object \cup {Nil} :
               Publish(g, new) /\ (new # Nil => new.resourceVersion = rev + 1)
  <2>1. rev' # rev
    BY <1>1 DEF Publish, TypeOK
  <2> QED  BY <1>1, <2>1 DEF StoreStep
<1>2. ASSUME NEW h \in CronHPA, UserCreates(h) \/ UserUpdates(h) \/ UserDeletes(h)
      PROVE  UNCHANGED <<up, cache>> /\ \E o : Publish(h, o)
  BY <1>2 DEF UserCreates, UserUpdates, UserDeletes, Edit
<1>3. ASSUME NEW c \in Controller, UpdateCronHPA(c)
      PROVE  UNCHANGED <<up, cache>> /\ \E h \in CronHPA : \E o : Publish(h, o)
  <2>1. work[c].obj.name \in CronHPA
    BY <1>3 DEF UpdateCronHPA, Recording, TypeOK, Work, Object
  <2> QED  BY <1>3, <2>1 DEF UpdateCronHPA
<1>4. ASSUME NEW c \in Controller, ControllerStep(c), ~UpdateCronHPA(c)
      PROVE  UNCHANGED <<api, up, cache, watch>>
  BY <1>4 DEF ControllerStep, List, Listed, SkipCronHPA, StartCronHPA, ScaleStep, AbandonCronHPA,
              RecordScaling, CacheAfterRecording, UpdateFails, storeVars, cacheVars
<1>5. CASE \/ Tick \/ UNCHANGED vars
           \/ \E t \in Target : Environment(t)
  BY <1>5 DEF Tick, Environment, vars, storeVars, cacheVars
<1>6. ASSUME NEW h \in CronHPA, UserCreates(h) \/ UserUpdates(h) \/ UserDeletes(h)
      PROVE  StoreStep
  BY <1>6, UserCopies DEF CopiesInv
<1> QED  BY <1>1, <1>2, <1>3, <1>4, <1>5, <1>6, UpdateCopies DEF Next

LEMMA PublishInformer ==
  ASSUME TypeOK, CopiesInv, InformerInv, NEW h \in CronHPA, NEW o \in Object \cup {Nil},
         Publish(h, o), o # Nil => o.resourceVersion = rev + 1, UNCHANGED <<up, cache>>
  PROVE  InformerInv'
<1> DEFINE e == [name |-> h, obj |-> o]
<1>1. /\ api'[h] = o
      /\ \A g \in CronHPA : g # h => api'[g] = api[g]
      /\ \A c \in Controller : watch'[c] = IF up[c] THEN Append(watch[c], e) ELSE watch[c]
  BY DEF Publish, TypeOK
<1>2. DownKnowsNothing'
  BY <1>1 DEF InformerInv, DownKnowsNothing
<1>3. ASSUME NEW c \in Controller, NEW x \in Copies(c) PROVE NotAfter(x, o)
  <2>1. x # Nil => x.resourceVersion \in Nat /\ x.resourceVersion <= rev
    BY <1>3, CopiesType DEF CopiesInv, VersionsKnown, Object
  <2>2. rev \in Nat
    BY DEF TypeOK
  <2> QED  BY <2>1, <2>2 DEF NotAfter
<1>4. ASSUME NEW c \in Controller, NEW g \in CronHPA, up[c]
      PROVE  /\ LastWord(watch'[c], g, cache'[c][g], api'[g])
             /\ Ascends(watch'[c], g, cache'[c][g], api'[g])
  <2>1. e \in Event /\ watch[c] \in Seq(Event) /\ e.name = h /\ e.obj = o
    BY DEF Event, TypeOK
  <2>2. cache[c][g] \in Copies(c) /\ \A i \in DOMAIN watch[c] : watch[c][i].obj \in Copies(c)
    BY DEF Copies, Range
  <2>3. LastWord(watch[c], g, cache[c][g], api[g]) /\ Ascends(watch[c], g, cache[c][g], api[g])
    BY <1>4 DEF InformerInv
  <2>4. g = h => /\ o # Nil => o.resourceVersion \in Nat
                 /\ NotAfter(cache[c][g], o)
                 /\ \A i \in DOMAIN watch[c] : NotAfter(watch[c][i].obj, o)
    BY <1>3, <2>2 DEF Object
  <2> HIDE DEF e
  <2>5. LastWord(Append(watch[c], e), g, cache[c][g], api'[g])
    BY <1>1, <2>1, <2>3, AppendWord
  <2>6. Ascends(Append(watch[c], e), g, cache[c][g], api'[g])
    BY <1>1, <2>1, <2>3, <2>4, AppendAscends
  <2> QED  BY <1>1, <1>4, <2>5, <2>6
<1>5. ASSUME NEW c \in Controller, NEW g \in CronHPA, ~up[c]
      PROVE  Ascends(watch'[c], g, cache'[c][g], api'[g])
  BY <1>1, <1>5, NothingOnItsWay DEF InformerInv, DownKnowsNothing, TypeOK
<1> QED  BY <1>2, <1>4, <1>5 DEF InformerInv

LEMMA OwnInformer ==
  ASSUME TypeOK, InformerInv, NEW c \in Controller,
         Deliver(c) \/ WatchBreaks(c) \/ Crash(c) \/ Restart(c)
  PROVE  InformerInv'
<1>1. api' = api
  BY DEF Deliver, WatchBreaks, Crash, Restart, storeVars
<1>2. ASSUME NEW d \in Controller, d # c
      PROVE  UNCHANGED <<up[d], watch[d], cache[d]>>
  BY <1>2 DEF Deliver, WatchBreaks, Crash, Restart, TypeOK
<1>3. ASSUME /\ ~up'[c] => watch'[c] = <<>> /\ \A h \in CronHPA : cache'[c][h] = Nil
             /\ \A h \in CronHPA : /\ up'[c] => LastWord(watch'[c], h, cache'[c][h], api[h])
                                   /\ Ascends(watch'[c], h, cache'[c][h], api[h])
      PROVE  InformerInv'
  BY <1>1, <1>2, <1>3 DEF InformerInv, DownKnowsNothing
<1>4. CASE Deliver(c)
  <2>1. watch[c] \in Seq(Event) /\ watch[c] # <<>> /\ up'[c]
    BY <1>4 DEF Deliver, TypeOK
  <2>2. /\ watch'[c] = Tail(watch[c])
        /\ \A h \in CronHPA :
             cache'[c][h] = IF Head(watch[c]).name = h THEN Head(watch[c]).obj ELSE cache[c][h]
    BY <1>4 DEF Deliver, TypeOK
  <2> QED  BY <1>3, <1>4, <2>1, <2>2, TailWord, TailAscends DEF InformerInv, Deliver
<1>5. CASE WatchBreaks(c)
  <2>1. PICK events \in [1 .. Cardinality(CronHPA) -> Listing] :
          Range(events) = Listing /\ watch' = [watch EXCEPT ![c] = events]
    BY <1>5 DEF WatchBreaks
  <2>2. watch'[c] = events /\ cache'[c] = cache[c] /\ up'[c]
    BY <1>5, <2>1 DEF WatchBreaks, TypeOK
  <2>3. \A h \in CronHPA : NotAfter(cache[c][h], api[h])
    BY DEF InformerInv, Ascends
  <2> QED  BY <1>3, <2>1, <2>2, <2>3, ListingWord
<1>6. CASE Crash(c)
  <2>1. watch'[c] = <<>> /\ ~up'[c] /\ \A h \in CronHPA : cache'[c][h] = Nil
    BY <1>6 DEF Crash, TypeOK
  <2>2. \A h \in CronHPA : Ascends(<<>>, h, Nil, api[h])
    BY NothingOnItsWay DEF TypeOK
  <2> QED  BY <1>3, <2>1, <2>2
<1>7. CASE Restart(c)
  <2>1. watch'[c] = <<>> /\ up'[c] /\ cache'[c] = api
    BY <1>7 DEF Restart, TypeOK, InformerInv, DownKnowsNothing
  <2>2. \A h \in CronHPA : LastWord(<<>>, h, api[h], api[h]) /\ Ascends(<<>>, h, api[h], api[h])
    BY NothingOnItsWay DEF TypeOK
  <2> QED  BY <1>3, <2>1, <2>2
<1> QED  BY <1>4, <1>5, <1>6, <1>7

LEMMA InformerInvStep ==
  TypeOK /\ CopiesInv /\ InformerInv /\ [Next]_vars => InformerInv'
<1> SUFFICES ASSUME TypeOK, CopiesInv, InformerInv, [Next]_vars PROVE InformerInv'
  OBVIOUS
<1>1. CASE UNCHANGED <<api, up, cache, watch>>
  BY <1>1 DEF InformerInv, DownKnowsNothing
<1> QED  BY <1>1, InformerStep, PublishInformer, OwnInformer

LEMMA InitInformer == Init => InformerInv
<1> SUFFICES ASSUME Init PROVE InformerInv
  OBVIOUS
<1>1. /\ up = [c \in Controller |-> TRUE]
      /\ cache = [c \in Controller |-> api] /\ watch = [c \in Controller |-> <<>>]
  BY DEF Init
<1>2. \A h \in CronHPA : LastWord(<<>>, h, api[h], api[h]) /\ Ascends(<<>>, h, api[h], api[h])
  BY InitTypeOK, NothingOnItsWay DEF TypeOK
<1> QED  BY <1>1, <1>2 DEF InformerInv, DownKnowsNothing

LEMMA InformerInvHolds == Spec => []InformerInv
BY InformerInvStep, InitInformer, TypeCorrect, CopiesAreKnown, PTL DEF Spec

(***************************************************************************)
(* The cache of a process that runs lacks only what is on its way,         *)
(* whatever watches ended and whatever was lost with them.                 *)
(***************************************************************************)
THEOREM CachesAreOnlyLate == Spec => []OnlyLate
<1>1. TypeOK /\ InformerInv => OnlyLate
  BY OnlyLateIsLastWord DEF InformerInv
<1> QED  BY <1>1, InformerInvHolds, TypeCorrect, PTL

(***************************************************************************)
(* No process sees an older state of an object after a newer one.          *)
(***************************************************************************)
THEOREM CachesNeverGoBack == Spec => CacheNeverGoesBack
<1> DEFINE Forward == \A c \in Controller, h \in CronHPA :
             up[c] /\ up'[c] /\ cache[c][h] # Nil /\ cache'[c][h] # Nil
               => cache[c][h].resourceVersion <= cache'[c][h].resourceVersion
<1>1. TypeOK /\ CopiesInv /\ InformerInv /\ [Next]_vars => Forward
  <2> SUFFICES ASSUME TypeOK, CopiesInv, InformerInv, [Next]_vars,
                      NEW d \in Controller, NEW h \in CronHPA, up[d], up'[d]
               PROVE  NotAfter(cache[d][h], cache'[d][h])
    BY DEF NotAfter
  <2>1. NotAfter(cache[d][h], cache[d][h])
    BY DEF NotAfter, TypeOK, Object
  <2>2. CASE cache' = cache
    BY <2>1, <2>2
  <2>3. ASSUME NEW c \in Controller, Deliver(c) \/ Crash(c) \/ Restart(c)
        PROVE  NotAfter(cache[d][h], cache'[d][h])
    <3>1. CASE c # d
      BY <2>1, <2>3, <3>1 DEF Deliver, Crash, Restart, TypeOK
    <3>2. CASE c = d
      <4>1. Deliver(d)
        BY <2>3, <3>2 DEF Crash, Restart, TypeOK
      <4>2. watch[d] \in Seq(Event) /\ watch[d] # <<>>
        BY <4>1 DEF Deliver, TypeOK
      <4>3. Head(watch[d]).name = h => NotAfter(cache[d][h], Head(watch[d]).obj)
        BY <4>2, TailAscends DEF InformerInv
      <4>4. cache'[d][h] = IF Head(watch[d]).name = h THEN Head(watch[d]).obj ELSE cache[d][h]
        BY <4>1 DEF Deliver, TypeOK
      <4> QED  BY <2>1, <4>3, <4>4
    <3> QED  BY <3>1, <3>2
  <2>4. ASSUME NEW c \in Controller, WatchBreaks(c) PROVE cache' = cache
    BY <2>4 DEF WatchBreaks
  <2> QED  BY <2>2, <2>3, <2>4, InformerStep
<1> QED
  BY <1>1, InformerInvHolds, TypeCorrect, CopiesAreKnown, PTL DEF Spec, CacheNeverGoesBack

-----------------------------------------------------------------------------
(***************************************************************************)
(* A pass.  What a process is doing changes only by its own steps and its  *)
(* death.                                                                  *)
(***************************************************************************)
LEMMA OwnPass ==
  ASSUME TypeOK, [Next]_vars, NEW d \in Controller
  PROVE  UNCHANGED <<todo[d], work[d], call[d]>> \/ ControllerStep(d) \/ Crash(d)
<1>1. ASSUME NEW c \in Controller, c # d, ControllerStep(c)
      PROVE  UNCHANGED <<todo[d], work[d], call[d]>>
  <2> USE DEF TypeOK, ScaleTypeOK
  <2>1. CASE List(c) \/ SkipCronHPA(c) \/ UpdateCronHPA(c)
    BY <1>1, <2>1 DEF List, SkipCronHPA, UpdateCronHPA, scaleVars
  <2>2. CASE StartCronHPA(c)
    BY <1>1, <2>2 DEF StartCronHPA, updateScaleTargetRef
  <2>3. CASE ScaleStep(c)
    BY <1>1, <2>3 DEF ScaleStep, processVars, CallStep, GetHPA, UpdateHPA, GetScale, UpdateScale,
                      RequestRefused, RequestLost, AnswerLost
  <2>4. CASE AbandonCronHPA(c) \/ RecordScaling(c)
    BY <1>1, <2>4 DEF AbandonCronHPA, RecordScaling, Return, EndCall
  <2>5. CASE UpdateFails(c)
    BY <1>1, <2>5 DEF UpdateFails, FaultElsewhere, scaleVars
  <2> QED  BY <1>1, <2>1, <2>2, <2>3, <2>4, <2>5 DEF ControllerStep
<1>2. ASSUME NEW c \in Controller, c # d, Crash(c)
      PROVE  UNCHANGED <<todo[d], work[d], call[d]>>
  BY <1>2 DEF Crash, CallerDies, EndCall, TypeOK, ScaleTypeOK
<1>3. ASSUME NEW c \in Controller, Deliver(c) \/ WatchBreaks(c) \/ Restart(c)
      PROVE  UNCHANGED <<todo, work, call>>
  BY <1>3 DEF Deliver, WatchBreaks, Restart, FaultElsewhere, processVars, scaleVars
<1>4. ASSUME NEW h \in CronHPA, UserCreates(h) \/ UserUpdates(h) \/ UserDeletes(h)
      PROVE  UNCHANGED <<todo, work, call>>
  BY <1>4 DEF UserCreates, UserUpdates, UserDeletes, Edit, processVars, scaleVars
<1>5. ASSUME NEW t \in Target, Environment(t)
      PROVE  UNCHANGED <<todo, work, call>>
  BY <1>5 DEF Environment, ScaleEnvironment, Autoscale, ReportStatus, UserScales, UserEditsHPA,
              processVars
<1>6. CASE Tick \/ UNCHANGED vars
  BY <1>6 DEF Tick, vars, processVars, scaleVars
<1> QED  BY <1>1, <1>2, <1>3, <1>4, <1>5, <1>6 DEF Next

TodoFinite == \A c \in Controller : IsFiniteSet(todo[c])

LEMMA ListedFinite ==
  ASSUME TypeOK, NEW c \in Controller
  PROVE  IsFiniteSet(Listed(c))
<1> DEFINE S == {cache[c][h] : h \in CronHPA}
<1>1. cache[c] \in Surjection(CronHPA, S)
  BY DEF Surjection, TypeOK
<1>2. IsFiniteSet(S)
  BY <1>1, FS_Surjection, ControllerAssumption DEF ControllerAssumption
<1> QED  BY <1>2, FS_Subset DEF Listed

LEMMA TodoFiniteStep == TypeOK /\ TodoFinite /\ [Next]_vars => TodoFinite'
<1> SUFFICES ASSUME TypeOK, TodoFinite, [Next]_vars, NEW c \in Controller
             PROVE  IsFiniteSet(todo'[c])
  BY DEF TodoFinite
<1>1. IsFiniteSet(todo[c])
  BY DEF TodoFinite
<1>2. todo'[c] \in SUBSET todo[c] \/ todo'[c] = Listed(c) \/ todo'[c] = {}
  BY OwnPass DEF ControllerStep, List, SkipCronHPA, StartCronHPA, ScaleStep, AbandonCronHPA,
     RecordScaling, UpdateCronHPA, UpdateFails, Crash, processVars, TypeOK
<1> QED  BY <1>1, <1>2, FS_Subset, FS_EmptySet, ListedFinite

(* A step of a call leaves fewer requests to be made. *)
LEMMA CallStepDescends ==
  ASSUME ScaleTypeOK, NEW c \in Controller, CallStep(c)
  PROVE  /\ call[c].pc # "none"
         /\ StepsOfCall[call'[c].pc] < StepsOfCall[call[c].pc]
<1> USE DEF StepsOfCall, ScaleTypeOK, CallState
<1>1. CASE GetHPA(c)
  BY <1>1 DEF GetHPA
<1>2. CASE UpdateHPA(c)
  BY <1>2 DEF UpdateHPA, StoreHPA
<1>3. CASE GetScale(c)
  BY <1>3 DEF GetScale
<1>4. CASE UpdateScale(c)
  BY <1>4 DEF UpdateScale, StoreScale
<1>5. CASE RequestRefused(c) \/ RequestLost(c)
  BY <1>5 DEF RequestRefused, RequestLost, Requests
<1>6. CASE AnswerLost(c)
  BY <1>6 DEF AnswerLost, StoreHPA, StoreScale
<1> QED  BY <1>1, <1>2, <1>3, <1>4, <1>5, <1>6 DEF CallStep

(* What the start of a scaling leaves behind. *)
LEMMA Started ==
  ASSUME TypeOK, NEW c \in Controller, StartCronHPA(c)
  PROVE  /\ work'[c].obj \in Object /\ work'[c].at = Nil
         /\ call'[c].pc \in {"getHPA", "getScale"}
         /\ call'[c].ref = work'[c].obj.spec.scaleTargetRef
         /\ call'[c].targeSize = work'[c].cron.targeSize
<1>1. PICK o \in todo[c] :
        \E cron \in Winners(Batch(o, Now(c))) :
          /\ work' = [work EXCEPT ![c] = [obj |-> o, cron |-> cron, now |-> Now(c), at |-> Nil]]
          /\ updateScaleTargetRef(c, o.spec.scaleTargetRef, cron.targeSize)
  BY DEF StartCronHPA
<1>2. PICK cron \in Winners(Batch(o, Now(c))) :
        /\ work' = [work EXCEPT ![c] = [obj |-> o, cron |-> cron, now |-> Now(c), at |-> Nil]]
        /\ updateScaleTargetRef(c, o.spec.scaleTargetRef, cron.targeSize)
  BY <1>1
<1>3. work'[c] = [obj |-> o, cron |-> cron, now |-> Now(c), at |-> Nil] /\ o \in Object
  BY <1>2 DEF TypeOK
<1> DEFINE ref == o.spec.scaleTargetRef
           pc  == IF ref.kind = HPAKind THEN "getHPA" ELSE "getScale"
<1>4. call'[c] = [pc |-> pc, ref |-> ref, targeSize |-> cron.targeSize, hpa |-> Nil]
  <2>1. call'[c] = [NoCall EXCEPT !.pc = pc, !.ref = ref, !.targeSize = cron.targeSize]
    BY <1>2, Zenon DEF updateScaleTargetRef, TypeOK, ScaleTypeOK
  <2> HIDE DEF pc, ref
  <2> QED  BY <2>1 DEF NoCall
<1> QED  BY <1>3, <1>4

LEMMA PassDescends ==
  ASSUME TypeOK, TodoFinite, NEW c \in Controller, ControllerStep(c) \/ Crash(c),
         ~(Idle(c) /\ todo[c] = {})
  PROVE  StepsLeft(c)' < StepsLeft(c)
<1> DEFINE n == Cardinality(todo[c])
           k == IF work[c] = Nil THEN 0 ELSE StepsOfCall[call[c].pc]
<1>1. n \in Nat /\ (n = 0 <=> todo[c] = {})
  BY FS_CardinalityType, FS_EmptySet DEF TodoFinite
<1>2. \A o \in todo[c] : Cardinality(todo[c] \ {o}) = n - 1
  BY FS_RemoveElement DEF TodoFinite
<1>3. \A pc \in Requests \cup {"none", "ok", "err"} : StepsOfCall[pc] \in 1..6
  BY DEF StepsOfCall, Requests
<1>4. call[c].pc \in Requests \cup {"none", "ok", "err"}
  BY DEF TypeOK, ScaleTypeOK, CallState
<1>5. k \in 0..6 /\ (work[c] # Nil => k > 0) /\ StepsLeft(c) = 7 * n + k
  BY <1>3, <1>4 DEF StepsLeft
<1>6. CASE List(c)
  BY <1>6 DEF List
<1>7. CASE SkipCronHPA(c) \/ StartCronHPA(c)
  <2>1. PICK o \in todo[c] : todo'[c] = todo[c] \ {o}
    BY <1>7 DEF SkipCronHPA, StartCronHPA, TypeOK
  <2>2. Cardinality(todo'[c]) = n - 1 /\ work[c] = Nil
    BY <1>2, <1>7, <2>1 DEF SkipCronHPA, StartCronHPA, Idle
  <2> DEFINE m == IF work'[c] = Nil THEN 0 ELSE StepsOfCall[call'[c].pc]
  <2>3. m \in 0..6
    BY <1>7, <2>2, Started DEF SkipCronHPA, StepsOfCall
  <2>4. StepsLeft(c)' = 7 * (n - 1) + m
    BY <2>2 DEF StepsLeft
  <2> HIDE DEF n, k, m
  <2> QED  BY <1>1, <1>5, <2>3, <2>4
<1>8. ASSUME todo'[c] = todo[c], work[c] # Nil,
             work'[c] = Nil \/ StepsOfCall[call'[c].pc] < StepsOfCall[call[c].pc],
             work'[c] = Nil \/ call'[c].pc \in Requests \cup {"none", "ok", "err"}
      PROVE  StepsLeft(c)' < StepsLeft(c)
  <2>1. StepsLeft(c)' = 7 * n + (IF work'[c] = Nil THEN 0 ELSE StepsOfCall[call'[c].pc])
    BY <1>8 DEF StepsLeft
  <2>2. k = StepsOfCall[call[c].pc]
    BY <1>8
  <2> HIDE DEF n, k
  <2> QED  BY <1>1, <1>3, <1>5, <1>8, <2>1, <2>2
<1>9. CASE ScaleStep(c)
  <2>1. CallStep(c) /\ todo' = todo /\ work' = work
    BY <1>9 DEF ScaleStep, processVars
  <2>2. call[c].pc # "none" /\ StepsOfCall[call'[c].pc] < StepsOfCall[call[c].pc]
    BY <2>1, CallStepDescends DEF TypeOK
  <2>3. work[c] # Nil
    BY <2>2 DEF TypeOK, CallTypeOK
  <2>4. call'[c].pc \in Requests \cup {"none", "ok", "err"}
    BY <1>9, StepIsScaleStep, ScaleTypeOKStep DEF TypeOK, ScaleTypeOK, CallState, Next, ControllerStep
  <2> QED  BY <1>8, <2>1, <2>2, <2>3, <2>4
<1>10. CASE AbandonCronHPA(c)
  <2>1. todo' = todo /\ work'[c] = Nil /\ work[c] # Nil
    BY <1>10 DEF AbandonCronHPA, TypeOK, CallTypeOK
  <2> QED  BY <1>8, <2>1
<1>11. CASE RecordScaling(c)
  <2>1. todo' = todo /\ work[c] # Nil /\ call[c].pc = "ok"
    BY <1>11 DEF RecordScaling, TypeOK, CallTypeOK
  <2>2. call'[c].pc = "none"
    BY <1>11 DEF RecordScaling, Return, EndCall, NoCall, TypeOK, ScaleTypeOK
  <2> QED  BY <1>8, <2>1, <2>2 DEF StepsOfCall
<1>12. CASE UpdateCronHPA(c) \/ UpdateFails(c)
  <2>1. todo' = todo /\ work'[c] = Nil /\ work[c] # Nil
    BY <1>12 DEF UpdateCronHPA, UpdateFails, Recording, TypeOK
  <2> QED  BY <1>8, <2>1
<1>13. CASE Crash(c)
  <2>1. todo'[c] = {} /\ work'[c] = Nil /\ ~(work[c] = Nil /\ todo[c] = {})
    BY <1>13 DEF Crash, TypeOK, Idle
  <2>2. StepsLeft(c)' = 0
    BY <2>1, FS_EmptySet DEF StepsLeft
  <2>3. n > 0 \/ k > 0
    BY <1>1, <1>5, <2>1
  <2> HIDE DEF n, k
  <2> QED  BY <1>1, <1>5, <2>2, <2>3
<1> QED
  BY <1>6, <1>7, <1>9, <1>10, <1>11, <1>12, <1>13 DEF ControllerStep

(***************************************************************************)
(* A pass comes to its end: every step a process takes in it, and its      *)
(* death, leaves fewer to be taken, and nobody else adds to them.          *)
(***************************************************************************)
THEOREM PassesEnd == Spec => PassEnds
<1> DEFINE Descends == \A c \in Controller :
             ~(Idle(c) /\ todo[c] = {})
               => \/ UNCHANGED <<todo[c], work[c], call[c]>>
                  \/ StepsLeft(c)' < StepsLeft(c)
<1>1. TypeOK /\ TodoFinite /\ [Next]_vars => Descends
  BY OwnPass, PassDescends
<1>2. Init => TodoFinite
  BY FS_EmptySet DEF Init, TodoFinite
<1> QED  BY <1>1, <1>2, TodoFiniteStep, TypeCorrect, PTL DEF Spec, PassEnds

-----------------------------------------------------------------------------
(***************************************************************************)
(* What is scaled.  The call a pass is in was made for the object and the  *)
(* cron the pass is at, until its answer is taken.                         *)
(***************************************************************************)
CallIsForWork ==
  \A c \in Controller :
    work[c] # Nil /\ work[c].at = Nil
      => /\ call[c].ref = work[c].obj.spec.scaleTargetRef
         /\ call[c].targeSize = work[c].cron.targeSize

(* No request, and no answer to one, changes what the call is for. *)
LEMMA CallKeepsTarget ==
  ASSUME ScaleTypeOK, NEW c \in Controller, CallStep(c)
  PROVE  call'[c].ref = call[c].ref /\ call'[c].targeSize = call[c].targeSize
<1> USE DEF ScaleTypeOK, CallState
<1>1. CASE GetHPA(c)
  BY <1>1 DEF GetHPA
<1>2. CASE UpdateHPA(c)
  BY <1>2 DEF UpdateHPA
<1>3. CASE GetScale(c)
  BY <1>3 DEF GetScale
<1>4. CASE UpdateScale(c)
  BY <1>4 DEF UpdateScale
<1>5. CASE RequestRefused(c) \/ RequestLost(c) \/ AnswerLost(c)
  BY <1>5 DEF RequestRefused, RequestLost, AnswerLost
<1> QED  BY <1>1, <1>2, <1>3, <1>4, <1>5 DEF CallStep

LEMMA CallIsForWorkStep == TypeOK /\ CallIsForWork /\ [Next]_vars => CallIsForWork'
<1> SUFFICES ASSUME TypeOK, CallIsForWork, [Next]_vars, NEW c \in Controller,
                    work'[c] # Nil, work'[c].at = Nil
             PROVE  /\ call'[c].ref = work'[c].obj.spec.scaleTargetRef
                    /\ call'[c].targeSize = work'[c].cron.targeSize
  BY DEF CallIsForWork
<1>1. CASE UNCHANGED <<todo[c], work[c], call[c]>>
  BY <1>1 DEF CallIsForWork
<1>2. CASE StartCronHPA(c)
  BY <1>2, Started
<1>3. CASE ScaleStep(c)
  <2>1. work' = work /\ call'[c].ref = call[c].ref /\ call'[c].targeSize = call[c].targeSize
    BY <1>3, CallKeepsTarget DEF ScaleStep, processVars, TypeOK
  <2> QED  BY <2>1 DEF CallIsForWork
<1>4. CASE List(c) \/ SkipCronHPA(c)
  BY <1>4 DEF List, SkipCronHPA, Idle, TypeOK
<1>5. CASE AbandonCronHPA(c) \/ UpdateCronHPA(c) \/ UpdateFails(c) \/ Crash(c)
  BY <1>5 DEF AbandonCronHPA, UpdateCronHPA, UpdateFails, Crash, TypeOK
<1>6. CASE RecordScaling(c)
  <2>1. work[c] \in Work
    BY <1>6 DEF RecordScaling, TypeOK, CallTypeOK
  <2>2. Now(c) \in Int
    BY ControllerAssumption DEF Now, TypeOK, ControllerAssumption
  <2>3. work'[c] = [work[c] EXCEPT !.at = Now(c)]
    BY <1>6 DEF RecordScaling, TypeOK
  <2> QED  BY <2>1, <2>2, <2>3, ScaleTargetAssumption DEF Work, ScaleTargetAssumption
<1> QED  BY <1>1, <1>2, <1>3, <1>4, <1>5, <1>6, OwnPass DEF ControllerStep

(* Only an answer makes a call a success. *)
LEMMA SuccessIsAnAnswer ==
  ASSUME TypeOK, [Next]_vars, NEW c \in Controller, call[c].pc # "ok", call'[c].pc = "ok"
  PROVE  CallStep(c) /\ work' = work /\ work[c] # Nil /\ work[c].at = Nil
<1>1. ControllerStep(c) \/ Crash(c)
  BY OwnPass
<1>2. ~(List(c) \/ SkipCronHPA(c) \/ UpdateCronHPA(c) \/ UpdateFails(c))
  BY DEF List, SkipCronHPA, UpdateCronHPA, UpdateFails, FaultElsewhere, scaleVars
<1>3. ~StartCronHPA(c)
  BY Started
<1>4. ~(AbandonCronHPA(c) \/ RecordScaling(c) \/ Crash(c))
  BY DEF AbandonCronHPA, RecordScaling, Crash, Return, CallerDies, EndCall, NoCall,
         TypeOK, ScaleTypeOK
<1>5. ScaleStep(c)
  BY <1>1, <1>2, <1>3, <1>4 DEF ControllerStep
<1>6. CallStep(c) /\ work' = work
  BY <1>5 DEF ScaleStep, processVars
<1>7. call[c].pc # "none"
  BY <1>6, CallStepDescends DEF TypeOK
<1> QED  BY <1>6, <1>7 DEF TypeOK, CallTypeOK

(***************************************************************************)
(* A success that will be recorded for a cron of an object was had on the  *)
(* target of this object and with the size of this cron.                   *)
(***************************************************************************)
THEOREM SuccessesAreAsPlanned == Spec => ScaledAsPlanned
<1>1. ASSUME TypeOK, ScaleIInv, CallIsForWork, [Next]_vars, NEW c \in Controller,
             call[c].pc # "ok", call'[c].pc = "ok"
      PROVE  LET ref == work[c].obj.spec.scaleTargetRef
                 n   == work[c].cron.targeSize
             IN  /\ work'[c] = work[c]
                 /\ \/ workload'[ref.name] = n
                    \/ /\ ref.kind = HPAKind
                       /\ hpa'[ref.name].min <= n /\ n <= hpa'[ref.name].max
                       /\ n <= hpa'[ref.name].current
  <2>1. work' = work /\ work[c] # Nil /\ work[c].at = Nil
    BY <1>1, SuccessIsAnAnswer
  <2>2. /\ call[c].ref = work[c].obj.spec.scaleTargetRef
        /\ call[c].targeSize = work[c].cron.targeSize
    BY <1>1, <2>1 DEF CallIsForWork
  <2>3. [ScaleNext]_scaleVars
    BY <1>1, StepIsScaleStep
  <2>4. LET t == call[c].ref.name
            n == call[c].targeSize
        IN  \/ workload'[t] = n
            \/ /\ call[c].ref.kind = HPAKind
               /\ hpa'[t].min <= n /\ n <= hpa'[t].max
               /\ n <= hpa'[t].current
    BY <1>1, <2>3, OkStep
  <2> QED  BY <2>1, <2>2, <2>4
<1>2. TypeOK /\ ScaleIInv /\ CallIsForWork /\ [Next]_vars =>
        [\A c \in Controller :
           call[c].pc # "ok" /\ call'[c].pc = "ok"
             => LET ref == work[c].obj.spec.scaleTargetRef
                    n   == work[c].cron.targeSize
                IN  /\ work'[c] = work[c]
                    /\ \/ workload'[ref.name] = n
                       \/ /\ ref.kind = HPAKind
                          /\ hpa'[ref.name].min <= n /\ n <= hpa'[ref.name].max
                          /\ n <= hpa'[ref.name].current]_vars
  BY <1>1
<1>3. Init => CallIsForWork
  BY DEF Init, CallIsForWork
<1>4. Spec => []ScaleIInv
  BY ImplementsScaleTarget, ScaleIInvHolds, PTL
<1> QED  BY <1>2, <1>3, <1>4, CallIsForWorkStep, TypeCorrect, PTL DEF Spec, ScaledAsPlanned
=============================================================================
