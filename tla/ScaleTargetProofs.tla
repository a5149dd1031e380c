-------------------------- MODULE ScaleTargetProofs --------------------------
(***************************************************************************)
(* Theorems about ScaleTarget, for any number of processes and targets,    *)
(* any sizes and any number of faults.                                     *)
(***************************************************************************)
EXTENDS ScaleTarget, TLAPS

(***************************************************************************)
(* The state of a call is of its type whatever the server, the users and   *)
(* the autoscaler do: a request always has a reference, and an update of   *)
(* an HPA an object to send.                                               *)
(***************************************************************************)
LEMMA ScaleInitTypeOK == ScaleInit => ScaleTypeOK
<1> SUFFICES ASSUME ScaleInit PROVE ScaleTypeOK
  OBVIOUS
<1>1. workload \in [Target -> Int]
  <2>1. workload \in [Target -> Size] /\ Size \subseteq Int
    BY ScaleTargetAssumption DEF ScaleInit, ScaleTargetAssumption
  <2> QED  BY <2>1
<1>2. hpa \in [Target -> HPA]
  <2>1. hpa \in [Target -> [min : Size, max : Size, current : Size]]
    BY DEF ScaleInit
  <2>2. [min : Size, max : Size, current : Size] \subseteq HPA
    BY ScaleTargetAssumption DEF HPA, ScaleTargetAssumption
  <2> QED  BY <2>1, <2>2
<1>3. NoCall \in CallState /\ NoCall.pc = "none"
  BY DEF NoCall, CallState, Requests
<1>4. call \in [Controller -> CallState] /\ \A c \in Controller : call[c].pc = "none"
  BY <1>3 DEF ScaleInit
<1> QED  BY <1>1, <1>2, <1>4 DEF ScaleInit, ScaleTypeOK

LEMMA AdjustedType ==
  ASSUME NEW h \in HPA, NEW n \in Int
  PROVE  Adjusted(h, n) \in HPA
BY DEF Adjusted, HPA

LEMMA ScaleTypeOKStep == ScaleTypeOK /\ [ScaleNext]_scaleVars => ScaleTypeOK'
<1> SUFFICES ASSUME ScaleTypeOK, [ScaleNext]_scaleVars PROVE ScaleTypeOK'
  OBVIOUS
<1> USE ScaleTargetAssumption DEF ScaleTargetAssumption, ScaleTypeOK
<1>1. ASSUME NEW c \in Controller, NEW ref \in Ref, NEW n \in TargeSizes,
             updateScaleTargetRef(c, ref, n)
      PROVE  ScaleTypeOK'
  BY <1>1 DEF updateScaleTargetRef, NoCall, CallState, Requests
<1>2. ASSUME NEW c \in Controller, GetHPA(c) PROVE ScaleTypeOK'
  <2>1. call[c].ref.name \in Target /\ call[c].targeSize \in Int
    BY <1>2 DEF GetHPA, CallState, Ref
  <2>2. Adjusted(hpa[call[c].ref.name], call[c].targeSize) \in HPA
    BY <2>1, AdjustedType
  <2> QED  BY <1>2, <2>1, <2>2 DEF GetHPA, CallState, Requests
<1>3. ASSUME NEW c \in Controller, StoreHPA(c)
      PROVE  /\ hpa' \in [Target -> HPA]
             /\ hpaHeld' \in [Target -> SUBSET Controller]
             /\ UNCHANGED <<workload, scaleHeld, observed>>
  BY <1>3 DEF StoreHPA, CallState, Ref
<1>4. ASSUME NEW c \in Controller, StoreScale(c)
      PROVE  /\ workload' \in [Target -> Int]
             /\ scaleHeld' \in [Target -> SUBSET Controller]
             /\ UNCHANGED <<hpa, hpaHeld, observed>>
  BY <1>4 DEF StoreScale, CallState, Ref
<1>5. ASSUME NEW c \in Controller, UpdateHPA(c) PROVE ScaleTypeOK'
  <2>1. call[c].pc = "updateHPA"
    BY <1>5 DEF UpdateHPA, StoreHPA
  <2> QED  BY <1>5, <1>3, <2>1 DEF UpdateHPA, CallState, Requests
<1>6. ASSUME NEW c \in Controller, GetScale(c) PROVE ScaleTypeOK'
  BY <1>6 DEF GetScale, CallState, Requests, Ref
<1>7. ASSUME NEW c \in Controller, UpdateScale(c) PROVE ScaleTypeOK'
  <2>1. call[c].pc = "updateScale"
    BY <1>7 DEF UpdateScale, StoreScale
  <2> QED  BY <1>7, <1>4, <2>1 DEF UpdateScale, CallState, Requests
<1>8. ASSUME NEW c \in Controller, RequestRefused(c) PROVE ScaleTypeOK'
  BY <1>8 DEF RequestRefused, CallState, Requests
<1>9. ASSUME NEW c \in Controller, RequestLost(c) PROVE ScaleTypeOK'
  BY <1>9 DEF RequestLost, CallState, Requests, Disrupt
<1>10. ASSUME NEW c \in Controller, AnswerLost(c) PROVE ScaleTypeOK'
  <2>1. call[c].pc \in {"updateHPA", "updateScale"}
    BY <1>10 DEF AnswerLost, StoreHPA, StoreScale
  <2>2. CASE StoreHPA(c)
    BY <1>10, <1>3, <2>1, <2>2 DEF AnswerLost, CallState, Disrupt
  <2>3. CASE StoreScale(c)
    BY <1>10, <1>4, <2>1, <2>3 DEF AnswerLost, CallState, Disrupt
  <2> QED  BY <1>10, <2>2, <2>3 DEF AnswerLost
<1>11. ASSUME NEW c \in Controller, EndCall(c), disruptions' \in Nat PROVE ScaleTypeOK'
  BY <1>11 DEF EndCall, NoCall, CallState, Requests
<1>12. ASSUME NEW t \in Target, ScaleEnvironment(t) PROVE ScaleTypeOK'
  <2>1. CASE Autoscale(t)
    BY <2>1 DEF Autoscale, HPA
  <2>2. CASE ReportStatus(t)
    <3>1. observed[t] \in Int
      BY <2>2 DEF ReportStatus
    <3>2. [hpa[t] EXCEPT !.current = observed[t]] \in HPA
      BY <3>1 DEF HPA
    <3>3. hpa' \in [Target -> HPA]
      BY <2>2, <3>2 DEF ReportStatus
    <3> QED  BY <2>2, <3>3 DEF ReportStatus
  <2>3. CASE UserScales(t)
    <3>1. PICK n \in Size : workload' = [workload EXCEPT ![t] = n]
      BY <2>3 DEF UserScales
    <3>2. n \in Int
      OBVIOUS
    <3>3. workload' \in [Target -> Int]
      BY <3>1, <3>2
    <3> QED  BY <2>3, <3>3 DEF UserScales, Disrupt
  <2>4. CASE UserEditsHPA(t)
    <3>1. PICK min \in Size, max \in Size :
            hpa' = [hpa EXCEPT ![t] = [hpa[t] EXCEPT !.min = min, !.max = max]]
      BY <2>4 DEF UserEditsHPA
    <3>2. hpa[t] \in HPA /\ min \in Int /\ max \in Int
      OBVIOUS
    <3>3. [hpa[t] EXCEPT !.min = min, !.max = max] \in HPA
      BY <3>2 DEF HPA
    <3>4. hpa' \in [Target -> HPA]
      BY <3>1, <3>3
    <3> QED  BY <2>4, <3>4 DEF UserEditsHPA, Disrupt
  <2> QED  BY <1>12, <2>1, <2>2, <2>3, <2>4 DEF ScaleEnvironment
<1>13. CASE FaultElsewhere
  BY <1>13 DEF FaultElsewhere, Disrupt
<1>14. CASE UNCHANGED scaleVars
  BY <1>14 DEF scaleVars
<1>15. ASSUME NEW c \in Controller, Return(c) \/ CallerDies(c) PROVE ScaleTypeOK'
  BY <1>11, <1>15 DEF Return, CallerDies, Disrupt
<1> QED
  BY <1>1, <1>2, <1>5, <1>6, <1>7, <1>8, <1>9, <1>10, <1>12, <1>13, <1>14, <1>15
     DEF ScaleNext, CallStep

(* The state keeps its type: a call in progress has a target, and a call *)
(* that is to update an HPA has one in hand.                             *)
THEOREM ScaleTypeCorrect == ScaleSpec => []ScaleTypeOK
BY ScaleInitTypeOK, ScaleTypeOKStep, PTL DEF ScaleSpec

-----------------------------------------------------------------------------
(***************************************************************************)
(* The inductive invariant.  What the properties rest on is HeldIsCurrent: *)
(* as long as nobody has written the HPA since a process read it, the copy *)
(* the process is about to send is the edit of what the server has now.    *)
(***************************************************************************)
HeldIsCurrent ==
  \A c \in Controller :
    call[c].pc = "updateHPA" /\ c \in hpaHeld[call[c].ref.name]
      => call[c].hpa = Adjusted(hpa[call[c].ref.name], call[c].targeSize)

BoundsValid == \A t \in Target : ValidHPA(hpa[t])

KindMatches ==
  \A c \in Controller :
    call[c].pc \in {"getHPA", "updateHPA"} => call[c].ref.kind = HPAKind

ScaleIInv ==
  /\ ScaleTypeOK
  /\ HeldIsCurrent
  /\ BoundsValid
  /\ KindMatches
  /\ EditIsValid
  /\ RaisedBoundHolds

LEMMA AdjustedAdmits ==
  ASSUME NEW h \in HPA, NEW n \in Int
  PROVE  /\ Adjusted(h, n).min <= n /\ n <= Adjusted(h, n).max
         /\ h.max <= Adjusted(h, n).max
         /\ Adjusted(h, n).current = h.current
         /\ ValidHPA(h) /\ n >= 1 => ValidHPA(Adjusted(h, n))
BY DEF Adjusted, HPA, ValidHPA

LEMMA ScaleInitIInv == ScaleInit => ScaleIInv
<1> SUFFICES ASSUME ScaleInit PROVE ScaleIInv
  OBVIOUS
<1>1. ScaleTypeOK
  BY ScaleInitTypeOK
<1>2. \A c \in Controller : call[c].pc = "none"
  BY DEF ScaleInit, NoCall
<1>3. BoundsValid
  BY DEF ScaleInit, BoundsValid
<1> QED
  BY <1>1, <1>2, <1>3
     DEF ScaleIInv, HeldIsCurrent, KindMatches, EditIsValid, RaisedBoundHolds, ViaHPA

(* A step that leaves the HPAs alone and starts no request on one keeps    *)
(* the invariant.                                                          *)
LEMMA OtherStep ==
  ASSUME ScaleIInv, ScaleTypeOK', hpa' = hpa,
         \A t \in Target : hpaHeld'[t] \subseteq hpaHeld[t],
         disruptions' >= disruptions,
         \A c \in Controller :
           \/ call'[c] = call[c]
           \/ call'[c].pc \in {"none", "ok", "err"}
           \/ /\ call'[c].ref = call[c].ref /\ call'[c].targeSize = call[c].targeSize
              /\ call[c].pc = "getScale" /\ call'[c].pc = "updateScale"
           \/ call'[c].pc = "getHPA" /\ call'[c].ref.kind = HPAKind
           \/ call'[c].pc = "getScale" /\ call'[c].ref.kind # HPAKind
  PROVE  ScaleIInv'
<1> USE DEF ScaleIInv
<1>0. \A c \in Controller : call'[c].pc # "none" => call'[c].ref.name \in Target
  BY DEF ScaleTypeOK, Ref
<1>1. HeldIsCurrent'
  BY <1>0 DEF HeldIsCurrent
<1>2. BoundsValid'
  BY DEF BoundsValid
<1>3. KindMatches'
  BY DEF KindMatches
<1>4. EditIsValid'
  BY DEF EditIsValid
<1>5. RaisedBoundHolds'
  BY DEF RaisedBoundHolds, ViaHPA, ScaleTypeOK
<1> QED  BY <1>1, <1>2, <1>3, <1>4, <1>5

LEMMA GetHPAStep ==
  ASSUME ScaleIInv, ScaleTypeOK', NEW c \in Controller, GetHPA(c)
  PROVE  ScaleIInv'
<1> DEFINE t == call[c].ref.name
           n == call[c].targeSize
<1> USE DEF ScaleIInv
<1>1. t \in Target /\ n \in Int /\ hpa[t] \in HPA
  BY DEF GetHPA, ScaleTypeOK, CallState, Ref
<1>2. /\ hpa' = hpa /\ disruptions' = disruptions
      /\ \A d \in Controller : \A u \in Target :
           d # c => (d \in hpaHeld'[u] <=> d \in hpaHeld[u])
      /\ \A d \in Controller : d # c => call'[d] = call[d]
      /\ call'[c].ref = call[c].ref /\ call'[c].targeSize = n
      /\ call'[c].hpa = Adjusted(hpa[t], n)
      /\ call'[c].pc \in {"updateHPA", "ok"}
      /\ call[c].pc = "getHPA"
  <2>1. /\ hpa' = hpa /\ disruptions' = disruptions /\ call[c].pc = "getHPA"
        /\ hpaHeld' = [hpaHeld EXCEPT ![t] = @ \cup {c}]
        /\ call' = [call EXCEPT ![c].hpa = Adjusted(hpa[t], n),
                               ![c].pc  = IF NeedUpdate(hpa[t], n)
                                          THEN "updateHPA" ELSE "ok"]
    BY DEF GetHPA
  <2>2. hpaHeld \in [Target -> SUBSET Controller] /\ call \in [Controller -> CallState]
    BY DEF ScaleTypeOK
  <2>3. \A d \in Controller : \A u \in Target :
          d # c => (d \in hpaHeld'[u] <=> d \in hpaHeld[u])
    BY <2>1, <2>2
  <2>4. /\ \A d \in Controller : d # c => call'[d] = call[d]
        /\ call'[c].ref = call[c].ref /\ call'[c].targeSize = n
        /\ call'[c].hpa = Adjusted(hpa[t], n)
        /\ call'[c].pc \in {"updateHPA", "ok"}
    BY <2>1, <2>2 DEF CallState
  <2> QED  BY <2>1, <2>3, <2>4
<1>3. HeldIsCurrent'
  <2> SUFFICES ASSUME NEW d \in Controller, call'[d].pc = "updateHPA",
                      d \in hpaHeld'[call'[d].ref.name]
               PROVE  call'[d].hpa = Adjusted(hpa'[call'[d].ref.name], call'[d].targeSize)
    BY DEF HeldIsCurrent
  <2>1. CASE d = c
    BY <1>2, <2>1
  <2>2. CASE d # c
    BY <1>2, <2>2 DEF HeldIsCurrent, ScaleTypeOK, Ref
  <2> QED  BY <2>1, <2>2
<1>4. BoundsValid'
  BY <1>2 DEF BoundsValid
<1>5. KindMatches'
  BY <1>2 DEF KindMatches
<1>6. EditIsValid'
  <2>1. n >= 1 => ValidHPA(Adjusted(hpa[t], n))
    BY <1>1, AdjustedAdmits DEF BoundsValid
  <2> QED  BY <1>2, <2>1 DEF EditIsValid
<1>7. RaisedBoundHolds'
  BY <1>2 DEF RaisedBoundHolds, ViaHPA
<1> QED  BY <1>3, <1>4, <1>5, <1>6, <1>7

(* The server stores the edit of one process; another's copy goes stale.   *)
LEMMA StoreHPAStep ==
  ASSUME ScaleIInv, ScaleTypeOK', NEW c \in Controller, StoreHPA(c),
         UpdateHPA(c) \/ AnswerLost(c)
  PROVE  ScaleIInv'
<1> DEFINE t == call[c].ref.name
           n == call[c].targeSize
<1> USE DEF ScaleIInv
<1>1. t \in Target /\ n \in Int /\ hpa[t] \in HPA /\ c \in hpaHeld[t]
  BY DEF StoreHPA, UpToDate, ScaleTypeOK, CallState, Ref
<1>2. call[c].hpa = Adjusted(hpa[t], n) /\ call[c].pc = "updateHPA"
  BY <1>1 DEF HeldIsCurrent, StoreHPA
<1>3. /\ \A u \in Target : u # t => hpa'[u] = hpa[u] /\ hpaHeld'[u] = hpaHeld[u]
      /\ hpa'[t] = Adjusted(hpa[t], n)
      /\ hpa'[t] = hpa[t] \/ hpaHeld'[t] = {}
      /\ hpaHeld'[t] \subseteq hpaHeld[t]
      /\ ValidHPA(hpa'[t])
  BY <1>1, <1>2 DEF StoreHPA, ScaleTypeOK
<1>4. /\ \A d \in Controller : d # c => call'[d] = call[d]
      /\ call'[c].pc \in {"getScale", "ok", "err"}
      /\ call'[c].ref = call[c].ref /\ call'[c].targeSize = n
      /\ disruptions' >= disruptions
  BY DEF UpdateHPA, AnswerLost, ScaleTypeOK, CallState, Disrupt
<1>5. HeldIsCurrent'
  <2> SUFFICES ASSUME NEW d \in Controller, call'[d].pc = "updateHPA",
                      d \in hpaHeld'[call'[d].ref.name]
               PROVE  call'[d].hpa = Adjusted(hpa'[call'[d].ref.name], call'[d].targeSize)
    BY DEF HeldIsCurrent
  <2>1. d # c /\ call'[d] = call[d]
    BY <1>4
  <2>2. call[d].ref.name \in Target
    BY <2>1 DEF ScaleTypeOK, Ref
  <2> QED  BY <1>3, <2>1, <2>2 DEF HeldIsCurrent
<1>6. BoundsValid'
  BY <1>3 DEF BoundsValid
<1>7. KindMatches'
  BY <1>4 DEF KindMatches
<1>8. EditIsValid'
  BY <1>4 DEF EditIsValid
<1>9. RaisedBoundHolds'
  <2>1. n <= hpa'[t].max /\ \A u \in Target : hpa[u].max <= hpa'[u].max
    <3>1. n <= Adjusted(hpa[t], n).max /\ hpa[t].max <= Adjusted(hpa[t], n).max
      BY <1>1, AdjustedAdmits
    <3>2. \A u \in Target : hpa[u].max \in Int
      BY DEF ScaleTypeOK, HPA
    <3> QED  BY <1>3, <3>1, <3>2
  <2> SUFFICES ASSUME NEW d \in Controller, ViaHPA(d)',
                      call'[d].pc \in {"getScale", "updateScale"}, disruptions' = 0
               PROVE  call'[d].targeSize <= hpa'[call'[d].ref.name].max
    BY DEF RaisedBoundHolds
  <2>2. CASE d = c
    BY <1>4, <2>1, <2>2
  <2>3. CASE d # c
    <3>1. call'[d] = call[d] /\ disruptions = 0 /\ ViaHPA(d)
      BY <1>4, <2>3 DEF ScaleTypeOK, ViaHPA
    <3>2. call[d].targeSize <= hpa[call[d].ref.name].max
      BY <3>1 DEF RaisedBoundHolds
    <3>3. call[d].ref.name \in Target /\ call[d].targeSize \in Int
      BY <3>1 DEF ScaleTypeOK, ViaHPA, Ref, CallState
    <3>4. hpa[call[d].ref.name].max \in Int /\ hpa'[call[d].ref.name].max \in Int
      BY <3>3 DEF ScaleTypeOK, HPA
    <3> QED  BY <2>1, <3>1, <3>2, <3>3, <3>4
  <2> QED  BY <2>2, <2>3
<1> QED  BY <1>5, <1>6, <1>7, <1>8, <1>9

(* The autoscaler reports, or a user sets, another size or other bounds.   *)
LEMMA ForeignStep ==
  ASSUME ScaleIInv, ScaleTypeOK', NEW t \in Target, ReportStatus(t) \/ UserEditsHPA(t)
  PROVE  ScaleIInv'
<1> USE DEF ScaleIInv
<1>1. /\ call' = call /\ disruptions' >= disruptions
      /\ \A u \in Target : u # t => hpa'[u] = hpa[u] /\ hpaHeld'[u] = hpaHeld[u]
      /\ hpaHeld'[t] = {} \/ (hpa'[t] = hpa[t] /\ hpaHeld'[t] = hpaHeld[t])
      /\ ValidHPA(hpa'[t])
      /\ disruptions' = disruptions => hpa'[t].max = hpa[t].max
  <2>1. CASE ReportStatus(t)
    <3>1. hpa[t] \in HPA /\ hpa' = [hpa EXCEPT ![t].current = observed[t]]
      BY <2>1 DEF ReportStatus, ScaleTypeOK
    <3>2. /\ \A u \in Target : u # t => hpa'[u] = hpa[u]
          /\ hpa'[t] = [hpa[t] EXCEPT !.current = observed[t]]
      BY <3>1 DEF ScaleTypeOK
    <3>3. observed[t] = hpa[t].current => hpa'[t] = hpa[t]
      BY <3>1, <3>2 DEF HPA
    <3>4. hpa'[t].min = hpa[t].min /\ hpa'[t].max = hpa[t].max
      BY <3>1, <3>2 DEF HPA
    <3>5. ValidHPA(hpa'[t])
      BY <3>4 DEF ValidHPA, BoundsValid
    <3>6. call' = call /\ disruptions' = disruptions
      BY <2>1 DEF ReportStatus
    <3>7. /\ \A u \in Target : u # t => hpaHeld'[u] = hpaHeld[u]
          /\ hpaHeld'[t] = IF observed[t] = hpa[t].current THEN hpaHeld[t] ELSE {}
      BY <2>1 DEF ReportStatus, ScaleTypeOK
    <3> QED  BY <3>2, <3>3, <3>4, <3>5, <3>6, <3>7 DEF ScaleTypeOK
  <2>2. CASE UserEditsHPA(t)
    <3>1. PICK min \in Size, max \in Size :
            LET h == [hpa[t] EXCEPT !.min = min, !.max = max]
            IN  ValidHPA(h) /\ hpa' = [hpa EXCEPT ![t] = h]
      BY <2>2 DEF UserEditsHPA
    <3>2. ValidHPA(hpa'[t]) /\ \A u \in Target : u # t => hpa'[u] = hpa[u]
      BY <3>1 DEF ScaleTypeOK
    <3>3. call' = call /\ disruptions' = disruptions + 1 /\ disruptions \in Nat
      BY <2>2 DEF UserEditsHPA, Disrupt, ScaleTypeOK
    <3>4. hpaHeld'[t] = {} /\ \A u \in Target : u # t => hpaHeld'[u] = hpaHeld[u]
      BY <2>2 DEF UserEditsHPA, ScaleTypeOK
    <3> QED  BY <3>2, <3>3, <3>4
  <2> QED  BY <2>1, <2>2
<1>2. HeldIsCurrent'
  <2> SUFFICES ASSUME NEW d \in Controller, call[d].pc = "updateHPA",
                      d \in hpaHeld'[call[d].ref.name]
               PROVE  call[d].hpa = Adjusted(hpa'[call[d].ref.name], call[d].targeSize)
    BY <1>1 DEF HeldIsCurrent
  <2>1. call[d].ref.name \in Target
    BY DEF ScaleTypeOK, Ref
  <2> QED  BY <1>1, <2>1 DEF HeldIsCurrent
<1>3. BoundsValid'
  BY <1>1 DEF BoundsValid
<1>4. KindMatches' /\ EditIsValid'
  BY <1>1 DEF KindMatches, EditIsValid
<1>5. RaisedBoundHolds'
  <2> SUFFICES ASSUME NEW d \in Controller, ViaHPA(d), disruptions' = 0,
                      call[d].pc \in {"getScale", "updateScale"}
               PROVE  call[d].targeSize <= hpa'[call[d].ref.name].max
    BY <1>1 DEF RaisedBoundHolds, ViaHPA
  <2>1. disruptions' = disruptions /\ disruptions = 0
    BY <1>1 DEF ScaleTypeOK
  <2>2. call[d].ref.name \in Target
    BY DEF ViaHPA, ScaleTypeOK, Ref
  <2> QED  BY <1>1, <2>1, <2>2 DEF RaisedBoundHolds
<1> QED  BY <1>2, <1>3, <1>4, <1>5

LEMMA ScaleIInvStep == ScaleIInv /\ [ScaleNext]_scaleVars => ScaleIInv'
<1> SUFFICES ASSUME ScaleIInv, [ScaleNext]_scaleVars PROVE ScaleIInv'
  OBVIOUS
<1>0. ScaleTypeOK /\ ScaleTypeOK'
  BY ScaleTypeOKStep DEF ScaleIInv
<1>1. ASSUME NEW c \in Controller, NEW ref \in Ref, NEW n \in TargeSizes,
             updateScaleTargetRef(c, ref, n)
      PROVE  ScaleIInv'
  <2>1. /\ hpa' = hpa /\ hpaHeld' = hpaHeld /\ disruptions' = disruptions
        /\ \A d \in Controller : d # c => call'[d] = call[d]
        /\ call'[c].ref = ref
        /\ call'[c].pc = IF ref.kind = HPAKind THEN "getHPA" ELSE "getScale"
        /\ call[c].pc = "none"
    BY <1>0, <1>1 DEF updateScaleTargetRef, NoCall, ScaleTypeOK
  <2>2. disruptions' >= disruptions
    BY <1>0, <2>1 DEF ScaleTypeOK
  <2> QED  BY <1>0, <2>1, <2>2, OtherStep
<1>2. ASSUME NEW c \in Controller, GetHPA(c) PROVE ScaleIInv'
  BY <1>0, <1>2, GetHPAStep
<1>3. ASSUME NEW c \in Controller, UpdateHPA(c) PROVE ScaleIInv'
  BY <1>0, <1>3, StoreHPAStep DEF UpdateHPA
<1>4. ASSUME NEW c \in Controller,
             GetScale(c) \/ UpdateScale(c) \/ RequestRefused(c) \/ RequestLost(c)
               \/ (StoreScale(c) /\ AnswerLost(c))
      PROVE  ScaleIInv'
  <2>1. hpa' = hpa /\ hpaHeld' = hpaHeld
    BY <1>4 DEF GetScale, UpdateScale, StoreScale, RequestRefused, RequestLost
  <2>2. disruptions' >= disruptions
    BY <1>0, <1>4 DEF GetScale, UpdateScale, StoreScale, RequestRefused, RequestLost,
                      AnswerLost, Disrupt, ScaleTypeOK
  <2>3. \A d \in Controller : d # c => call'[d] = call[d]
    BY <1>0, <1>4 DEF GetScale, UpdateScale, StoreScale, RequestRefused, RequestLost,
                      AnswerLost, ScaleTypeOK
  <2>4. \/ call'[c].pc \in {"ok", "err"}
        \/ /\ call'[c].ref = call[c].ref /\ call'[c].targeSize = call[c].targeSize
           /\ call[c].pc = "getScale" /\ call'[c].pc = "updateScale"
    BY <1>0, <1>4 DEF GetScale, UpdateScale, StoreScale, RequestRefused, RequestLost,
                      AnswerLost, ScaleTypeOK, CallState
  <2> QED  BY <1>0, <2>1, <2>2, <2>3, <2>4, OtherStep
<1>5. ASSUME NEW c \in Controller, AnswerLost(c) PROVE ScaleIInv'
  BY <1>0, <1>4, <1>5, StoreHPAStep DEF AnswerLost
<1>6. ASSUME NEW c \in Controller, Return(c) \/ CallerDies(c) PROVE ScaleIInv'
  <2>1. EndCall(c) /\ disruptions' >= disruptions
    BY <1>0, <1>6 DEF Return, CallerDies, Disrupt, ScaleTypeOK
  <2>2. /\ hpa' = hpa
        /\ \A t \in Target : hpaHeld'[t] \subseteq hpaHeld[t]
        /\ call'[c].pc = "none"
        /\ \A d \in Controller : d # c => call'[d] = call[d]
    BY <1>0, <2>1 DEF EndCall, NoCall, ScaleTypeOK
  <2> QED  BY <1>0, <2>1, <2>2, OtherStep
<1>7. CASE FaultElsewhere
  <2>1. hpa' = hpa /\ hpaHeld' = hpaHeld /\ call' = call /\ disruptions' >= disruptions
    BY <1>0, <1>7 DEF FaultElsewhere, Disrupt, ScaleTypeOK
  <2> QED  BY <1>0, <2>1, OtherStep
<1>8. ASSUME NEW t \in Target, Autoscale(t) \/ UserScales(t) PROVE ScaleIInv'
  <2>1. hpa' = hpa /\ hpaHeld' = hpaHeld /\ call' = call /\ disruptions' >= disruptions
    BY <1>0, <1>8 DEF Autoscale, UserScales, Disrupt, ScaleTypeOK
  <2> QED  BY <1>0, <2>1, OtherStep
<1>9. ASSUME NEW t \in Target, ReportStatus(t) \/ UserEditsHPA(t) PROVE ScaleIInv'
  BY <1>0, <1>9, ForeignStep
<1>10. CASE UNCHANGED scaleVars
  <2>1. hpa' = hpa /\ hpaHeld' = hpaHeld /\ call' = call /\ disruptions' >= disruptions
    BY <1>0, <1>10 DEF scaleVars, ScaleTypeOK
  <2> QED  BY <1>0, <2>1, OtherStep
<1> QED
  BY <1>1, <1>2, <1>3, <1>4, <1>5, <1>6, <1>7, <1>8, <1>9, <1>10
     DEF ScaleNext, CallStep, ScaleEnvironment

LEMMA ScaleIInvHolds == ScaleSpec => []ScaleIInv
BY ScaleInitIInv, ScaleIInvStep, PTL DEF ScaleSpec

(***************************************************************************)
(* An update of an HPA with a target of at least one is never one the      *)
(* server would refuse for its bounds.                                     *)
(***************************************************************************)
THEOREM EditsAreValid == ScaleSpec => []EditIsValid
BY ScaleIInvHolds, PTL DEF ScaleIInv

(***************************************************************************)
(* As long as no user has written and no fault has happened, the maximum   *)
(* of an HPA is at or above the size a call is about to write, whatever    *)
(* other controllers call for.                                             *)
(***************************************************************************)
THEOREM RaisedBoundsHold == ScaleSpec => []RaisedBoundHolds
BY ScaleIInvHolds, PTL DEF ScaleIInv

(* The call of a process changes only by its own steps. *)
LEMMA OwnStep ==
  ASSUME ScaleTypeOK, [ScaleNext]_scaleVars, NEW c \in Controller, call'[c] # call[c]
  PROVE  \/ \E ref \in Ref, n \in TargeSizes : updateScaleTargetRef(c, ref, n)
         \/ CallStep(c)
         \/ Return(c)
         \/ CallerDies(c)
<1> USE DEF ScaleTypeOK
<1>1. ASSUME NEW d \in Controller, NEW ref \in Ref, NEW n \in TargeSizes,
             updateScaleTargetRef(d, ref, n)
      PROVE  d = c
  BY <1>1 DEF updateScaleTargetRef
<1>2. ASSUME NEW d \in Controller, CallStep(d) PROVE d = c
  BY <1>2 DEF CallStep, GetHPA, UpdateHPA, GetScale, UpdateScale, RequestRefused,
     RequestLost, AnswerLost
<1>3. ASSUME NEW d \in Controller, Return(d) \/ CallerDies(d) PROVE d = c
  BY <1>3 DEF Return, CallerDies, EndCall
<1>4. ASSUME \/ FaultElsewhere
             \/ \E t \in Target : ScaleEnvironment(t)
             \/ UNCHANGED scaleVars
      PROVE  FALSE
  BY <1>4 DEF FaultElsewhere, ScaleEnvironment, Autoscale, ReportStatus, UserScales,
     UserEditsHPA, scaleVars
<1> QED  BY <1>1, <1>2, <1>3, <1>4 DEF ScaleNext

LEMMA BelowOneStep ==
  ScaleIInv /\ BelowOneIsRefused /\ [ScaleNext]_scaleVars => BelowOneIsRefused'
<1> SUFFICES ASSUME ScaleIInv, BelowOneIsRefused, [ScaleNext]_scaleVars,
                    NEW c \in Controller, ViaHPA(c)', call'[c].targeSize < 1
             PROVE  call'[c].pc \in {"getHPA", "updateHPA", "err"}
  BY DEF BelowOneIsRefused
<1> DEFINE t == call[c].ref.name
           n == call[c].targeSize
<1>0. ScaleTypeOK
  BY DEF ScaleIInv
<1>1. CASE call'[c] = call[c]
  BY <1>1 DEF BelowOneIsRefused, ViaHPA
<1>2. ASSUME NEW ref \in Ref, NEW m \in TargeSizes, updateScaleTargetRef(c, ref, m)
      PROVE  call'[c].pc = "getHPA"
  <2>1. /\ call'[c].ref = ref
        /\ call'[c].pc = IF ref.kind = HPAKind THEN "getHPA" ELSE "getScale"
    BY <1>0, <1>2 DEF updateScaleTargetRef, NoCall, ScaleTypeOK
  <2> QED  BY <2>1 DEF ViaHPA
<1>3. ASSUME call[c].pc \in Requests
      PROVE  t \in Target /\ n \in Int /\ hpa[t] \in HPA /\ hpa[t].min >= 1
  BY <1>0, <1>3 DEF ScaleTypeOK, CallState, Ref, Requests, ScaleIInv, BoundsValid, ValidHPA
<1>4. CASE GetHPA(c)
  <2>1. call'[c].targeSize = n /\ call[c].pc \in Requests
    BY <1>0, <1>4 DEF GetHPA, ScaleTypeOK, CallState, Requests
  <2>2. NeedUpdate(hpa[t], n)
    BY <1>3, <2>1 DEF NeedUpdate, HPA
  <2> QED  BY <1>0, <1>4, <2>2 DEF GetHPA, ScaleTypeOK, CallState
<1>5. ~UpdateHPA(c)
  <2> SUFFICES ASSUME UpdateHPA(c) PROVE FALSE
    OBVIOUS
  <2>1. /\ call'[c].targeSize = n /\ call[c].pc = "updateHPA"
        /\ c \in hpaHeld[t] /\ ValidHPA(call[c].hpa)
    BY <1>0 DEF UpdateHPA, StoreHPA, UpToDate, ScaleTypeOK, CallState
  <2>2. call[c].hpa = Adjusted(hpa[t], n)
    BY <2>1 DEF ScaleIInv, HeldIsCurrent
  <2>3. Adjusted(hpa[t], n).min <= n /\ n < 1 /\ n \in Int /\ Adjusted(hpa[t], n) \in HPA
    BY <1>3, <2>1, AdjustedAdmits, AdjustedType DEF Requests
  <2> QED  BY <2>1, <2>2, <2>3 DEF ValidHPA, HPA
<1>6. ~(GetScale(c) \/ UpdateScale(c))
  <2> SUFFICES ASSUME GetScale(c) \/ UpdateScale(c) PROVE FALSE
    OBVIOUS
  <2>1. /\ call[c].pc \in {"getScale", "updateScale"}
        /\ call'[c].ref = call[c].ref /\ call'[c].targeSize = n
    BY <1>0 DEF GetScale, UpdateScale, StoreScale, ScaleTypeOK, CallState
  <2> QED  BY <2>1 DEF ViaHPA, BelowOneIsRefused
<1>7. ASSUME RequestRefused(c) \/ RequestLost(c) \/ AnswerLost(c)
      PROVE  call'[c].pc = "err"
  BY <1>0, <1>7 DEF RequestRefused, RequestLost, AnswerLost, ScaleTypeOK, CallState
<1>8. ~(Return(c) \/ CallerDies(c))
  BY <1>0 DEF Return, CallerDies, EndCall, NoCall, ViaHPA, ScaleTypeOK
<1> QED  BY <1>0, <1>1, <1>2, <1>4, <1>5, <1>6, <1>7, <1>8, OwnStep DEF CallStep

(***************************************************************************)
(* A call through an HPA with a size below one ends in an error, for any   *)
(* bounds, any reported size and any other writers.                        *)
(***************************************************************************)
THEOREM BelowOneFails == ScaleSpec => []BelowOneIsRefused
<1>1. ScaleInit => BelowOneIsRefused
  BY DEF ScaleInit, NoCall, BelowOneIsRefused, ViaHPA
<1> QED  BY <1>1, BelowOneStep, ScaleIInvHolds, PTL DEF ScaleSpec

(***************************************************************************)
(* The write of an HPA that the server accepts undoes nobody's change.     *)
(***************************************************************************)
THEOREM UpdatesAreAtomic == ScaleSpec => UpdateHPAIsAtomic
<1>1. ASSUME ScaleIInv, [ScaleNext]_scaleVars, NEW c \in Controller,
             call[c].pc = "updateHPA", call'[c].pc \notin {"none", "updateHPA"}
      PROVE  LET t == call[c].ref.name
             IN  \/ hpa'[t] = Adjusted(hpa[t], call[c].targeSize)
                 \/ hpa' = hpa /\ call'[c].pc = "err"
  <2>0. ScaleTypeOK
    BY <1>1 DEF ScaleIInv
  <2>1. UpdateHPA(c) \/ RequestRefused(c) \/ RequestLost(c) \/ AnswerLost(c)
    <3>1. \/ \E ref \in Ref, n \in TargeSizes : updateScaleTargetRef(c, ref, n)
          \/ CallStep(c)
          \/ Return(c)
          \/ CallerDies(c)
      BY <1>1, <2>0, OwnStep
    <3>2. ~(Return(c) \/ CallerDies(c))
      BY <1>1, <2>0 DEF Return, CallerDies, EndCall, NoCall, ScaleTypeOK
    <3>3. CallStep(c)
      BY <1>1, <3>1, <3>2 DEF updateScaleTargetRef
    <3> QED  BY <1>1, <3>3 DEF CallStep, GetHPA, GetScale, UpdateScale, StoreScale
  <2>2. ASSUME StoreHPA(c)
        PROVE  hpa'[call[c].ref.name] = Adjusted(hpa[call[c].ref.name], call[c].targeSize)
    <3>1. c \in hpaHeld[call[c].ref.name] /\ call[c].ref.name \in Target
      BY <1>1, <2>0, <2>2 DEF StoreHPA, UpToDate, ScaleTypeOK, Ref
    <3>2. call[c].hpa = Adjusted(hpa[call[c].ref.name], call[c].targeSize)
      BY <1>1, <3>1 DEF ScaleIInv, HeldIsCurrent
    <3> QED  BY <2>0, <2>2, <3>1, <3>2 DEF StoreHPA, ScaleTypeOK
  <2>3. CASE UpdateHPA(c) \/ AnswerLost(c)
    <3>1. StoreHPA(c)
      BY <1>1, <2>3 DEF UpdateHPA, AnswerLost, StoreScale
    <3> QED  BY <2>2, <3>1
  <2>4. CASE RequestRefused(c) \/ RequestLost(c)
    BY <2>0, <2>4 DEF RequestRefused, RequestLost, ScaleTypeOK, CallState
  <2> QED  BY <2>1, <2>3, <2>4
<1>2. ScaleIInv /\ [ScaleNext]_scaleVars =>
        [\A c \in Controller :
           call[c].pc = "updateHPA" /\ call'[c].pc \notin {"none", "updateHPA"}
             => LET t == call[c].ref.name
                IN  \/ hpa'[t] = Adjusted(hpa[t], call[c].targeSize)
                    \/ hpa' = hpa /\ call'[c].pc = "err"]_scaleVars
  BY <1>1
<1> QED  BY <1>2, ScaleIInvHolds, PTL DEF ScaleSpec, UpdateHPAIsAtomic

(* What holds when a call gets its last answer and returns nil. *)
LEMMA OkStep ==
  ASSUME ScaleIInv, [ScaleNext]_scaleVars, NEW c \in Controller,
         call[c].pc # "ok", call'[c].pc = "ok"
  PROVE  LET t == call[c].ref.name
             n == call[c].targeSize
         IN  \/ workload'[t] = n
             \/ /\ call[c].ref.kind = HPAKind
                /\ hpa'[t].min <= n /\ n <= hpa'[t].max
                /\ n <= hpa'[t].current
<1> DEFINE t == call[c].ref.name
           n == call[c].targeSize
<1>0. ScaleTypeOK
  BY DEF ScaleIInv
<1>1. GetHPA(c) \/ UpdateHPA(c) \/ GetScale(c) \/ UpdateScale(c)
  <2>1. \/ \E ref \in Ref, m \in TargeSizes : updateScaleTargetRef(c, ref, m)
        \/ CallStep(c)
        \/ Return(c)
        \/ CallerDies(c)
    BY <1>0, OwnStep
  <2>2. ~(Return(c) \/ CallerDies(c))
    BY <1>0 DEF Return, CallerDies, EndCall, NoCall, ScaleTypeOK
  <2>3. ASSUME NEW ref \in Ref, NEW m \in TargeSizes, updateScaleTargetRef(c, ref, m)
        PROVE  FALSE
    BY <1>0, <2>3 DEF updateScaleTargetRef, NoCall, ScaleTypeOK
  <2>4. ~(RequestRefused(c) \/ RequestLost(c) \/ AnswerLost(c))
    BY <1>0 DEF RequestRefused, RequestLost, AnswerLost, ScaleTypeOK, CallState
  <2> QED  BY <2>1, <2>2, <2>3, <2>4 DEF CallStep
<1>2. n \in Int
  BY <1>0 DEF ScaleTypeOK, CallState
<1>3. call[c].pc \in Requests => t \in Target
  BY <1>0 DEF ScaleTypeOK, Ref, Requests
<1>4. CASE GetHPA(c)
  <2>1. call[c].pc = "getHPA" /\ hpa' = hpa /\ hpa[t] \in HPA
    BY <1>0, <1>3, <1>4 DEF GetHPA, ScaleTypeOK, Requests
  <2>2. ~NeedUpdate(hpa[t], n)
    BY <1>0, <1>4 DEF GetHPA, ScaleTypeOK, CallState
  <2>3. call[c].ref.kind = HPAKind
    BY <2>1 DEF ScaleIInv, KindMatches
  <2> QED  BY <1>2, <2>1, <2>2, <2>3 DEF NeedUpdate, HPA
<1>5. CASE UpdateHPA(c)
  <2>1. call[c].pc = "updateHPA" /\ t \in Target /\ c \in hpaHeld[t]
    BY <1>3, <1>5 DEF UpdateHPA, StoreHPA, UpToDate, Requests
  <2>2. call[c].hpa = Adjusted(hpa[t], n) /\ hpa[t] \in HPA
    BY <1>0, <2>1 DEF ScaleIInv, HeldIsCurrent, ScaleTypeOK
  <2>3. hpa'[t] = Adjusted(hpa[t], n)
    BY <1>0, <1>5, <2>1, <2>2 DEF UpdateHPA, StoreHPA, ScaleTypeOK
  <2>4. ~(n > call[c].hpa.current)
    BY <1>0, <1>5 DEF UpdateHPA, ScaleTypeOK, CallState
  <2>5. call[c].ref.kind = HPAKind
    BY <2>1 DEF ScaleIInv, KindMatches
  <2>6. hpa'[t].min <= n /\ n <= hpa'[t].max
    BY <1>2, <2>2, <2>3, AdjustedAdmits
  <2>7. n <= hpa'[t].current
    BY <1>2, <2>2, <2>3, <2>4, AdjustedAdmits DEF HPA
  <2> QED  BY <2>5, <2>6, <2>7
<1>6. CASE GetScale(c)
  <2>1. workload[t] = n /\ workload' = workload
    BY <1>0, <1>6 DEF GetScale, ScaleTypeOK, CallState
  <2> QED  BY <2>1
<1>7. CASE UpdateScale(c)
  <2>1. workload' = [workload EXCEPT ![t] = n] /\ t \in Target
    BY <1>3, <1>7 DEF UpdateScale, StoreScale, Requests
  <2> QED  BY <1>0, <2>1 DEF ScaleTypeOK
<1> QED  BY <1>1, <1>4, <1>5, <1>6, <1>7

(***************************************************************************)
(* A call that returns nil has had its effect.                             *)
(***************************************************************************)
THEOREM OkIsApplied == ScaleSpec => OkMeansApplied
<1>1. ScaleIInv /\ [ScaleNext]_scaleVars =>
        [\A c \in Controller :
           call[c].pc # "ok" /\ call'[c].pc = "ok"
             => LET t == call[c].ref.name
                    n == call[c].targeSize
                IN  \/ workload'[t] = n
                    \/ /\ call[c].ref.kind = HPAKind
                       /\ hpa'[t].min <= n /\ n <= hpa'[t].max
                       /\ n <= hpa'[t].current]_scaleVars
  BY OkStep
<1> QED  BY <1>1, ScaleIInvHolds, PTL DEF ScaleSpec, OkMeansApplied
=============================================================================
