----------------------------- MODULE ScaleTarget -----------------------------
(***************************************************************************)
(* How one scaling is carried out: updateScaleTargetRef and the functions  *)
(* it calls (updateHPAIfNeed, tryToScale, scaleForResourceMappings) in     *)
(* pkg/controller/cronhpa_controller.go, one step per API request, against *)
(* the HorizontalPodAutoscaler and /scale objects of the API server.       *)
(*                                                                         *)
(* Other writers act between any two requests: another controller process, *)
(* the cluster's own autoscaler, a user.  An update carries the resource   *)
(* version its object was read with, and the server refuses it when the    *)
(* object has been written since.  Only equality of versions matters, so   *)
(* the model keeps, for each object, the set of processes whose last read  *)
(* is still current, in place of a version number.                         *)
(***************************************************************************)
EXTENDS Integers

CONSTANTS
  Controller,     \* controller processes
  Target,         \* names: HPA t scales workload t
  Autoscaled,     \* targets whose HPA exists
  Deployed,       \* targets whose workload exists and is mapped to a resource
  Size,           \* replica counts the environment may choose
  TargeSizes,     \* values of targetSize in the specs
  MaxDisruptions, \* how many faults and foreign writes a behaviour contains
  Nil

ASSUME ScaleTargetAssumption ==
  /\ Autoscaled \subseteq Target
  /\ Deployed \subseteq Target
  /\ Size \subseteq Nat
  /\ TargeSizes \subseteq Int
  /\ MaxDisruptions \in Nat
  /\ Nil \notin Int
  /\ Nil \notin [min : Int, max : Int, current : Int]

VARIABLES
  workload,    \* replicas in the spec of each workload
  scaleHeld,   \* processes whose last read of the /scale object is current
  hpa,         \* each HPA: spec.minReplicas, spec.maxReplicas, status.currentReplicas
  hpaHeld,     \* processes whose last read of the HPA is current
  observed,    \* replicas the autoscaler saw and has yet to report, or Nil
  call,        \* the call of updateScaleTargetRef each process is in
  disruptions  \* faults and foreign writes so far

scaleVars == <<workload, scaleHeld, hpa, hpaHeld, observed, call, disruptions>>

HPAKind == "HorizontalPodAutoscaler"

(* ScaleTargetRef: every kind other than HPAKind takes the direct path. *)
Ref == [kind : {HPAKind, "Deployment"}, name : Target]

HPA == [min : Int, max : Int, current : Int]

(* What the API server accepts as the spec of an HPA. *)
ValidHPA(h) == 1 <= h.min /\ h.min <= h.max

(***************************************************************************)
(* A call is "none", about to send one of four requests, or finished with  *)
(* "ok" (nil) or "err".  hpa is the local copy of the HPA object.          *)
(***************************************************************************)
Requests == {"getHPA", "updateHPA", "getScale", "updateScale"}

NoCall == [pc |-> "none", ref |-> Nil, targeSize |-> 0, hpa |-> Nil]

CallState == [pc : Requests \cup {"none", "ok", "err"}, ref : Ref \cup {Nil},
              targeSize : Int, hpa : HPA \cup {Nil}]

ScaleTypeOK ==
  /\ workload \in [Target -> Int]
  /\ scaleHeld \in [Target -> SUBSET Controller]
  /\ hpa \in [Target -> HPA]
  /\ hpaHeld \in [Target -> SUBSET Controller]
  /\ observed \in [Target -> Int \cup {Nil}]
  /\ call \in [Controller -> CallState]
  /\ \A c \in Controller : (call[c].pc # "none") => (call[c].ref \in Ref)
  /\ \A c \in Controller : (call[c].pc = "updateHPA") => (call[c].hpa \in HPA)
  /\ disruptions \in Nat

ScaleInit ==
  /\ workload \in [Target -> Size]
  /\ hpa \in {h \in [Target -> [min : Size, max : Size, current : Size]] :
                \A t \in Target : /\ ValidHPA(h[t])
                                  /\ h[t].current = workload[t]}
  /\ scaleHeld = [t \in Target |-> {}]
  /\ hpaHeld = [t \in Target |-> {}]
  /\ observed = [t \in Target |-> Nil]
  /\ call = [c \in Controller |-> NoCall]
  /\ disruptions = 0

Disrupt == disruptions < MaxDisruptions /\ disruptions' = disruptions + 1

-----------------------------------------------------------------------------
(* The call.                                                               *)

\* mutant: the reference is left empty
CallWithoutRef(c, ref, targeSize) ==
  /\ call[c].pc = "none"
  /\ call' = [call EXCEPT ![c] =
       [NoCall EXCEPT !.pc = IF ref.kind = HPAKind THEN "getHPA" ELSE "getScale",
                      !.targeSize = targeSize]]
  /\ UNCHANGED <<workload, scaleHeld, hpa, hpaHeld, observed, disruptions>>

(* updateScaleTargetRef dispatches on the kind of the reference. *)
updateScaleTargetRef(c, ref, targeSize) ==
  /\ call[c].pc = "none"
  /\ call' = [call EXCEPT ![c] =
       [NoCall EXCEPT !.pc = IF ref.kind = HPAKind THEN "getHPA" ELSE "getScale",
                      !.ref = ref, !.targeSize = targeSize]]
  /\ UNCHANGED <<workload, scaleHeld, hpa, hpaHeld, observed, disruptions>>

\* mutant: the update names no resource version
BlindWrite(held, c, t) == TRUE

(* An update is refused unless the object is still the one that was read. *)
UpToDate(held, c, t) == c \in held[t]

\* mutant: only the bounds are compared
NeedUpdateBounds(h, targeSize) == targeSize < h.min \/ targeSize > h.max

(* Does updateHPAIfNeed edit the HPA it has read? *)
NeedUpdate(h, targeSize) ==
  targeSize < h.min \/ targeSize > h.max \/ targeSize > h.current

\* mutant: the maximum is left where it is
AdjustedMinOnly(h, targeSize) ==
  [h EXCEPT !.min = IF targeSize < h.min \/ targeSize > h.current
                    THEN targeSize ELSE @]

(* The HPA with the edits. *)
Adjusted(h, targeSize) ==
  [h EXCEPT !.min = IF targeSize < h.min \/ targeSize > h.current
                    THEN targeSize ELSE @,
            !.max = IF targeSize > h.max THEN targeSize ELSE @]

GetHPA(c) ==
  LET t == call[c].ref.name
  IN  /\ call[c].pc = "getHPA"
      /\ t \in Autoscaled
      /\ call' = [call EXCEPT
           ![c].hpa = Adjusted(hpa[t], call[c].targeSize),
           ![c].pc  = IF NeedUpdate(hpa[t], call[c].targeSize)
                      THEN "updateHPA" ELSE "ok"]
      /\ hpaHeld' = [hpaHeld EXCEPT ![t] = @ \cup {c}]
      /\ UNCHANGED <<workload, scaleHeld, hpa, observed, disruptions>>

(* The server applies the update of the HPA a process has edited.  Writing *)
(* what is already there does not make a new version.                      *)
StoreHPA(c) ==
  LET t == call[c].ref.name
  IN  /\ call[c].pc = "updateHPA"
      /\ UpToDate(hpaHeld, c, t)
      /\ ValidHPA(call[c].hpa)
      /\ hpa' = [hpa EXCEPT ![t] = call[c].hpa]
      /\ hpaHeld' = [hpaHeld EXCEPT ![t] = IF call[c].hpa = hpa[t] THEN @ ELSE {}]
      /\ UNCHANGED <<workload, scaleHeld, observed>>

(* Scaling goes on to the workload when the target is above the replicas   *)
(* the HPA reported in its status.                                         *)
UpdateHPA(c) ==
  /\ StoreHPA(c)
  /\ call' = [call EXCEPT ![c].pc =
       IF call[c].targeSize > call[c].hpa.current THEN "getScale" ELSE "ok"]
  /\ UNCHANGED disruptions

(* tryToScale resolves the reference and reads its scale: any mapping that *)
(* answers will do.  An equal size is left alone.                          *)
GetScale(c) ==
  LET t == call[c].ref.name
  IN  /\ call[c].pc = "getScale"
      /\ t \in Deployed
      /\ call' = [call EXCEPT ![c].pc =
           IF workload[t] # call[c].targeSize THEN "updateScale" ELSE "ok"]
      /\ scaleHeld' = [scaleHeld EXCEPT ![t] = @ \cup {c}]
      /\ UNCHANGED <<workload, hpa, hpaHeld, observed, disruptions>>

(* The server applies the new size; it refuses a negative one. *)
StoreScale(c) ==
  LET t == call[c].ref.name
  IN  /\ call[c].pc = "updateScale"
      /\ UpToDate(scaleHeld, c, t)
      /\ call[c].targeSize >= 0
      /\ workload' = [workload EXCEPT ![t] = call[c].targeSize]
      /\ scaleHeld' = [scaleHeld EXCEPT ![t] = {}]
      /\ UNCHANGED <<hpa, hpaHeld, observed>>

UpdateScale(c) ==
  /\ StoreScale(c)
  /\ call' = [call EXCEPT ![c].pc = "ok"]
  /\ UNCHANGED disruptions

(* The server or the mapper answers the pending request with an error. *)
Refused(c) ==
  LET t == call[c].ref.name
  IN  \/ call[c].pc = "getHPA" /\ t \notin Autoscaled
      \/ call[c].pc = "updateHPA" /\ (~UpToDate(hpaHeld, c, t) \/ ~ValidHPA(call[c].hpa))
      \/ call[c].pc = "getScale" /\ t \notin Deployed
      \/ call[c].pc = "updateScale" /\ (~UpToDate(scaleHeld, c, t) \/ call[c].targeSize < 0)

\* mutant: after a conflict everything is read again
RefusedReadsAgain(c) ==
  /\ call[c].pc \in Requests
  /\ Refused(c)
  /\ call' = [call EXCEPT ![c].pc = IF @ = "updateHPA" THEN "getHPA"
                                    ELSE IF @ = "updateScale" THEN "getScale" ELSE "err"]
  /\ UNCHANGED <<workload, scaleHeld, hpa, hpaHeld, observed, disruptions>>

\* mutant: the refusal of an edited HPA is logged and not returned
RefusalNotReturned(c) ==
  /\ call[c].pc \in Requests
  /\ Refused(c)
  /\ call' = [call EXCEPT ![c].pc = IF @ = "updateHPA" THEN "ok" ELSE "err"]
  /\ UNCHANGED <<workload, scaleHeld, hpa, hpaHeld, observed, disruptions>>

RequestRefused(c) ==
  /\ call[c].pc \in Requests
  /\ Refused(c)
  /\ call' = [call EXCEPT ![c].pc = "err"]
  /\ UNCHANGED <<workload, scaleHeld, hpa, hpaHeld, observed, disruptions>>

(* A request is lost on its way to the server. *)
RequestLost(c) ==
  /\ call[c].pc \in Requests
  /\ Disrupt
  /\ call' = [call EXCEPT ![c].pc = "err"]
  /\ UNCHANGED <<workload, scaleHeld, hpa, hpaHeld, observed>>

(* The server applies an update, but its answer is lost: the process sees  *)
(* an error.                                                               *)
AnswerLost(c) ==
  /\ StoreHPA(c) \/ StoreScale(c)
  /\ Disrupt
  /\ call' = [call EXCEPT ![c].pc = "err"]

(* The caller takes the result, or dies and takes the call with it. *)
EndCall(c) ==
  /\ call' = [call EXCEPT ![c] = NoCall]
  /\ hpaHeld' = [t \in Target |-> hpaHeld[t] \ {c}]
  /\ scaleHeld' = [t \in Target |-> scaleHeld[t] \ {c}]
  /\ UNCHANGED <<workload, hpa, observed>>

Return(c) ==
  /\ call[c].pc \in {"ok", "err"}
  /\ EndCall(c)
  /\ UNCHANGED disruptions

CallerDies(c) ==
  /\ Disrupt
  /\ EndCall(c)

(* A fault that hits the caller and not the call. *)
FaultElsewhere ==
  /\ Disrupt
  /\ UNCHANGED <<workload, scaleHeld, hpa, hpaHeld, observed, call>>

CallStep(c) ==
  \/ GetHPA(c)
  \/ UpdateHPA(c)
  \/ GetScale(c)
  \/ UpdateScale(c)
  \/ RequestRefused(c)
  \/ RequestLost(c)
  \/ AnswerLost(c)

-----------------------------------------------------------------------------
(* The other writers.                                                      *)

(***************************************************************************)
(* One sync of the cluster's autoscaler: it chooses any size within the    *)
(* bounds, writes it, and only then reports in the HPA's status the size   *)
(* it found when it began.                                                 *)
(***************************************************************************)
Autoscale(t) ==
  /\ t \in Autoscaled \cap Deployed
  /\ observed[t] = Nil
  /\ workload[t] > 0
  /\ \E n \in hpa[t].min .. hpa[t].max :
       /\ workload' = [workload EXCEPT ![t] = n]
       /\ scaleHeld' = [scaleHeld EXCEPT ![t] = IF n = workload[t] THEN @ ELSE {}]
  /\ observed' = [observed EXCEPT ![t] = workload[t]]
  /\ UNCHANGED <<hpa, hpaHeld, call, disruptions>>

ReportStatus(t) ==
  /\ observed[t] # Nil
  /\ hpa' = [hpa EXCEPT ![t].current = observed[t]]
  /\ hpaHeld' = [hpaHeld EXCEPT ![t] = IF observed[t] = hpa[t].current THEN @ ELSE {}]
  /\ observed' = [observed EXCEPT ![t] = Nil]
  /\ UNCHANGED <<workload, scaleHeld, call, disruptions>>

(* A user scales the workload, or something else writes the object. *)
UserScales(t) ==
  /\ Disrupt
  /\ t \in Deployed
  /\ \E n \in Size : workload' = [workload EXCEPT ![t] = n]
  /\ scaleHeld' = [scaleHeld EXCEPT ![t] = {}]
  /\ UNCHANGED <<hpa, hpaHeld, observed, call>>

(* A user sets new bounds on the HPA. *)
UserEditsHPA(t) ==
  /\ Disrupt
  /\ t \in Autoscaled
  /\ \E min, max \in Size :
       LET h == [hpa[t] EXCEPT !.min = min, !.max = max]
       IN  ValidHPA(h) /\ hpa' = [hpa EXCEPT ![t] = h]
  /\ hpaHeld' = [hpaHeld EXCEPT ![t] = {}]
  /\ UNCHANGED <<workload, scaleHeld, observed, call>>

ScaleEnvironment(t) == Autoscale(t) \/ ReportStatus(t) \/ UserScales(t) \/ UserEditsHPA(t)

-----------------------------------------------------------------------------
(* The calls on their own: any process may scale any target to any size.   *)

ScaleNext ==
  \/ \E c \in Controller : \/ \E ref \in Ref, n \in TargeSizes :
                                 updateScaleTargetRef(c, ref, n)
                           \/ CallStep(c)
                           \/ Return(c)
                           \/ CallerDies(c)
  \/ FaultElsewhere
  \/ \E t \in Target : ScaleEnvironment(t)

ScaleSpec == ScaleInit /\ [][ScaleNext]_scaleVars

-----------------------------------------------------------------------------
(* Properties.                                                             *)

ViaHPA(c) == call[c].pc # "none" /\ call[c].ref.kind = HPAKind

(***************************************************************************)
(* The edits of updateHPAIfNeed always give an HPA the server accepts when *)
(* the target is at least one: whatever the bounds and the reported size   *)
(* were when it was read, an update can fail only by a conflict or a lost  *)
(* message, never by minReplicas overtaking maxReplicas.                   *)
(***************************************************************************)
EditIsValid ==
  \A c \in Controller :
    call[c].pc = "updateHPA" /\ call[c].targeSize >= 1 => ValidHPA(call[c].hpa)

(***************************************************************************)
(* A targetSize below one makes minReplicas zero, which the server does    *)
(* not accept.  Such a call through an HPA ends in an error, whatever the  *)
(* others write meanwhile: it never returns nil, by which a scaling that   *)
(* did not happen would be recorded, and never comes to the workload.      *)
(***************************************************************************)
BelowOneIsRefused ==
  \A c \in Controller :
    ViaHPA(c) /\ call[c].targeSize < 1 => call[c].pc \in {"getHPA", "updateHPA", "err"}

(***************************************************************************)
(* The read and the write of an HPA are two requests, yet the write that   *)
(* the server accepts changes the HPA as if both had been one: nothing a   *)
(* user, the autoscaler or another controller wrote in between is undone,  *)
(* neither by a write that is answered nor by one whose answer is lost.    *)
(***************************************************************************)
UpdateHPAIsAtomic ==
  [][\A c \in Controller :
       call[c].pc = "updateHPA" /\ call'[c].pc \notin {"none", "updateHPA"}
         => LET t == call[c].ref.name
            IN  \/ hpa'[t] = Adjusted(hpa[t], call[c].targeSize)
                \/ hpa' = hpa /\ call'[c].pc = "err"]_scaleVars

(***************************************************************************)
(* A call that returns nil has had its effect at the moment its last       *)
(* request was answered: the workload has the target size, or, through an  *)
(* HPA, the bounds admit the target and the HPA reports at least as many   *)
(* replicas.  The status of the CronHPA is written on the strength of it.  *)
(***************************************************************************)
OkMeansApplied ==
  [][\A c \in Controller :
       call[c].pc # "ok" /\ call'[c].pc = "ok"
         => LET t == call[c].ref.name
                n == call[c].targeSize
            IN  \/ workload'[t] = n
                \/ /\ call[c].ref.kind = HPAKind
                   /\ hpa'[t].min <= n /\ n <= hpa'[t].max
                   /\ n <= hpa'[t].current]_scaleVars

(***************************************************************************)
(* The bound is raised before the workload is scaled past it, and stays    *)
(* raised: as long as no user has written and no fault has happened, the   *)
(* autoscaler is never left with a maximum below the size a call is about  *)
(* to write, even when two controllers call with different targets at the  *)
(* same time.                                                              *)
(***************************************************************************)
RaisedBoundHolds ==
  \A c \in Controller :
    ViaHPA(c) /\ call[c].pc \in {"getScale", "updateScale"} /\ disruptions = 0
      => call[c].targeSize <= hpa[call[c].ref.name].max

(***************************************************************************)
(* What the comment in updateHPAIfNeed says the last part of it is for:    *)
(* "try to keep the highest replicas".  A call through an HPA would then   *)
(* never take replicas away.  The size it compares with is the one the     *)
(* HPA's status reported, which trails the workload.                       *)
(***************************************************************************)
KeepsHighest ==
  [][\A c \in Controller :
       ViaHPA(c) /\ call[c].pc = "updateScale" /\ call'[c].pc = "ok"
         => LET t == call[c].ref.name IN workload'[t] >= workload[t]]_scaleVars
=============================================================================
