------------------------ MODULE LeaderElectionProofs ------------------------
(***************************************************************************)
(* No two processes run the controller under leader election, for any      *)
(* number of processes, faults and any three durations that leave room for *)
(* the longest delay (Timely).                                             *)
(***************************************************************************)
EXTENDS LeaderElection, StartupProofs

(* As much about types as the argument needs. *)
Shape ==
  /\ pc \in [Controller -> Phase]
  /\ holder \in Controller \cup {Nil}
  /\ age \in Nat
  /\ held \subseteq Controller
  /\ known \in [Controller -> Nat]
  /\ op \in [Controller -> {"idle", "update", "stored"}]
  /\ sinceOk \in [Controller -> Nat]

(* Nobody has known the record for longer than it exists. *)
KnownSinceStored ==
  \A c \in Controller : known[c] <= age /\ (c \notin held => known[c] = 0)

(* A process that is about to replace another's record has known it for    *)
(* LeaseDuration, unless the record has changed since.                     *)
TakesAbandoned ==
  \A c \in held : op[c] = "update" =>
    holder \in {Nil, c} \/ known[c] >= LeaseDuration

(* Between a store and its answer the record stays, as it is too young.    *)
StoredIsYoung ==
  \A c \in Controller : op[c] = "stored" => holder = c /\ age <= MaxDelay

(* The record of a leader is hardly older than its last success.           *)
LeaderHolds ==
  \A c \in Controller : Active(c) =>
    /\ holder = c
    /\ sinceOk[c] <= RetryPeriod + RenewDeadline
    /\ age <= sinceOk[c] + MaxDelay

LeaseInv ==
  Shape /\ KnownSinceStored /\ TakesAbandoned /\ StoredIsYoung /\ LeaderHolds

-----------------------------------------------------------------------------
LEMMA ProcessStepKeepsActive ==
  ASSUME Shape, NEW c \in Controller, Active(c), ProcessStep(c)
  PROVE  /\ pc' \in [Controller -> Phase]
         /\ \A d \in Controller : Active(d)' <=> Active(d)
<1> USE DEF Active, Shape, Phase, Requesting, Goto, PollEnds
<1>1. CASE GetCRD(c)
  BY <1>1 DEF GetCRD
<1>2. CASE CreateCRD(c) \/ UpdateCRD(c)
  BY <1>2 DEF CreateCRD, UpdateCRD
<1>3. CASE RequestFails(c)
  BY <1>3 DEF RequestFails
<1>4. CASE StartInformers(c) \/ Sync(c)
  BY <1>4 DEF StartInformers, Sync
<1>5. ~Start(c)
  BY DEF Start
<1> QED  BY <1>1, <1>2, <1>3, <1>4, <1>5 DEF ProcessStep

LEMMA LeaveEnds ==
  ASSUME Shape, NEW c \in Controller, Leave(c)
  PROVE  /\ pc' \in [Controller -> Phase]
         /\ \A d \in Controller : Active(d)' <=> Active(d) /\ d # c
BY DEF Leave, Active, Shape, Phase, Requesting, Goto

(* What lets a process replace the record rules out that it is another's,  *)
(* leader or about to be one.                                              *)
LEMMA StoresOwnOrAbandoned ==
  ASSUME LeaseInv, NEW c \in Controller, StoreRecord(c),
         NEW d \in Controller, d # c
  PROVE  ~Active(d) /\ op[d] # "stored"
<1>1. c \in held /\ op[c] = "update"
  BY DEF StoreRecord, SameRecord
<1>2. holder = d => known[c] >= LeaseDuration
  BY <1>1, ElectionAssumption DEF LeaseInv, TakesAbandoned
<1>3. holder = d => age >= LeaseDuration
  BY <1>1, <1>2, ElectionAssumption DEF LeaseInv, KnownSinceStored, Shape
<1>4. op[d] # "stored"
  BY <1>3, ElectionAssumption DEF LeaseInv, StoredIsYoung, Timely, Shape
<1>5. ~Active(d)
  <2> SUFFICES ASSUME Active(d) PROVE FALSE
    OBVIOUS
  <2>1. holder = d /\ sinceOk[d] <= RetryPeriod + RenewDeadline
                   /\ age <= sinceOk[d] + MaxDelay
    BY DEF LeaseInv, LeaderHolds
  <2> QED  BY <2>1, <1>3, ElectionAssumption DEF Timely, LeaseInv, Shape
<1> QED  BY <1>4, <1>5

-----------------------------------------------------------------------------
LEMMA LeaseInvInit == ElectionInit => LeaseInv
BY DEF ElectionInit, StartupInit, LeaseInv, Shape, KnownSinceStored, TakesAbandoned,
       StoredIsYoung, LeaderHolds, Active, Phase, Requesting

LEMMA AttemptKeeps ==
  ASSUME LeaseInv, NEW c \in Controller, Attempt(c)
  PROVE  LeaseInv'
<1> USE DEF LeaseInv, Shape
<1>1. CASE GetRecord(c)
  <2>1. Shape' /\ UNCHANGED <<pc, holder, age, known, sinceOk>>
    BY <1>1 DEF GetRecord, startupVars
  <2>2. KnownSinceStored'
    BY <1>1, <2>1 DEF KnownSinceStored, GetRecord
  <2>3. TakesAbandoned'
    BY <1>1, <2>1 DEF TakesAbandoned, GetRecord, Abandoned
  <2>4. StoredIsYoung' /\ LeaderHolds'
    BY <1>1, <2>1 DEF StoredIsYoung, LeaderHolds, GetRecord, Active
  <2> QED  BY <2>1, <2>2, <2>3, <2>4
<1>2. CASE StoreRecord(c)
  <2>1. Shape' /\ UNCHANGED <<pc, sinceOk>>
    BY <1>2 DEF StoreRecord, startupVars
  <2>2. \A d \in Controller : d # c => ~Active(d)' /\ op'[d] # "stored"
    BY <1>2, <2>1, StoresOwnOrAbandoned DEF StoreRecord, Active
  <2>3. KnownSinceStored' /\ TakesAbandoned'
    BY <1>2 DEF StoreRecord, KnownSinceStored, TakesAbandoned
  <2>4. StoredIsYoung'
    BY <1>2, <2>2, ElectionAssumption DEF StoreRecord, StoredIsYoung
  <2>5. LeaderHolds'
    BY <1>2, <2>1, <2>2, ElectionAssumption DEF StoreRecord, LeaderHolds, Active
  <2> QED  BY <2>1, <2>3, <2>4, <2>5
<1>3. CASE RecordRefused(c)
  BY <1>3 DEF RecordRefused, startupVars, KnownSinceStored, TakesAbandoned,
              StoredIsYoung, LeaderHolds, Active
<1> QED  BY <1>1, <1>2, <1>3 DEF Attempt
LEMMA AnsweredKeeps ==
  ASSUME LeaseInv, NEW c \in Controller, Answered(c)
  PROVE  LeaseInv'
<1> USE DEF LeaseInv, Shape
<1>1. \A d \in Controller : d # c => (Active(d)' <=> Active(d))
  BY DEF Answered, Start, Goto, Active, startupVars
<1>2. Shape'
  BY DEF Answered, Start, Goto, startupVars, Phase, Requesting
<1>3. KnownSinceStored' /\ TakesAbandoned'
  BY DEF Answered, KnownSinceStored, TakesAbandoned
<1>4. StoredIsYoung'
  BY DEF Answered, StoredIsYoung
<1>5. LeaderHolds'
  BY <1>1, ElectionAssumption DEF Answered, StoredIsYoung, LeaderHolds
<1> QED  BY <1>2, <1>3, <1>4, <1>5

LEMMA AttemptLostKeeps ==
  ASSUME LeaseInv, NEW c \in Controller, AttemptLost(c)
  PROVE  LeaseInv'
<1> USE DEF LeaseInv, Shape
<1>1. Shape' /\ UNCHANGED <<pc, holder, age, sinceOk>>
  BY DEF AttemptLost
<1>2. KnownSinceStored' /\ TakesAbandoned'
  BY DEF AttemptLost, KnownSinceStored, TakesAbandoned
<1>3. StoredIsYoung' /\ LeaderHolds'
  BY <1>1 DEF AttemptLost, StoredIsYoung, LeaderHolds, Active
<1> QED  BY <1>1, <1>2, <1>3

(* A process that is gone leaves everything as it was for the others.      *)
LEMMA ForgetKeeps ==
  ASSUME LeaseInv, NEW c \in Controller, Forget(c), pc' \in [Controller -> Phase],
         \A d \in Controller : Active(d)' <=> Active(d) /\ d # c
  PROVE  LeaseInv'
<1> USE DEF LeaseInv, Shape
<1>1. Shape' /\ UNCHANGED <<holder, age>>
  BY DEF Forget
<1>2. KnownSinceStored' /\ TakesAbandoned'
  BY DEF Forget, KnownSinceStored, TakesAbandoned
<1>3. StoredIsYoung' /\ LeaderHolds'
  BY <1>1 DEF Forget, StoredIsYoung, LeaderHolds
<1> QED  BY <1>1, <1>2, <1>3

LEMMA ElapseKeeps ==
  ASSUME LeaseInv, Elapse
  PROVE  LeaseInv'
<1> USE ElectionAssumption DEF LeaseInv, Shape
<1>1. /\ UNCHANGED <<pc, holder, held, op>>
      /\ age' \in {age, age + 1}
      /\ \A c \in Controller : Active(c)' <=> Active(c)
  BY DEF Elapse, startupVars, Older, Active
<1>2. Shape'
  BY <1>1 DEF Elapse, Older
<1>3. KnownSinceStored'
  BY <1>1, <1>2 DEF Elapse, KnownSinceStored, Older
<1>4. TakesAbandoned'
  BY <1>1, <1>2 DEF Elapse, TakesAbandoned, Older
<1>5. StoredIsYoung'
  BY <1>1 DEF Elapse, StoredIsYoung
<1>6. LeaderHolds'
  BY <1>1 DEF Elapse, LeaderHolds
<1> QED  BY <1>2, <1>3, <1>4, <1>5, <1>6

LEMMA LeaseInvStep == LeaseInv /\ [ElectionNext]_vars => LeaseInv'
<1> SUFFICES ASSUME LeaseInv, [ElectionNext]_vars PROVE LeaseInv'
  OBVIOUS
<1>1. ASSUME NEW c \in Controller, Dies(c) \/ OnStoppedLeading(c) PROVE LeaseInv'
  <2>1. Forget(c) /\ pc' \in [Controller -> Phase]
          /\ \A d \in Controller : Active(d)' <=> Active(d) /\ d # c
    BY <1>1, LeaveEnds DEF Dies, OnStoppedLeading, Exit, LeaseInv, Shape, Active
  <2> QED  BY <2>1, ForgetKeeps
<1>2. ASSUME NEW c \in Controller, RunStep(c) PROVE LeaseInv'
  <2>1. /\ pc' \in [Controller -> Phase]
        /\ \A d \in Controller : Active(d)' <=> Active(d)
    BY <1>2, ProcessStepKeepsActive DEF RunStep, LeaseInv
  <2> QED  BY <1>2, <2>1 DEF RunStep, electionVars, LeaseInv, Shape, KnownSinceStored,
                             TakesAbandoned, StoredIsYoung, LeaderHolds
<1>3. CASE UNCHANGED <<pc, electionVars>>
  BY <1>3 DEF electionVars, LeaseInv, Shape, KnownSinceStored, TakesAbandoned,
              StoredIsYoung, LeaderHolds, Active
<1> QED
  BY <1>1, <1>2, <1>3, AttemptKeeps, AnsweredKeeps, AttemptLostKeeps, ElapseKeeps
     DEF ElectionNext, UserWritesCRD, vars, startupVars

(***************************************************************************)
(* Under leader election two processes never run the controller at a time. *)
(* That rests on the version check of the record, on Timely and on answers *)
(* that come within MaxDelay: no clocks are compared, and it does not      *)
(* matter what is lost.                                                    *)
(***************************************************************************)
THEOREM LeadersAreAlone == ElectionSpec => []OneLeader
<1>1. LeaseInv => OneLeader
  BY DEF LeaseInv, LeaderHolds, OneLeader
<1> QED  BY <1>1, LeaseInvInit, LeaseInvStep, PTL DEF ElectionSpec

-----------------------------------------------------------------------------
LEMMA ElectionTypeOKStep ==
  ElectionTypeOK /\ [ElectionNext]_vars => ElectionTypeOK'
<1> SUFFICES ASSUME ElectionTypeOK, [ElectionNext]_vars PROVE ElectionTypeOK'
  OBVIOUS
<1> USE ElectionAssumption DEF ElectionTypeOK
<1>1. ASSUME [StartupNext]_startupVars PROVE StartupTypeOK'
  BY <1>1, StartupTypeOKStep
<1>2. ASSUME NEW c \in Controller, Attempt(c) PROVE ElectionTypeOK'
  BY <1>1, <1>2 DEF Attempt, GetRecord, StoreRecord, RecordRefused
<1>3. ASSUME NEW c \in Controller, Answered(c) PROVE ElectionTypeOK'
  <2>1. Start(c) \/ UNCHANGED startupVars
    BY <1>3 DEF Answered
  <2> QED  BY <2>1, <1>1, <1>3 DEF Answered, StartupNext, ProcessStep
<1>4. ASSUME NEW c \in Controller, AttemptLost(c) PROVE ElectionTypeOK'
  BY <1>4 DEF AttemptLost, Upset, StartupTypeOK
<1>5. ASSUME NEW c \in Controller, Forget(c), StartupTypeOK' PROVE ElectionTypeOK'
  BY <1>5 DEF Forget
<1>6. ASSUME NEW c \in Controller, Dies(c) PROVE ElectionTypeOK'
  <2>1. CASE Exit(c)
    BY <2>1, <1>1, <1>5, <1>6 DEF Dies, StartupNext
  <2>2. CASE Upset /\ UNCHANGED <<crd, current, seen, pc, informer>>
    <3>1. StartupTypeOK'
      BY <2>2 DEF Upset, StartupTypeOK
    <3> QED  BY <3>1, <1>5, <1>6 DEF Dies
  <2> QED  BY <2>1, <2>2, <1>6 DEF Dies
<1>7. ASSUME NEW c \in Controller, OnStoppedLeading(c) PROVE ElectionTypeOK'
  <2>1. StartupTypeOK'
    BY <1>7 DEF OnStoppedLeading, Leave, Goto, StartupTypeOK, Phase, Requesting
  <2> QED  BY <2>1, <1>5, <1>7 DEF OnStoppedLeading
<1>8. ASSUME NEW c \in Controller, RunStep(c) PROVE ElectionTypeOK'
  BY <1>1, <1>8 DEF RunStep, StartupNext, electionVars
<1>9. CASE UserWritesCRD /\ UNCHANGED electionVars
  BY <1>1, <1>9 DEF StartupNext, electionVars
<1>10. CASE Elapse
  BY <1>1, <1>10 DEF Elapse, Older
<1>11. CASE UNCHANGED vars
  BY <1>1, <1>11 DEF vars, electionVars
<1> QED
  BY <1>2, <1>3, <1>4, <1>6, <1>7, <1>8, <1>9, <1>10, <1>11 DEF ElectionNext

(***************************************************************************)
(* Types; a leader's last success is never longer ago than its timers      *)
(* allow.                                                                  *)
(***************************************************************************)
THEOREM ElectionTypeCorrect == ElectionSpec => []ElectionTypeOK
<1>1. ElectionInit => ElectionTypeOK
  BY ElectionAssumption DEF ElectionInit, ElectionTypeOK, StartupInit, StartupTypeOK,
                            Phase, Requesting
<1> QED  BY <1>1, ElectionTypeOKStep, PTL DEF ElectionSpec

-----------------------------------------------------------------------------
(***************************************************************************)
(* What run does about the CRD stays right when the elector decides which  *)
(* process calls run, and may end it between its read and its update.      *)
(***************************************************************************)

(* A step of the election leaves the CRD and what is known of it to run.   *)
LEMMA ElectionStep ==
  ASSUME [ElectionNext]_vars
  PROVE  \/ [StartupNext]_startupVars
         \/ UNCHANGED <<crd, current, seen, pc, informer>>
         \/ \E c \in Controller : Leave(c)
<1>1. ASSUME NEW c \in Controller, Attempt(c) \/ AttemptLost(c)
      PROVE  UNCHANGED <<crd, current, seen, pc, informer>>
  BY <1>1 DEF Attempt, GetRecord, StoreRecord, RecordRefused, AttemptLost, startupVars
<1>2. ASSUME NEW c \in Controller, Answered(c) \/ RunStep(c)
      PROVE  [StartupNext]_startupVars
  BY <1>2 DEF Answered, RunStep, StartupNext, ProcessStep
<1>3. ASSUME NEW c \in Controller, Dies(c) \/ OnStoppedLeading(c)
      PROVE  Leave(c) \/ UNCHANGED <<crd, current, seen, pc, informer>>
  BY <1>3 DEF Dies, OnStoppedLeading, Exit
<1>4. CASE UserWritesCRD
  BY <1>4 DEF StartupNext
<1>5. CASE Elapse \/ UNCHANGED vars
  BY <1>5 DEF Elapse, vars, startupVars
<1> QED  BY <1>1, <1>2, <1>3, <1>4, <1>5 DEF ElectionNext

LEMMA CurrentIsSeenUnderElection ==
  ElectionTypeOK /\ CurrentIsSeen /\ [ElectionNext]_vars => CurrentIsSeen'
<1> SUFFICES ASSUME ElectionTypeOK, CurrentIsSeen, [ElectionNext]_vars
             PROVE  CurrentIsSeen'
  OBVIOUS
<1>1. CASE [StartupNext]_startupVars
  BY <1>1, CurrentIsSeenStep DEF ElectionTypeOK
<1>2. CASE UNCHANGED <<crd, current, seen, pc, informer>>
  BY <1>2 DEF CurrentIsSeen
<1>3. ASSUME NEW c \in Controller, Leave(c) PROVE CurrentIsSeen'
  BY <1>3 DEF Leave, CurrentIsSeen
<1> QED  BY <1>1, <1>2, <1>3, ElectionStep

(***************************************************************************)
(* A process that has lost the lease, or is late, or is replaced while it  *)
(* prepares the CRD replaces no definition it did not read.                *)
(***************************************************************************)
THEOREM LeadersUpdateWhatTheySaw == ElectionSpec => ReplacesWhatItSaw
<1> DEFINE SawIt == \A c \in Controller :
             pc[c] = "updateCRD" /\ pc'[c] = "sync" /\ crd' # crd => crd = seen[c]
<1>1. ElectionTypeOK /\ CurrentIsSeen /\ [ElectionNext]_vars => [SawIt]_startupVars
  <2> SUFFICES ASSUME ElectionTypeOK, CurrentIsSeen, [ElectionNext]_vars
               PROVE  [SawIt]_startupVars
    OBVIOUS
  <2>1. CASE [StartupNext]_startupVars
    BY <2>1, StartupStepSaw DEF ElectionTypeOK
  <2>2. CASE UNCHANGED <<crd, current, seen, pc, informer>>
    BY <2>2
  <2>3. ASSUME NEW c \in Controller, Leave(c) PROVE crd' = crd
    BY <2>3 DEF Leave
  <2> QED  BY <2>1, <2>2, <2>3, ElectionStep
<1>2. ElectionInit => CurrentIsSeen
  BY DEF ElectionInit, StartupInit, CurrentIsSeen
<1> QED
  BY <1>1, <1>2, CurrentIsSeenUnderElection, ElectionTypeCorrect, PTL
     DEF ElectionSpec, ReplacesWhatItSaw
=============================================================================
