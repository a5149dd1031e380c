--------------------------- MODULE StartupProofs ---------------------------
(***************************************************************************)
(* Theorems about the start of a process, for any number of processes with *)
(* any flags.                                                              *)
(***************************************************************************)
EXTENDS Startup, TLAPS

LEMMA StartupTypeOKStep == StartupTypeOK /\ [StartupNext]_startupVars => StartupTypeOK'
<1> SUFFICES ASSUME StartupTypeOK, [StartupNext]_startupVars PROVE StartupTypeOK'
  OBVIOUS
<1> USE DEF StartupTypeOK, Requesting, Phase, Goto, Upset, Definition
<1>1. ASSUME NEW c \in Controller, ProcessStep(c) PROVE StartupTypeOK'
  <2>1. CASE Start(c)
    BY <2>1 DEF Start, InformerFor
  <2>2. CASE GetCRD(c)
    BY <2>2 DEF GetCRD, PollEnds
  <2>3. CASE CreateCRD(c) \/ UpdateCRD(c)
    BY <2>3 DEF CreateCRD, UpdateCRD, StorePreset, PollEnds
  <2>4. CASE RequestFails(c)
    BY <2>4 DEF RequestFails, PollEnds
  <2>5. CASE StartInformers(c) \/ Sync(c)
    BY <2>5 DEF StartInformers, Sync
  <2> QED  BY <1>1, <2>1, <2>2, <2>3, <2>4, <2>5 DEF ProcessStep
<1>2. ASSUME NEW c \in Controller, Exit(c) PROVE StartupTypeOK'
  BY <1>2 DEF Exit, Leave
<1>3. CASE UserWritesCRD
  BY <1>3 DEF UserWritesCRD
<1>4. CASE UNCHANGED startupVars
  BY <1>4 DEF startupVars
<1> QED  BY <1>1, <1>2, <1>3, <1>4 DEF StartupNext

(***************************************************************************)
(* Types, and the flag: a process that was told not to create the CRD      *)
(* sends no request about it.                                              *)
(***************************************************************************)
THEOREM StartupTypeCorrect == StartupSpec => []StartupTypeOK
<1>1. StartupInit => StartupTypeOK
  BY DEF StartupInit, StartupTypeOK, Phase, Requesting
<1> QED  BY <1>1, StartupTypeOKStep, PTL DEF StartupSpec

-----------------------------------------------------------------------------
(* A process whose read is current has the stored definition in hand.      *)
CurrentIsSeen == \A c \in current : seen[c] = crd

LEMMA CurrentIsSeenStep ==
  StartupTypeOK /\ CurrentIsSeen /\ [StartupNext]_startupVars => CurrentIsSeen'
<1> SUFFICES ASSUME StartupTypeOK, CurrentIsSeen, [StartupNext]_startupVars
             PROVE  CurrentIsSeen'
  OBVIOUS
<1> USE DEF CurrentIsSeen
<1>1. ASSUME NEW c \in Controller, ProcessStep(c) PROVE CurrentIsSeen'
  <2>1. CASE Start(c) \/ RequestFails(c) \/ StartInformers(c) \/ Sync(c)
    BY <2>1 DEF Start, RequestFails, StartInformers, Sync
  <2>2. CASE GetCRD(c)
    BY <2>2 DEF GetCRD, StartupTypeOK
  <2>3. CASE CreateCRD(c) \/ UpdateCRD(c)
    BY <2>3 DEF CreateCRD, UpdateCRD, StorePreset
  <2> QED  BY <1>1, <2>1, <2>2, <2>3 DEF ProcessStep
<1>2. CASE UserWritesCRD \/ UNCHANGED startupVars
  BY <1>2 DEF UserWritesCRD, startupVars
<1>3. ASSUME NEW c \in Controller, Exit(c) PROVE CurrentIsSeen'
  BY <1>3 DEF Exit, Leave
<1> QED  BY <1>1, <1>2, <1>3 DEF StartupNext

(* An update that is stored replaces what was read. *)
LEMMA StartupStepSaw ==
  StartupTypeOK /\ CurrentIsSeen /\ [StartupNext]_startupVars
    => [\A c \in Controller :
          pc[c] = "updateCRD" /\ pc'[c] = "sync" /\ crd' # crd
            => crd = seen[c]]_startupVars
<1> SUFFICES ASSUME StartupTypeOK, CurrentIsSeen, StartupNext, NEW c \in Controller,
                    pc[c] = "updateCRD", pc'[c] = "sync", crd' # crd
             PROVE  crd = seen[c]
  BY DEF startupVars
<1>1. ASSUME NEW d \in Controller, ProcessStep(d) \/ Exit(d) PROVE crd = seen[c]
  <2>1. UpdateCRD(d) \/ CreateCRD(d)
    BY <1>1 DEF ProcessStep, Start, GetCRD, RequestFails, StartInformers, Sync,
                        Exit, Leave
  <2>2. c = d
    BY <2>1 DEF UpdateCRD, CreateCRD, PollEnds, Goto, StartupTypeOK
  <2>3. UpdateCRD(c)
    BY <2>1, <2>2 DEF CreateCRD
  <2> QED  BY <2>3 DEF UpdateCRD, SameVersion, CurrentIsSeen
<1>2. ~UserWritesCRD
  BY DEF UserWritesCRD
<1> QED  BY <1>1, <1>2 DEF StartupNext

(***************************************************************************)
(* No update of EnsureCRDCreated replaces a definition it did not read.    *)
(***************************************************************************)
THEOREM UpdatesWhatItSaw == StartupSpec => ReplacesWhatItSaw
<1>1. StartupInit => CurrentIsSeen
  BY DEF StartupInit, CurrentIsSeen
<1> QED
  BY <1>1, StartupStepSaw, CurrentIsSeenStep, StartupTypeCorrect, PTL
     DEF StartupSpec, ReplacesWhatItSaw
=============================================================================
