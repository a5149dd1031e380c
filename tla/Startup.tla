------------------------------ MODULE Startup ------------------------------
(***************************************************************************)
(* How a controller process gets to its first pass: the closure run of     *)
(* main.go, EnsureCRDCreated of pkg/controller/crd.go and the wait for the *)
(* cache in Run of pkg/controller/cronhpa_controller.go.  Module           *)
(* CronHPAController takes all of it as its action Restart.                *)
(*                                                                         *)
(* Several processes start at once when pods overlap, and users apply and  *)
(* delete the definition of the CronHPA resource (the CRD) meanwhile.      *)
(***************************************************************************)
EXTENDS Naturals

CONSTANTS
  Controller,   \* controller processes
  createCRD,    \* the flag --create-crd of each of them
  Preset,       \* the spec of the CRD variable
  Completed,    \* what the server may make of it when it fills in defaults
  Foreign,      \* a spec some user applies
  MaxUpsets,    \* how many faults and foreign writes a behaviour contains
  Nil

Definition == {Preset, Completed, Foreign}

ASSUME StartupAssumption ==
  /\ createCRD \in [Controller -> BOOLEAN]
  /\ Nil \notin Definition
  /\ MaxUpsets \in Nat

VARIABLES
  crd,      \* the spec of the stored CRD, Nil when there is none
  current,  \* processes whose last read of the CRD is current
  seen,     \* what each process read last
  pc,       \* how far each process is
  informer, \* how far the informer of each process is with its factory
  upsets    \* faults and foreign writes so far

startupVars == <<crd, current, seen, pc, informer, upsets>>

Requesting == {"getCRD", "createCRD", "updateCRD"}

Phase == {"down", "running", "sync"} \cup Requesting

StartupTypeOK ==
  /\ crd \in Definition \cup {Nil}
  /\ current \subseteq Controller
  /\ seen \in [Controller -> Definition \cup {Nil}]
  /\ pc \in [Controller -> Phase]
  /\ informer \in [Controller -> {"none", "asked", "started"}]
  /\ \A c \in Controller : /\ informer[c] = "none" <=> pc[c] = "down"
                           /\ informer[c] = "started" => pc[c] \in {"sync", "running"}
  /\ upsets \in Nat
  /\ \A c \in Controller : pc[c] \in Requesting => createCRD[c]

StartupInit ==
  /\ crd \in Definition \cup {Nil}
  /\ current = {}
  /\ seen = [c \in Controller |-> Nil]
  /\ pc = [c \in Controller |-> "down"]
  /\ informer = [c \in Controller |-> "none"]
  /\ upsets = 0

Upset == upsets < MaxUpsets /\ upsets' = upsets + 1

Goto(c, phase) == pc' = [pc EXCEPT ![c] = phase]

(* The factory notes the informer that NewCronHPAController asks for.      *)
InformerFor(c) == informer' = [informer EXCEPT ![c] = "asked"]

\* mutant: the flag is not consulted
StartCreates(c) ==
  /\ pc[c] = "down"
  /\ Goto(c, "getCRD")
  /\ InformerFor(c)
  /\ UNCHANGED <<crd, current, seen, upsets>>

\* mutant: the informer is left for Run to ask for
StartWithoutInformer(c) ==
  /\ pc[c] = "down"
  /\ Goto(c, IF createCRD[c] THEN "getCRD" ELSE "sync")
  /\ UNCHANGED <<crd, current, seen, informer, upsets>>

(* main builds the controller and calls run, at once or under the lease.   *)
Start(c) ==
  /\ pc[c] = "down"
  /\ Goto(c, IF createCRD[c] THEN "getCRD" ELSE "sync")
  /\ InformerFor(c)
  /\ UNCHANGED <<crd, current, seen, upsets>>

-----------------------------------------------------------------------------
(***************************************************************************)
(* EnsureCRDCreated.  It returns true or an error, and either of them ends *)
(* PollUntil, whose own result run drops: whatever happens, the process    *)
(* goes on to wait for its cache.  An update whose answer is lost is to    *)
(* the process what one that succeeds is.                                  *)
(***************************************************************************)
PollEnds(c) == Goto(c, "sync")

GetCRD(c) ==
  /\ pc[c] = "getCRD"
  /\ \/ crd = Nil /\ Goto(c, "createCRD")
     \/ crd = Preset /\ PollEnds(c)
     \/ crd \notin {Nil, Preset} /\ Goto(c, "updateCRD")
  /\ seen' = [seen EXCEPT ![c] = crd]
  /\ current' = current \cup {c}
  /\ UNCHANGED <<crd, informer, upsets>>

(* The server stores what a process sent, with defaults or without.        *)
StorePreset ==
  /\ crd' \in {Preset, Completed}
  /\ current' = IF crd' = crd THEN current ELSE {}

CreateCRD(c) ==
  /\ pc[c] = "createCRD"
  /\ crd = Nil
  /\ StorePreset
  /\ PollEnds(c)
  /\ UNCHANGED <<seen, informer, upsets>>

\* mutant: the update takes the version that is stored by then
UnseenVersion(c) == crd # Nil

(* The update carries the resource version of the CRD that was read.       *)
SameVersion(c) == crd # Nil /\ c \in current

UpdateCRD(c) ==
  /\ pc[c] = "updateCRD"
  /\ SameVersion(c)
  /\ StorePreset
  /\ PollEnds(c)
  /\ UNCHANGED <<seen, informer, upsets>>

\* mutant: the request is sent again as it is
RequestRepeated(c) ==
  /\ pc[c] \in Requesting
  /\ \/ pc[c] = "createCRD" /\ crd # Nil /\ UNCHANGED upsets
     \/ pc[c] = "updateCRD" /\ ~SameVersion(c) /\ UNCHANGED upsets
     \/ Upset
  /\ UNCHANGED <<crd, current, seen, pc, informer>>

RequestFails(c) ==
  /\ pc[c] \in Requesting
  /\ \/ pc[c] = "createCRD" /\ crd # Nil /\ UNCHANGED upsets
     \/ pc[c] = "updateCRD" /\ ~SameVersion(c) /\ UNCHANGED upsets
     \/ Upset
  /\ PollEnds(c)
  /\ UNCHANGED <<crd, current, seen, informer>>

-----------------------------------------------------------------------------
(* The factory starts the informers it was asked for and has not started,  *)
(* in a goroutine of its own.                                              *)
StartInformers(c) ==
  /\ pc[c] = "sync"
  /\ informer[c] = "asked"
  /\ informer' = [informer EXCEPT ![c] = "started"]
  /\ UNCHANGED <<crd, current, seen, pc, upsets>>

(* The informer lists again until the resource exists; WaitForCacheSync    *)
(* waits for as long as that takes.                                        *)
Sync(c) ==
  /\ pc[c] = "sync"
  /\ informer[c] = "started"
  /\ crd # Nil
  /\ Goto(c, "running")
  /\ UNCHANGED <<crd, current, seen, informer, upsets>>

Leave(c) ==
  /\ pc[c] # "down"
  /\ Goto(c, "down")
  /\ current' = current \ {c}
  /\ informer' = [informer EXCEPT ![c] = "none"]
  /\ UNCHANGED <<crd, seen>>

Exit(c) == Leave(c) /\ Upset

(* A user applies a definition, or deletes the one there is. *)
UserWritesCRD ==
  /\ Upset
  /\ crd' \in {Foreign, Nil} \ {crd}
  /\ current' = {}
  /\ UNCHANGED <<seen, pc, informer>>

ProcessStep(c) ==
  \/ Start(c)
  \/ GetCRD(c) \/ CreateCRD(c) \/ UpdateCRD(c) \/ RequestFails(c)
  \/ StartInformers(c) \/ Sync(c)

StartupNext ==
  \/ \E c \in Controller : ProcessStep(c) \/ Exit(c)
  \/ UserWritesCRD

StartupSpec == StartupInit /\ [][StartupNext]_startupVars

(* Requests are answered or time out, the informer tries again, and the    *)
(* Deployment restarts what has died.  Users owe nothing.                  *)
FairStartup == StartupSpec /\ \A c \in Controller : WF_startupVars(ProcessStep(c))

-----------------------------------------------------------------------------
(* Properties.                                                             *)

(***************************************************************************)
(* A process replaces only the definition it has read: one that a user or  *)
(* another process put there between its read and its update survives.     *)
(***************************************************************************)
ReplacesWhatItSaw ==
  [][\A c \in Controller :
       pc[c] = "updateCRD" /\ pc'[c] = "sync" /\ crd' # crd => crd = seen[c]]_startupVars

(***************************************************************************)
(* Once the resource is there to stay, every process gets to its passes,   *)
(* whatever became of its own attempt to create it: an attempt that lost a *)
(* race, was refused or failed stops nobody.                               *)
(***************************************************************************)
ServesOnceDefined ==
  \A c \in Controller : <>[](crd # Nil) => <>[](pc[c] = "running")

(***************************************************************************)
(* "Create cronhpa CRD if it does not exist" (the flag create-crd): a      *)
(* process that runs with the flag comes to a point where the CRD exists.  *)
(***************************************************************************)
CRDIsCreated ==
  \A c \in Controller : pc[c] = "getCRD" ~> crd # Nil \/ pc[c] = "down"
=============================================================================
