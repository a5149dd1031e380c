--------------------------- MODULE LeaderElection ---------------------------
(***************************************************************************)
(* The controller under the flag leaderElect of main.go: the elector of    *)
(* client-go decides which process calls run (module Startup), and the     *)
(* process exits when its elector gives up.                                *)
(*                                                                         *)
(* An elector tries again and again to read the record in the API server   *)
(* and, if the record is its own or looks abandoned, to store it anew      *)
(* under the version it read.  A record looks abandoned to a process that  *)
(* has known it unchanged for LeaseDuration.  No process reads another's   *)
(* clock: all of them only measure how long something has lasted.          *)
(***************************************************************************)
EXTENDS Startup

CONSTANTS
  LeaseDuration,   \* 15 seconds in main.go
  RenewDeadline,   \* 10 seconds
  RetryPeriod,     \* 2 seconds
  MaxDelay,        \* longest time between a store and its answer
  Reliable         \* processes that go on trying to lead

(* Timely is what the choice of the three durations has to achieve.        *)
Timely == RetryPeriod + RenewDeadline + MaxDelay < LeaseDuration

ASSUME ElectionAssumption ==
  /\ {LeaseDuration, RenewDeadline, RetryPeriod, MaxDelay} \subseteq Nat
  /\ Timely
  /\ Nil \notin Controller
  /\ Reliable \subseteq Controller

VARIABLES
  holder,    \* the holder in the record, Nil when there is no record
  age,       \* time since the record was stored
  held,      \* processes whose last read of the record is current
  known,     \* for how long each of them has known it
  op,        \* what each elector's attempt has come to
  sinceOk    \* for a leader: time since its last successful attempt

electionVars == <<holder, age, held, known, op, sinceOk>>
vars == <<startupVars, electionVars>>

ElectionTypeOK ==
  /\ holder \in Controller \cup {Nil}
  /\ age \in 0..LeaseDuration
  /\ held \subseteq Controller
  /\ known \in [Controller -> 0..LeaseDuration]
  /\ op \in [Controller -> {"idle", "update", "stored"}]
  /\ sinceOk \in [Controller -> 0..(RetryPeriod + RenewDeadline)]
  /\ StartupTypeOK

ElectionInit ==
  /\ StartupInit
  /\ holder = Nil
  /\ age = 0
  /\ held = {}
  /\ known = [c \in Controller |-> 0]
  /\ op = [c \in Controller |-> "idle"]
  /\ sinceOk = [c \in Controller |-> 0]

(* OnStartedLeading has been called, and the process is still there.       *)
Active(c) == pc[c] # "down"

-----------------------------------------------------------------------------
(* An attempt to acquire or renew the lease.                               *)

\* mutant: a record is never taken for abandoned
NeverAbandoned(c) == FALSE

Abandoned(c) == c \in held /\ known[c] >= LeaseDuration

(* A process that was restarted finds its own name in the record.          *)
GetRecord(c) ==
  /\ op[c] = "idle"
  /\ held' = held \cup {c}
  /\ op' = IF holder \in {Nil, c} \/ Abandoned(c)
           THEN [op EXCEPT ![c] = "update"] ELSE op
  /\ UNCHANGED <<startupVars, holder, age, known, sinceOk>>

\* mutant: the record is stored whatever has become of it
AnyRecord(c) == TRUE

(* The record is created if there is none, and otherwise replaced under    *)
(* the version that was read.                                              *)
SameRecord(c) == c \in held

StoreRecord(c) ==
  /\ op[c] = "update"
  /\ SameRecord(c)
  /\ holder' = c
  /\ age' = 0
  /\ held' = {c}
  /\ known' = [d \in Controller |-> 0]
  /\ op' = [op EXCEPT ![c] = "stored"]
  /\ UNCHANGED <<startupVars, sinceOk>>

RecordRefused(c) ==
  /\ op[c] = "update"
  /\ ~SameRecord(c)
  /\ op' = [op EXCEPT ![c] = "idle"]
  /\ UNCHANGED <<startupVars, holder, age, held, known, sinceOk>>

(* The first success calls run.  run never returns and is not told when    *)
(* the lease is lost.                                                      *)
Answered(c) ==
  /\ op[c] = "stored"
  /\ op' = [op EXCEPT ![c] = "idle"]
  /\ known' = [known EXCEPT ![c] = 0]
  /\ sinceOk' = [sinceOk EXCEPT ![c] = 0]
  /\ IF Active(c) THEN UNCHANGED startupVars ELSE Start(c)
  /\ UNCHANGED <<holder, age, held>>

(* A request is lost on its way, or its answer is.                         *)
AttemptLost(c) ==
  /\ op[c] # "idle"
  /\ Upset
  /\ op' = [op EXCEPT ![c] = "idle"]
  /\ held' = IF op[c] = "stored" THEN held \ {c} ELSE held
  /\ known' = IF op[c] = "stored" THEN [known EXCEPT ![c] = 0] ELSE known
  /\ UNCHANGED <<crd, current, seen, pc, informer, holder, age, sinceOk>>

-----------------------------------------------------------------------------
(* The end of a process.  Nothing releases its record.                     *)

Forget(c) ==
  /\ op' = [op EXCEPT ![c] = "idle"]
  /\ held' = held \ {c}
  /\ known' = [known EXCEPT ![c] = 0]
  /\ sinceOk' = [sinceOk EXCEPT ![c] = 0]
  /\ UNCHANGED <<holder, age>>

Dies(c) ==
  /\ Forget(c)
  /\ \/ Exit(c)
     \/ ~Active(c) /\ Upset /\ UNCHANGED <<crd, current, seen, pc, informer>>

(* OnStoppedLeading, after RenewDeadline without success: klog.Fatalf ends *)
(* the process, in whatever it was doing.                                  *)
OnStoppedLeading(c) ==
  /\ Active(c)
  /\ sinceOk[c] >= RenewDeadline
  /\ Leave(c)
  /\ Forget(c)
  /\ UNCHANGED upsets

-----------------------------------------------------------------------------
Older(n) == IF n < LeaseDuration THEN n + 1 ELSE n

\* mutant: nothing happens when the deadline is reached
ElapseWithoutDeadline ==
  /\ (\E c \in Controller : op[c] = "stored") => age < MaxDelay
  /\ age' = Older(age)
  /\ known' = [c \in Controller |-> IF c \in held THEN Older(known[c]) ELSE 0]
  /\ sinceOk' = [c \in Controller |-> IF Active(c) THEN sinceOk[c] + 1 ELSE 0]
  /\ UNCHANGED <<startupVars, holder, held, op>>

(* Time passes for everybody, except that timers fire and answers arrive   *)
(* in time.  A leader's attempt begins RetryPeriod after the last success  *)
(* and is given up after RenewDeadline.                                    *)
Elapse ==
  /\ \A c \in Controller : Active(c) => sinceOk[c] < RetryPeriod + RenewDeadline
  /\ (\E c \in Controller : op[c] = "stored") => age < MaxDelay
  /\ age' = Older(age)
  /\ known' = [c \in Controller |-> IF c \in held THEN Older(known[c]) ELSE 0]
  /\ sinceOk' = [c \in Controller |-> IF Active(c) THEN sinceOk[c] + 1 ELSE 0]
  /\ UNCHANGED <<startupVars, holder, held, op>>

(* What run does, under the lease or past it.                              *)
RunStep(c) ==
  /\ Active(c)
  /\ ProcessStep(c)
  /\ UNCHANGED electionVars

Attempt(c) == GetRecord(c) \/ StoreRecord(c) \/ RecordRefused(c)

ElectionNext ==
  \/ \E c \in Controller : \/ Attempt(c)
                           \/ Answered(c)
                           \/ AttemptLost(c)
                           \/ Dies(c)
                           \/ OnStoppedLeading(c)
                           \/ RunStep(c)
  \/ UserWritesCRD /\ UNCHANGED electionVars
  \/ Elapse

ElectionSpec == ElectionInit /\ [][ElectionNext]_vars

(* Time passes, timers fire and requests are answered.  A process that     *)
(* leads runs; one that does not may be gone for good, unless it is        *)
(* Reliable: the Deployment restarts it.                                   *)
ElectionFairness ==
  /\ WF_vars(Elapse)
  /\ \A c \in Controller : /\ WF_vars(Answered(c))
                           /\ WF_vars(OnStoppedLeading(c))
                           /\ WF_vars(RunStep(c))
  /\ \A c \in Reliable : WF_vars(Attempt(c))

FairElection == ElectionSpec /\ ElectionFairness

-----------------------------------------------------------------------------
(* Properties.                                                             *)

(***************************************************************************)
(* Two processes never run the controller at a time: one whose renewals    *)
(* fail is gone before any other may take its record for abandoned,        *)
(* whatever is lost and whoever is restarted.  That holds only as long as  *)
(* the answer to a store comes within MaxDelay, which Timely puts at less  *)
(* than 3 seconds for the durations of main.go: a later answer lets the    *)
(* storer lead on a record that others have begun to count down long ago.  *)
(***************************************************************************)
OneLeader ==
  \A c, d \in Controller : Active(c) /\ Active(d) => c = d

(***************************************************************************)
(* A leader that dies, hangs or cannot reach the API server is replaced,   *)
(* although nobody releases its record.                                    *)
(***************************************************************************)
LedAgain == []<>(\E c \in Controller : Active(c))

(***************************************************************************)
(* Once the CRD is there to stay and no leader is late any more, some      *)
(* process serves for good: a leader that waits for its cache under the    *)
(* lease, which no other can take from it, gets through in the end.        *)
(***************************************************************************)
Settles ==
  /\ <>[](crd # Nil)
  /\ <>[][\A c \in Controller : ~OnStoppedLeading(c)]_vars

ServedUnderLease == Settles => <>[](\E c \in Controller : pc[c] = "running")
=============================================================================
