----------------------------- MODULE CronLedger -----------------------------
(***************************************************************************)
(* What the stored CronHPA objects promise, whoever writes them and        *)
(* however often they fail: a ledger of scalings.  For each CronHPA it     *)
(* says up to which time its schedules are settled and which crons have    *)
(* run.                                                                    *)
(*                                                                         *)
(* Only the user changes a spec, and every entry a controller makes        *)
(* answers one more start time: the settled time moves forward, past a     *)
(* time at which a cron of the current spec fires, and a run-once cron is  *)
(* entered once.  Nothing about caches, processes, versions or requests    *)
(* appears here.                                                           *)
(***************************************************************************)
EXTENDS CronTimes, Sequences, Functions

CONSTANTS
  CronHPA,   \* names of CronHPA objects
  Specs,     \* the specs users give them
  Nil

VARIABLE ledger   \* for each name: Nil or [spec, settled, ran]

Fresh(h) == ledger[h] # Nil /\ ledger[h].spec \in Specs /\ ledger[h].ran = {}

Init == \A h \in CronHPA : ledger[h] = Nil \/ Fresh(h)

Others(h) == \A g \in CronHPA \ {h} : ledger'[g] = ledger[g]

Create(h) ==
  /\ ledger[h] = Nil
  /\ Fresh(h)'
  /\ Others(h)

Edit(h) ==
  /\ ledger[h] # Nil
  /\ \E s \in Specs : ledger'[h] = [ledger[h] EXCEPT !.spec = s]
  /\ Others(h)

Delete(h) ==
  /\ ledger[h] # Nil
  /\ ledger'[h] = Nil
  /\ Others(h)

(* A scaling for one cron is entered, and settles everything up to a time  *)
(* at or after the start time it answers.                                  *)
Enter(h) ==
  /\ ledger[h] # Nil
  /\ ledger'[h] # Nil
  /\ LET old == ledger[h]
         new == ledger'[h]
     IN  \E cron \in Range(old.spec.crons) :
           /\ ~(cron.runOnce /\ cron.name \in old.ran)
           /\ FiresBetween(cron.schedule, old.settled, new.settled) # {}
           /\ new = [spec |-> old.spec, settled |-> new.settled,
                       ran  |-> old.ran \cup {cron.name}]
  /\ Others(h)

Next == \E h \in CronHPA : Create(h) \/ Edit(h) \/ Delete(h) \/ Enter(h)

Spec == Init /\ [][Next]_ledger
=============================================================================
