------------------------------ MODULE CronTimes ------------------------------
(***************************************************************************)
(* When is a cron due?  The pure functions of pkg/controller/util.go that  *)
(* turn a standard cron expression, the time of the last scaling and the   *)
(* current time into the set of missed start times, and that decide        *)
(* whether an exclude date covers the latest of them.                      *)
(*                                                                         *)
(* Time is counted in whole seconds.  Cron expressions fire on whole       *)
(* seconds and LastScheduleTime is stored with that precision, so nothing  *)
(* the code compares is lost by rounding the current time down.            *)
(***************************************************************************)
EXTENDS Integers, FiniteSets, FiniteSetsExt

CONSTANTS
  Schedule,    \* cron expressions that may appear in a CronHPA
  Parseable,   \* those cronutil.ParseStandard accepts
  Fires,       \* Fires[s] is the set of times at which s fires ...
  Every,       \* ... unless it is "@every d", then Every[s] is d and not 0
  MaxMissed    \* 100 in the code: more missed starts than this is an error

ASSUME CronTimesAssumption ==
  /\ Parseable \subseteq Schedule
  /\ Fires \in [Schedule -> SUBSET Nat]
  /\ Every \in [Schedule -> Nat]
  /\ MaxMissed \in Nat

(***************************************************************************)
(* The time below which nothing is scheduled: the last scaling, or the     *)
(* deadline when one is set and is later.  A deadline of 0 means none.     *)
(***************************************************************************)
EarliestTime(earliestTime, now, startingDeadlineSeconds) ==
  LET schedulingDeadline == now - startingDeadlineSeconds
  IN  IF startingDeadlineSeconds # 0 /\ schedulingDeadline > earliestTime
      THEN schedulingDeadline
      ELSE earliestTime

(* The times in (from, now] at which a schedule fires.  The standard       *)
(* parser also accepts "@every d", which fires on no dates of its own but  *)
(* every d seconds from the time it is asked for the next start.           *)
FiresBetween(cron, from, now) ==
  {t \in (from + 1) .. now :
     IF Every[cron] = 0 THEN t \in Fires[cron] ELSE (t - from) % Every[cron] = 0}

NoNextStart(cron, now) == Every[cron] = 0 /\ \A t \in Fires[cron] : t <= now

\* mutant: beyond MaxMissed the caller is told of no times and no error
UnmetGivesUpQuietly(earliestTime, now, cron, startingDeadlineSeconds) ==
  LET from   == EarliestTime(earliestTime, now, startingDeadlineSeconds)
      starts == FiresBetween(cron, from, now)
  IN  [err   |-> cron \notin Parseable,
       times |-> IF Cardinality(starts) > MaxMissed THEN {} ELSE starts]

(***************************************************************************)
(* The missed start times of a schedule, or an error.  The loop calls      *)
(* sched.Next until it returns a time after now.  It gives up with an      *)
(* error beyond MaxMissed times; a schedule with no time after now makes   *)
(* sched.Next return the zero time, which is before now and sends the loop *)
(* round until it gives up as well.                                        *)
(***************************************************************************)
getRecentUnmetScheduleTimes(earliestTime, now, cron, startingDeadlineSeconds) ==
  LET from   == EarliestTime(earliestTime, now, startingDeadlineSeconds)
      starts == FiresBetween(cron, from, now)
      failed == \/ cron \notin Parseable
                \/ /\ from <= now
                   /\ \/ Cardinality(starts) > MaxMissed
                      \/ NoNextStart(cron, now)
  IN  [err |-> failed, times |-> IF failed THEN {} ELSE starts]

(***************************************************************************)
(* The latest missed time of every exclude date that has one; one bad      *)
(* exclude date fails them all.                                            *)
(***************************************************************************)
getExcludeTimes(earliestTime, now, crons, startingDeadlineSeconds) ==
  LET unmet(s) == getRecentUnmetScheduleTimes(earliestTime, now, s,
                                              startingDeadlineSeconds)
  IN  [err   |-> \E s \in crons : unmet(s).err,
       times |-> {Max(unmet(s).times) : s \in {s \in crons : unmet(s).times # {}}}]

shoudFilterTimesWithExcludeTimes(excludeTimes, timeBatch) == timeBatch \in excludeTimes
=============================================================================
