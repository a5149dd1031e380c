---------------------------- MODULE MissedStarts ----------------------------
(***************************************************************************)
(* getRecentUnmetScheduleTimes of pkg/controller/util.go one round of its  *)
(* loop at a time, called pass after pass for one cron of one CronHPA.     *)
(*                                                                         *)
(* Module CronTimes says what one call returns.  Here that is shown of the *)
(* loop, and what the calls of all passes together find: a start is lost   *)
(* to a deadline that is shorter than the time between two passes, and to  *)
(* a scaling that was under way when it came.                              *)
(***************************************************************************)
EXTENDS CronTimes, Sequences, Functions

CONSTANTS
  Deadlines,   \* values of startingDeadlineSeconds
  MaxGap,      \* longest time from one call to the next
  MaxTime,     \* the clock stops here
  ZeroTime     \* Go's zero time, long before any other

ASSUME MissedStartsAssumption ==
  /\ Deadlines \subseteq Int
  /\ MaxGap \in Nat
  /\ MaxTime \in Nat
  /\ ZeroTime \in Int /\ ZeroTime < 0

VARIABLES
  cron, deadline,   \* of the CronHPA, fixed
  clock,
  settled,          \* LastScheduleTime, or the time of creation
  asOf,             \* the time the last call was made for
  pc,
  from, t, starts,  \* locals of the call
  answered,         \* history: times whose starts a call found, or gave up
  passedOver        \* history: times settled that no call was made for

callVars == <<pc, from, t, starts>>
vars == <<cron, deadline, clock, settled, asOf, callVars, answered, passedOver>>

MissedTypeOK ==
  /\ cron \in Schedule
  /\ deadline \in Deadlines
  /\ {clock, settled} \subseteq Nat
  /\ asOf \in 0..clock
  /\ pc \in {"idle", "loop", "ok", "err"}
  /\ {from, t} \subseteq Int
  /\ starts \in Seq(Int)
  /\ answered \subseteq Int
  /\ passedOver \subseteq Int
  /\ pc = "loop" => from <= asOf

(* The object may have been created by a clock that is ahead.              *)
Init ==
  /\ cron \in Schedule
  /\ deadline \in Deadlines
  /\ clock = 0
  /\ settled \in 0..MaxGap
  /\ asOf = 0
  /\ pc = "idle"
  /\ from = 0
  /\ t = 0
  /\ starts = <<>>
  /\ answered = 0..settled   \* nobody asks for a start before the creation
  /\ passedOver = {}

\* mutant: "@every d" is not known
NextDate(after) ==
  LET later == {u \in Fires[cron] : u > after}
  IN  IF later = {} THEN ZeroTime ELSE Min(later)

(* sched.Next: the zero time says that there is no next start.             *)
NextStart(after) ==
  LET later == {u \in Fires[cron] : u > after}
  IN  IF Every[cron] # 0 THEN after + Every[cron]
      ELSE IF later = {} THEN ZeroTime ELSE Min(later)

Tick ==
  /\ clock < MaxTime
  /\ clock - asOf < MaxGap
  /\ clock' = clock + 1
  /\ UNCHANGED <<cron, deadline, settled, asOf, callVars, answered, passedOver>>

\* mutant: a last scaling in the future is not returned for at once
CallRunsLoop ==
  /\ pc = "idle"
  /\ asOf' = clock
  /\ from' = EarliestTime(settled, clock, deadline)
  /\ starts' = <<>>
  /\ \/ cron \notin Parseable /\ pc' = "err" /\ t' = t
     \/ cron \in Parseable /\ pc' = "loop" /\ t' = NextStart(from')
  /\ UNCHANGED <<cron, deadline, clock, settled, answered, passedOver>>

Call ==
  /\ pc = "idle"
  /\ asOf' = clock
  /\ from' = EarliestTime(settled, clock, deadline)
  /\ starts' = <<>>
  /\ \/ cron \notin Parseable /\ pc' = "err" /\ t' = t
     \/ cron \in Parseable /\ from' > clock /\ pc' = "ok" /\ t' = t
     \/ cron \in Parseable /\ from' <= clock /\ pc' = "loop" /\ t' = NextStart(from')
  /\ UNCHANGED <<cron, deadline, clock, settled, answered, passedOver>>

\* mutant: a start at this very second is left for the next call
PastOrNow == t >= asOf

Past == t > asOf

\* mutant: one more than the limit is let through
OneTooMany == Len(starts) > MaxMissed

TooMany == Len(starts) + 1 > MaxMissed

\* mutant: beyond the limit the most recent starts are kept
AppendKeepsRecent ==
  /\ pc = "loop"
  /\ ~Past
  /\ starts' = Append(IF TooMany THEN Tail(starts) ELSE starts, t)
  /\ t' = NextStart(t)
  /\ UNCHANGED <<cron, deadline, clock, settled, asOf, pc, from, answered, passedOver>>

AppendStart ==
  /\ pc = "loop"
  /\ ~Past
  /\ IF TooMany
     THEN pc' = "err" /\ starts' = <<>> /\ t' = t
     ELSE pc' = pc /\ starts' = Append(starts, t) /\ t' = NextStart(t)
  /\ UNCHANGED <<cron, deadline, clock, settled, asOf, from, answered, passedOver>>

Finish ==
  /\ pc = "loop"
  /\ Past
  /\ pc' = "ok"
  /\ UNCHANGED <<cron, deadline, clock, settled, asOf, from, t, starts, answered, passedOver>>

(* What the pass makes of the answer.  An error gives up every start it    *)
(* was asked for.                                                          *)
Answered == IF pc = "err" THEN (from + 1)..asOf ELSE Range(starts)

(* Nothing was due, the target was not scaled, or that was not recorded.   *)
PassOver ==
  /\ pc \in {"ok", "err"}
  /\ answered' = answered \cup Answered
  /\ pc' = "idle"
  /\ UNCHANGED <<cron, deadline, clock, settled, asOf, from, t, starts, passedOver>>

(* This cron or another one, which has the same earliest time, was scaled  *)
(* for: all of them are settled up to a second reading of the clock        *)
(* (SettledWasPlanned in CronHPAController).                               *)
Settle ==
  /\ pc = "ok"
  /\ from < asOf
  /\ settled' = clock
  /\ answered' = answered \cup Answered
  /\ passedOver' = passedOver \cup (asOf + 1)..clock
  /\ pc' = "idle"
  /\ UNCHANGED <<cron, deadline, clock, asOf, from, t, starts>>

Next == Tick \/ Call \/ AppendStart \/ Finish \/ PassOver \/ Settle

Spec == Init /\ [][Next]_vars

(* A call, once begun, takes its rounds: there is nothing it waits for.    *)
FairSpec == Spec /\ WF_vars(AppendStart \/ Finish)

-----------------------------------------------------------------------------
(* Properties.                                                             *)

(***************************************************************************)
(* The loop returns what CronTimes says, oldest first: its callers take    *)
(* the last element for the latest start.                                  *)
(***************************************************************************)
Result == getRecentUnmetScheduleTimes(settled, asOf, cron, deadline)

LoopIsExact ==
  pc \in {"ok", "err"} =>
    /\ Result = [err |-> pc = "err", times |-> Range(starts)]
    /\ \A i, j \in 1..Len(starts) : i < j => starts[i] < starts[j]

(***************************************************************************)
(* Every call comes to an end, also where no round brings it nearer to its *)
(* end: for a schedule without a next start sched.Next returns the zero    *)
(* time, which is never after now, and only the limit stops the loop.      *)
(***************************************************************************)
CallEnds == pc = "loop" ~> pc \in {"ok", "err"}

(***************************************************************************)
(* If there is no deadline, or one that is not shorter than the time       *)
(* between two calls, a start is lost in one way only: it came after a     *)
(* pass had read the clock for its plan and before that pass, its target   *)
(* scaled, read the clock again for LastScheduleTime.  Every other start   *)
(* was found by a call, or given up by one with an error; one that is lost *)
(* is never found later.                                                   *)
(***************************************************************************)
Covers == deadline = 0 \/ deadline >= MaxGap

OnlyScalingLosesStarts ==
  pc = "idle" /\ Covers /\ cron \in Parseable /\ Every[cron] = 0
    => \A u \in Fires[cron] \cap 0..asOf : u \in answered <=> u \notin passedOver

(***************************************************************************)
(* "@every d" is due d seconds after the last scaling, unless the deadline *)
(* is shorter than d: then the start that is looked for moves away with    *)
(* the clock and never comes.                                              *)
(***************************************************************************)
DelayIsDue ==
  pc \in {"ok", "err"} /\ cron \in Parseable /\ Every[cron] # 0 =>
    (pc = "err" \/ starts # <<>>
       <=> /\ asOf - settled >= Every[cron]
           /\ deadline = 0 \/ deadline >= Every[cron])
=============================================================================
