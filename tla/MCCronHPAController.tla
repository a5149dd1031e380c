------------------------ MODULE MCCronHPAController ------------------------
(***************************************************************************)
(* The controller on small instances.  The clock stops at MaxTime; each    *)
(* schedule that recurs fires once more at a time beyond it, as it always  *)
(* has a next start.                                                       *)
(***************************************************************************)
EXTENDS CronHPAController, TLC

CONSTANTS c1, c2, h1, h2, t1

Later == 99

MCSchedule == {"each", "even", "holiday", "bad", "never", "delay"}

(* "bad" is refused by the parser, "never" fires on no date there is. *)
MCParseable == MCSchedule \ {"bad"}

MCFires == [each |-> {1, 2, 3, 4, 5, Later}, even |-> {2, 4, Later},
            holiday |-> {2, 3, Later}, bad |-> {}, never |-> {}, delay |-> {}]

(* "delay" is "@every 2s". *)
MCEvery == [s \in MCSchedule |-> IF s = "delay" THEN 2 ELSE 0]

Deployment == [kind |-> "Deployment", name |-> t1]

Up   == [name |-> "up", schedule |-> "even", runOnce |-> FALSE, targeSize |-> 2]
Once == [name |-> "once", schedule |-> "each", runOnce |-> TRUE, targeSize |-> 1]
Hour == [name |-> "hour", schedule |-> "each", runOnce |-> FALSE, targeSize |-> 1]

(* Two crons that are due at the same times, one of them once. *)
Both == [scaleTargetRef |-> Deployment, crons |-> <<Up, Once>>,
         excludeDates |-> {}, startingDeadlineSeconds |-> 0]

(* The even starts of a holiday are left out; starts older than 2 are not *)
(* looked at.                                                              *)
Holidays == [scaleTargetRef |-> Deployment, crons |-> <<Up>>,
             excludeDates |-> {"holiday"}, startingDeadlineSeconds |-> 2]

(* One start a second: too many are missed soon. *)
Hourly == [scaleTargetRef |-> Deployment, crons |-> <<Hour>>,
           excludeDates |-> {}, startingDeadlineSeconds |-> 0]

(* Two seconds after the last scaling. *)
Delayed == [Hourly EXCEPT !.crons = <<[Hour EXCEPT !.schedule = "delay"]>>]

Doubled == [Hourly EXCEPT !.crons = <<Hour, [Up EXCEPT !.name = "hour"]>>]

Broken == [Hourly EXCEPT !.excludeDates = {"bad"}]

Never == [Hourly EXCEPT !.crons = <<[Hour EXCEPT !.schedule = "never"]>>]

(* Through the HPA. *)
Scaler == [kind |-> HPAKind, name |-> t1]
BothScaled == [Both EXCEPT !.scaleTargetRef = Scaler]

(* Through an HPA that is not there: every scaling fails. *)
Unreachable == [Hourly EXCEPT !.scaleTargetRef = Scaler]

ScalerSpecs  == {BothScaled, Both}
EditSpecs    == {Both, Hourly, Delayed}
HolidaySpecs == {Holidays}
OnceSpecs    == {Both}
HourlySpecs  == {Hourly}
QueueSpecs   == {Hourly, Doubled, Broken, Never, Unreachable}

NoSkew == [c \in Controller |-> 0]

(* The second process is a second ahead. *)
Ahead == [c \in Controller |-> IF c = c2 THEN 1 ELSE 0]

MCTargeSizes == 1..2
MCSize == {1}
=============================================================================
