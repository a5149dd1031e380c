------------------------ MODULE MissedStartsProofs -------------------------
(***************************************************************************)
(* Theorems about the calls of getRecentUnmetScheduleTimes, for any        *)
(* schedules, deadlines and times between passes.                          *)
(***************************************************************************)
EXTENDS MissedStarts, FiniteSetTheorems, WellFoundedInduction, TLAPS

LEMMA LeastNat ==
  ASSUME NEW S, S \subseteq Nat, S # {}
  PROVE  /\ Min(S) \in S
         /\ \A y \in S : Min(S) <= y
<1>1. PICK x \in S : \A y \in S : ~(<<y, x>> \in OpToRel(<, Nat))
  BY NatLessThanWellFounded, WFMin, Zenon
<1>2. OpToRel(<, Nat) = {ss \in Nat \X Nat : ss[1] < ss[2]}
  BY Zenon DEF OpToRel
<1>3. \A y \in S : x <= y
  <2> SUFFICES ASSUME NEW y \in S, y < x PROVE FALSE
    OBVIOUS
  <2>1. <<y, x>> \in {ss \in Nat \X Nat : ss[1] < ss[2]}
    OBVIOUS
  <2> QED  BY <1>1, <1>2, <2>1, Zenon
<1> QED  BY <1>3 DEF Min

LEMMA RangeAppend ==
  ASSUME NEW S, NEW s \in Seq(S), NEW e \in S
  PROVE  Range(Append(s, e)) = Range(s) \cup {e}
<1>1. DOMAIN s = 1 .. Len(s) /\ Len(s) \in Nat
  OBVIOUS
<1>2. DOMAIN Append(s, e) = 1 .. Len(s) + 1
  OBVIOUS
<1>3. /\ \A i \in DOMAIN s : Append(s, e)[i] = s[i]
      /\ Append(s, e)[Len(s) + 1] = e
  OBVIOUS
<1> QED  BY <1>1, <1>2, <1>3 DEF Range

(* sched.Next passes over no start, and knows of "@every d".               *)
LEMMA NextStartPassesOverNone ==
  ASSUME cron \in Schedule, NEW after \in Int
  PROVE  /\ NextStart(after) \in Int
         /\ Every[cron] = 0 =>
              \A u \in Fires[cron] : after < u => NextStart(after) <= u
         /\ Every[cron] # 0 => NextStart(after) = after + Every[cron]
<1> DEFINE later == {u \in Fires[cron] : u > after}
<1>1. Fires[cron] \subseteq Nat /\ Every[cron] \in Nat
  BY CronTimesAssumption
<1>2. later \subseteq Nat
  BY <1>1
<1>3. later # {} => Min(later) \in Nat /\ \A u \in later : Min(later) <= u
  BY <1>2, LeastNat
<1>4. ZeroTime \in Int
  BY MissedStartsAssumption
<1> QED  BY <1>1, <1>3, <1>4 DEF NextStart

-----------------------------------------------------------------------------
(* Types, and the limit on the number of rounds. *)

LEMMA TypeInit == Init => MissedTypeOK
<1> SUFFICES ASSUME Init PROVE MissedTypeOK
  OBVIOUS
<1> QED  BY MissedStartsAssumption DEF Init, MissedTypeOK

LEMMA TypeStep == MissedTypeOK /\ [Next]_vars => MissedTypeOK'
<1> SUFFICES ASSUME MissedTypeOK, [Next]_vars PROVE MissedTypeOK'
  OBVIOUS
<1> USE DEF MissedTypeOK
<1>1. deadline \in Int
  BY MissedStartsAssumption
<1>2. CASE Tick
  BY <1>2 DEF Tick, callVars
<1>3. CASE Call
  <2>1. EarliestTime(settled, clock, deadline) \in Int
    BY <1>1 DEF EarliestTime
  <2>2. NextStart(from') \in Int
    BY <1>3, <2>1, NextStartPassesOverNone DEF Call
  <2>3. from' \in Int /\ t' \in Int /\ starts' \in Seq(Int)
    BY <1>3, <2>1, <2>2 DEF Call
  <2>4. pc' \in {"loop", "ok", "err"} /\ asOf' = clock /\ (pc' = "loop" => from' <= clock)
    BY <1>3 DEF Call
  <2> QED  BY <1>3, <2>3, <2>4 DEF Call
<1>4. CASE AppendStart
  <2>1. NextStart(t) \in Int
    BY NextStartPassesOverNone
  <2>2. Append(starts, t) \in Seq(Int)
    OBVIOUS
  <2>3. /\ t' \in Int
        /\ starts' \in Seq(Int)
        /\ pc' \in {"err", "loop"}
        /\ pc' = "loop" => from' <= asOf'
        /\ UNCHANGED <<cron, deadline, clock, settled, asOf, from, answered, passedOver>>
    <3>1. CASE TooMany
      BY <1>4, <2>1, <3>1 DEF AppendStart
    <3>2. CASE ~TooMany
      BY <1>4, <2>1, <2>2, <3>2 DEF AppendStart
    <3> QED  BY <3>1, <3>2
  <2> QED  BY <2>3
<1>5. CASE Finish
  BY <1>5 DEF Finish
<1>6. Range(starts) \subseteq Int /\ Answered \subseteq Int
  BY DEF Answered, Range
<1>7. CASE PassOver
  BY <1>6, <1>7 DEF PassOver
<1>8. CASE Settle
  <2>1. (asOf + 1)..clock \subseteq Int
    OBVIOUS
  <2>2. /\ answered' = answered \cup Answered
        /\ passedOver' = passedOver \cup (asOf + 1)..clock
    BY <1>8 DEF Settle
  <2>3. answered' \subseteq Int /\ passedOver' \subseteq Int
    BY <1>6, <2>1, <2>2
  <2> QED  BY <1>8, <2>3 DEF Settle
<1>9. CASE UNCHANGED vars
  BY <1>9 DEF vars, callVars
<1> QED  BY <1>2, <1>3, <1>4, <1>5, <1>7, <1>8, <1>9 DEF Next

(***************************************************************************)
(* Every variable keeps to its type; the loop runs only for a time that is *)
(* not in the future (getRecentUnmetScheduleTimes returns early).          *)
(***************************************************************************)
THEOREM MissedTypeCorrect == Spec => []MissedTypeOK
<1> QED  BY TypeInit, TypeStep, PTL DEF Spec

(* The loop never collects more than MaxMissed starts.                     *)
WithinLimit == Len(starts) <= MaxMissed

LEMMA AlwaysWithinLimit == Spec => []WithinLimit
<1>1. Init => WithinLimit
  <2> SUFFICES ASSUME Init PROVE Len(starts) <= MaxMissed
    BY DEF WithinLimit
  <2>1. Len(starts) = 0
    BY DEF Init
  <2> QED  BY <2>1, CronTimesAssumption
<1>2. MissedTypeOK /\ WithinLimit /\ [Next]_vars => WithinLimit'
  <2> SUFFICES ASSUME MissedTypeOK, WithinLimit, [Next]_vars
               PROVE  Len(starts') <= MaxMissed
    BY DEF WithinLimit
  <2>1. CASE starts' = starts
    BY <2>1 DEF WithinLimit
  <2>2. CASE starts' = <<>>
    <3>1. Len(starts') = 0
      BY <2>2
    <3> QED  BY <3>1, CronTimesAssumption
  <2>3. CASE AppendStart /\ ~TooMany
    <3>1. Len(starts') = Len(starts) + 1 /\ Len(starts) \in Nat
      BY <2>3 DEF AppendStart, MissedTypeOK
    <3> QED  BY <2>3, <3>1, CronTimesAssumption DEF TooMany
  <2> QED
    BY <2>1, <2>2, <2>3
    DEF Next, Tick, Call, AppendStart, Finish, PassOver, Settle, vars, callVars
<1> QED  BY <1>1, <1>2, MissedTypeCorrect, PTL DEF Spec

-----------------------------------------------------------------------------
(* What the calls of all passes find. *)

Calendar == cron \in Parseable /\ Every[cron] = 0

(* A time that is behind the passes for good.                              *)
Behind(u) == u \in answered \/ u \in passedOver

(* A start up to the last call is behind, or this call is to find it.      *)
Pending ==
  \A u \in Fires[cron] : u <= asOf => Behind(u) \/ (pc # "idle" /\ from < u)

(* So is all that lies before the time the next call will look from.       *)
SettledBehind == \A u \in Fires[cron] : u <= settled => Behind(u)

(* What this call was to find and has not found is still before it.        *)
Found ==
  \A u \in Fires[cron] : from < u /\ u <= asOf =>
    /\ pc = "ok"   => u \in Range(starts)
    /\ pc = "loop" => u \in Range(starts) \/ t <= u

GapBounded == clock - asOf <= MaxGap

FindsAll == Calendar /\ Covers => Pending /\ SettledBehind /\ Found

LEMMA GapStep == MissedTypeOK /\ GapBounded /\ [Next]_vars => GapBounded'
<1> SUFFICES ASSUME MissedTypeOK, GapBounded, [Next]_vars PROVE GapBounded'
  OBVIOUS
<1>1. CASE Tick
  BY <1>1, MissedStartsAssumption DEF Tick, GapBounded, MissedTypeOK
<1>2. CASE Call
  BY <1>2, MissedStartsAssumption DEF Call, GapBounded, MissedTypeOK
<1> QED
  BY <1>1, <1>2
  DEF Next, AppendStart, Finish, PassOver, Settle, vars, callVars, GapBounded

LEMMA FindsAllInit == Init => FindsAll
<1> SUFFICES ASSUME Init, Calendar PROVE Pending /\ SettledBehind /\ Found
  BY DEF FindsAll
<1>1. Fires[cron] \subseteq Nat /\ settled \in Nat
  BY CronTimesAssumption, MissedStartsAssumption DEF Init
<1> QED  BY <1>1 DEF Init, Pending, SettledBehind, Found, Behind

LEMMA CallFindsAll ==
  ASSUME MissedTypeOK, GapBounded, Calendar, Covers,
         Pending, SettledBehind, Call
  PROVE  (Pending /\ SettledBehind /\ Found)'
<1>1. /\ Fires[cron] \subseteq Nat
      /\ clock \in Nat /\ asOf \in Nat /\ settled \in Nat /\ deadline \in Int
      /\ MaxGap \in Nat
  BY CronTimesAssumption, MissedStartsAssumption DEF MissedTypeOK
<1>2. /\ from' = EarliestTime(settled, clock, deadline)
      /\ from' \in Int
      /\ asOf' = clock /\ pc = "idle" /\ pc' # "idle"
      /\ UNCHANGED <<cron, settled, answered, passedOver>>
  BY <1>1 DEF Call, EarliestTime
<1>3. Pending'
  <2> SUFFICES ASSUME NEW u \in Fires[cron], u <= clock, ~Behind(u)
               PROVE  from' < u
    BY <1>2 DEF Pending, Behind
  <2>1. asOf < u
    BY <1>1, <1>2 DEF Pending
  <2>2. settled < u
    BY <1>1 DEF SettledBehind
  <2>3. CASE from' = settled
    BY <2>2, <2>3
  <2>4. CASE from' = clock - deadline /\ deadline # 0
    BY <1>1, <2>1, <2>4 DEF Covers, GapBounded
  <2> QED  BY <1>2, <2>3, <2>4 DEF EarliestTime
<1>4. Found'
  <2> SUFFICES ASSUME NEW u \in Fires[cron], from' < u, u <= clock
               PROVE  pc' = "loop" /\ t' <= u
    BY <1>2 DEF Found
  <2>1. from' <= clock
    BY <1>1, <1>2
  <2>2. pc' = "loop" /\ t' = NextStart(from')
    BY <1>1, <1>2, <2>1 DEF Call, Calendar
  <2> QED  BY <1>2, <2>2, NextStartPassesOverNone DEF Calendar, MissedTypeOK
<1> QED  BY <1>2, <1>3, <1>4 DEF SettledBehind, Behind

LEMMA AppendFindsAll ==
  ASSUME MissedTypeOK, Calendar, Pending, SettledBehind, Found, AppendStart
  PROVE  (Pending /\ SettledBehind /\ Found)'
<1>1. /\ Fires[cron] \subseteq Nat /\ t \in Int
      /\ pc = "loop" /\ pc' \in {"loop", "err"}
      /\ UNCHANGED <<cron, from, asOf, settled, answered, passedOver>>
  BY CronTimesAssumption DEF MissedTypeOK, AppendStart
<1>2. ASSUME NEW u \in Fires[cron], from < u, u <= asOf, pc' = "loop"
      PROVE  u \in Range(starts') \/ t' <= u
  <2>1. starts' = Append(starts, t) /\ t' = NextStart(t)
    BY <1>1, <1>2 DEF AppendStart
  <2>2. Range(starts') = Range(starts) \cup {t}
    BY <2>1, RangeAppend DEF MissedTypeOK
  <2>3. u \in Range(starts) \/ u = t \/ t < u
    BY <1>1, <1>2 DEF Found
  <2>4. t < u => t' <= u
    BY <1>1, <2>1, NextStartPassesOverNone DEF Calendar, MissedTypeOK
  <2> QED  BY <2>2, <2>3, <2>4
<1> QED  BY <1>1, <1>2 DEF Pending, SettledBehind, Found, Behind

LEMMA AnswerFindsAll ==
  ASSUME MissedTypeOK, Calendar, Pending, SettledBehind, Found,
         PassOver \/ Settle
  PROVE  (Pending /\ SettledBehind /\ Found)'
<1>1. /\ Fires[cron] \subseteq Nat
      /\ clock \in Nat /\ asOf \in Nat /\ from \in Int
      /\ pc \in {"ok", "err"} /\ pc' = "idle"
      /\ UNCHANGED <<cron, from, asOf>>
  BY CronTimesAssumption DEF MissedTypeOK, PassOver, Settle
<1>2. ASSUME NEW u \in Fires[cron], u <= asOf
      PROVE  Behind(u)'
  <2>1. u \in answered \cup Answered \/ u \in passedOver
    BY <1>1, <1>2 DEF Pending, Found, Answered, Behind
  <2> QED  BY <2>1 DEF Behind, PassOver, Settle
<1>3. Pending'
  BY <1>1, <1>2 DEF Pending
<1>4. SettledBehind'
  <2>1. CASE PassOver
    BY <2>1 DEF PassOver, SettledBehind, Behind
  <2>2. CASE Settle
    <3> SUFFICES ASSUME NEW u \in Fires[cron], u <= clock PROVE Behind(u)'
      BY <1>1, <2>2 DEF Settle, SettledBehind
    <3>1. u <= asOf \/ u \in (asOf + 1)..clock
      BY <1>1
    <3> QED  BY <1>2, <2>2, <3>1 DEF Settle, Behind
  <2> QED  BY <2>1, <2>2
<1>5. Found'
  BY <1>1 DEF Found
<1> QED  BY <1>3, <1>4, <1>5

LEMMA FindsAllStep ==
  MissedTypeOK /\ GapBounded /\ FindsAll /\ [Next]_vars => FindsAll'
<1> SUFFICES ASSUME MissedTypeOK, GapBounded, FindsAll, [Next]_vars,
                    Calendar', Covers'
             PROVE  (Pending /\ SettledBehind /\ Found)'
  BY DEF FindsAll
<1>1. UNCHANGED <<cron, deadline>>
  BY DEF Next, Tick, Call, AppendStart, Finish, PassOver, Settle, vars
<1>2. Calendar /\ Covers /\ Pending /\ SettledBehind /\ Found
  BY <1>1 DEF FindsAll, Calendar, Covers
<1>3. CASE Tick \/ UNCHANGED vars
  BY <1>2, <1>3 DEF Tick, vars, callVars, Pending, SettledBehind, Found, Behind
<1>4. CASE Finish
  <2>1. Fires[cron] \subseteq Nat /\ t \in Int /\ asOf \in Nat
    BY CronTimesAssumption DEF MissedTypeOK
  <2> QED
    BY <1>2, <1>4, <2>1 DEF Finish, Past, Pending, SettledBehind, Found, Behind
<1> QED
  BY <1>2, <1>3, <1>4, CallFindsAll, AppendFindsAll, AnswerFindsAll DEF Next

-----------------------------------------------------------------------------
(* "@every d". *)

Delay == cron \in Parseable /\ Every[cron] # 0

(* The one start that decides lies Every[cron] after the earliest time.    *)
OneStartDecides ==
  LET due == from + Every[cron] <= asOf
  IN  /\ from = EarliestTime(settled, asOf, deadline)
      /\ pc = "loop" => IF starts = <<>> THEN t = from + Every[cron] ELSE due
      /\ pc = "ok"   => (due <=> starts # <<>>)
      /\ pc = "err"  => due

DelayInv == Delay /\ pc # "idle" => OneStartDecides

LEMMA DelayStep == MissedTypeOK /\ DelayInv /\ [Next]_vars => DelayInv'
<1> SUFFICES ASSUME MissedTypeOK, DelayInv, [Next]_vars, Delay', pc' # "idle"
             PROVE  OneStartDecides'
  BY DEF DelayInv
<1>1. UNCHANGED <<cron, deadline>>
  BY DEF Next, Tick, Call, AppendStart, Finish, PassOver, Settle, vars
<1>2. /\ Every[cron] \in Nat /\ Every[cron] > 0
      /\ from \in Int /\ t \in Int /\ starts \in Seq(Int)
      /\ clock \in Nat /\ asOf \in Nat /\ settled \in Nat /\ deadline \in Int
      /\ Delay
  BY <1>1, CronTimesAssumption, MissedStartsAssumption DEF MissedTypeOK, Delay
<1>3. CASE Tick \/ UNCHANGED vars
  BY <1>2, <1>3 DEF Tick, vars, callVars, DelayInv, OneStartDecides
<1>4. CASE Call
  <2>1. from' = EarliestTime(settled, clock, deadline) /\ from' \in Int
    BY <1>2, <1>4 DEF Call, EarliestTime
  <2>2. NextStart(from') = from' + Every[cron]
    BY <1>2, <2>1 DEF NextStart
  <2>3. /\ asOf' = clock /\ settled' = settled /\ starts' = <<>>
        /\ \/ pc' = "ok" /\ from' > clock
           \/ pc' = "loop" /\ t' = from' + Every[cron]
    BY <1>2, <1>4, <2>2 DEF Call, Delay
  <2> QED  BY <1>1, <1>2, <2>1, <2>3 DEF OneStartDecides
<1>5. CASE AppendStart
  <2>1. pc = "loop" /\ OneStartDecides /\ t <= asOf
    BY <1>2, <1>5 DEF AppendStart, Past, DelayInv
  <2>2. from + Every[cron] <= asOf
    BY <1>2, <2>1 DEF OneStartDecides
  <2>3. /\ UNCHANGED <<from, asOf, settled>>
        /\ \/ pc' = "err"
           \/ pc' = "loop" /\ starts' # <<>>
    BY <1>2, <1>5 DEF AppendStart
  <2> QED  BY <1>1, <2>1, <2>2, <2>3 DEF OneStartDecides
<1>6. CASE Finish
  <2>1. pc = "loop" /\ OneStartDecides /\ t > asOf
    BY <1>2, <1>6 DEF Finish, Past, DelayInv
  <2>2. pc' = "ok" /\ UNCHANGED <<from, asOf, settled, starts>>
    BY <1>6 DEF Finish
  <2> QED  BY <1>1, <1>2, <2>1, <2>2 DEF OneStartDecides
<1>7. ~PassOver /\ ~Settle
  BY DEF PassOver, Settle
<1> QED  BY <1>3, <1>4, <1>5, <1>6, <1>7 DEF Next

(***************************************************************************)
(* An "@every d" cron comes due d seconds after the last scaling, and      *)
(* never if startingDeadlineSeconds is set and below d.                    *)
(***************************************************************************)
THEOREM DelayComesDue == Spec => []DelayIsDue
<1>1. Init => DelayInv
  BY DEF Init, DelayInv
<1>2. MissedTypeOK /\ DelayInv => DelayIsDue
  <2> SUFFICES ASSUME MissedTypeOK, OneStartDecides, Delay, pc \in {"ok", "err"}
               PROVE  (pc = "err" \/ starts # <<>>) <=>
                        /\ asOf - settled >= Every[cron]
                        /\ deadline = 0 \/ deadline >= Every[cron]
    BY DEF DelayIsDue, DelayInv, Delay
  <2>1. /\ Every[cron] \in Nat /\ from \in Int
        /\ asOf \in Nat /\ settled \in Nat /\ deadline \in Int
    BY CronTimesAssumption, MissedStartsAssumption DEF MissedTypeOK, Delay
  <2>2. (pc = "err" \/ starts # <<>>) <=> from + Every[cron] <= asOf
    BY DEF OneStartDecides
  <2>3. from = EarliestTime(settled, asOf, deadline)
    BY DEF OneStartDecides
  <2> QED  BY <2>1, <2>2, <2>3 DEF EarliestTime, Delay
<1> QED
  BY <1>1, <1>2, DelayStep, MissedTypeCorrect, PTL DEF Spec
-----------------------------------------------------------------------------
(* Division.  The provers know quotient and remainder, the rest follows.   *)

LEMMA Quotient ==
  ASSUME NEW e \in Nat, e > 0, NEW n \in Int
  PROVE  /\ n \div e \in Int
         /\ n % e \in 0..(e - 1)
         /\ n = e * (n \div e) + (n % e)
<1>1. n \div e \in Int
  OBVIOUS
<1>2. n % e \in Int /\ 0 <= n % e /\ n % e < e
  OBVIOUS
<1>3. n = e * (n \div e) + (n % e)
  OBVIOUS
<1> QED  BY <1>1, <1>2, <1>3

LEMMA NextMultiple ==
  ASSUME NEW e \in Nat, NEW p \in Int, NEW q \in Int, p < q
  PROVE  e * p + e <= e * q
<1>1. PICK d \in Nat : q = p + 1 + d
  <2>1. q - p - 1 \in Nat
    OBVIOUS
  <2> QED  BY <2>1
<1>2. e * q = e * p + e + e * d
  BY <1>1
<1>3. e * d >= 0
  OBVIOUS
<1> QED  BY <1>2, <1>3

LEMMA MultipleHasNoRemainder ==
  ASSUME NEW e \in Nat, e > 0, NEW q \in Int
  PROVE  (e * q) % e = 0
<1> DEFINE n == e * q
<1>1. n \in Int /\ n = e * q
  OBVIOUS
<1> HIDE DEF n
<1>2. PICK p \in Int, s \in 0..(e - 1) : n = e * p + s /\ n % e = s
  BY <1>1, Quotient
<1>3. ~(p < q) /\ ~(q < p)
  BY <1>1, <1>2, NextMultiple
<1>4. p = q
  BY <1>3
<1> QED  BY <1>1, <1>2, <1>4 DEF n

LEMMA SumAndDifference ==
  ASSUME NEW e \in Nat, e > 0, NEW m \in Int, NEW n \in Int, m % e = 0, n % e = 0
  PROVE  (m - n) % e = 0 /\ (n + e) % e = 0
<1>1. /\ m = e * (m \div e) /\ m \div e \in Int
      /\ n = e * (n \div e) /\ n \div e \in Int
  BY Quotient
<1>2. PICK p \in Int, q \in Int : m = e * p /\ n = e * q
  BY <1>1, Zenon
<1>3. m - n = e * (p - q) /\ p - q \in Int
  BY <1>2
<1>4. n + e = e * (q + 1) /\ q + 1 \in Int
  BY <1>2
<1> QED  BY <1>3, <1>4, MultipleHasNoRemainder

LEMMA NoneBetween ==
  ASSUME NEW e \in Nat, e > 0, NEW m \in Int, NEW n \in Int, m % e = 0, n % e = 0,
         n < m
  PROVE  n + e <= m
<1>1. m - n \in Nat /\ m - n > 0
  OBVIOUS
<1>2. (m - n) % e = 0
  BY SumAndDifference
<1>3. \A k \in Nat : k > 0 /\ k % e = 0 => k >= e
  OBVIOUS
<1>4. m - n >= e
  BY <1>1, <1>2, <1>3
<1> QED  BY <1>4

-----------------------------------------------------------------------------
(* What one call computes. *)

Missed == FiresBetween(cron, from, asOf)

Endless == NoNextStart(cron, asOf)

Ascending == \A i, j \in 1..Len(starts) : i < j => starts[i] < starts[j]

(* The starts before t have been found, each of them once.                 *)
Collected ==
  /\ Range(starts) = {u \in Missed : u < t}
  /\ Ascending
  /\ Cardinality(Range(starts)) = Len(starts)
  /\ t > asOf \/ t \in Missed

CallInv ==
  pc # "idle" =>
    /\ from = EarliestTime(settled, asOf, deadline)
    /\ pc = "loop" => /\ cron \in Parseable
                      /\ IF Endless THEN t <= asOf ELSE Collected
    /\ pc = "ok" => /\ cron \in Parseable
                    /\ from <= asOf => ~Endless
                    /\ Range(starts) = Missed
                    /\ Ascending
                    /\ Cardinality(Missed) <= MaxMissed
    /\ pc = "err" => /\ starts = <<>>
                     /\ \/ cron \notin Parseable
                        \/ /\ from <= asOf
                           /\ Endless \/ Cardinality(Missed) > MaxMissed

LEMMA MissedIsFinite ==
  ASSUME MissedTypeOK
  PROVE  Missed \subseteq Int /\ IsFiniteSet(Missed) /\ Cardinality(Missed) \in Nat
<1>1. from + 1 \in Int /\ asOf \in Int
  BY DEF MissedTypeOK
<1>2. IsFiniteSet((from + 1) .. asOf)
  BY <1>1, FS_Interval
<1>3. Missed \subseteq (from + 1) .. asOf
  BY DEF Missed, FiresBetween
<1>4. IsFiniteSet(Missed)
  BY <1>2, <1>3, FS_Subset
<1> QED  BY <1>1, <1>3, <1>4, FS_CardinalityType

(* sched.Next from the beginning, or from a start, gives the next one.     *)
LEMMA NextIsNext ==
  ASSUME cron \in Schedule, NEW first \in Int, NEW now \in Nat, NEW after \in Int,
         after <= now, ~NoNextStart(cron, now),
         after = first \/ after \in FiresBetween(cron, first, now)
  PROVE  LET n == NextStart(after)
         IN  /\ n \in Int /\ n > after
             /\ \A u \in FiresBetween(cron, first, now) : u > after => n <= u
             /\ n > now \/ n \in FiresBetween(cron, first, now)
<1> DEFINE n == NextStart(after)
<1>1. Fires[cron] \subseteq Nat /\ Every[cron] \in Nat
  BY CronTimesAssumption
<1>2. n \in Int /\ first <= after
  BY NextStartPassesOverNone DEF FiresBetween
<1>3. CASE Every[cron] = 0
  <2>1. PICK u \in Fires[cron] : u > now
    BY <1>1, <1>3 DEF NoNextStart
  <2>2. u \in {v \in Fires[cron] : v > after} /\ {v \in Fires[cron] : v > after} \subseteq Nat
    BY <1>1, <2>1
  <2>3. n = Min({v \in Fires[cron] : v > after})
    BY <1>3, <2>2 DEF NextStart
  <2>4. n \in {v \in Fires[cron] : v > after}
    BY <2>2, <2>3, LeastNat
  <2>5. \A v \in FiresBetween(cron, first, now) : v > after => n <= v
    BY <1>3, NextStartPassesOverNone DEF FiresBetween
  <2>6. n > now \/ n \in FiresBetween(cron, first, now)
    BY <1>2, <1>3, <2>4 DEF FiresBetween
  <2> QED  BY <1>2, <2>4, <2>5, <2>6
<1>4. CASE Every[cron] # 0
  <2> DEFINE e == Every[cron]
  <2>1. e \in Nat /\ e > 0
    BY <1>1, <1>4
  <2>2. n = after + e
    BY <1>4, NextStartPassesOverNone
  <2>3. FiresBetween(cron, first, now) = {v \in (first + 1)..now : (v - first) % e = 0}
    BY <1>4 DEF FiresBetween
  <2> HIDE DEF e, n
  <2>4. (after - first) % e = 0
    <3>1. CASE after \in FiresBetween(cron, first, now)
      BY <2>3, <3>1
    <3>2. CASE after = first
      <4>1. after - first = e * 0
        BY <2>1, <3>2
      <4> QED  BY <2>1, <4>1, MultipleHasNoRemainder
    <3> QED  BY <3>1, <3>2
  <2>5. \A v \in FiresBetween(cron, first, now) : v > after => n <= v
    <3> SUFFICES ASSUME NEW v \in (first + 1)..now, (v - first) % e = 0, v > after
                 PROVE  n <= v
      BY <2>3
    <3>1. v - first \in Int /\ after - first \in Int /\ after - first < v - first
      OBVIOUS
    <3>2. (after - first) + e <= v - first
      BY <2>1, <2>4, <3>1, NoneBetween
    <3> QED  BY <2>1, <2>2, <3>2
  <2>6. n > now \/ n \in FiresBetween(cron, first, now)
    <3>1. after - first \in Int
      OBVIOUS
    <3>2. ((after - first) + e) % e = 0
      BY <2>1, <2>4, <3>1, SumAndDifference
    <3>3. n - first = (after - first) + e /\ n > after
      BY <2>1, <2>2
    <3>4. (n - first) % e = 0
      BY <3>2, <3>3
    <3> QED  BY <1>2, <2>1, <2>3, <3>3, <3>4 DEF n
  <2>7. n > after
    BY <2>1, <2>2
  <2> QED  BY <1>2, <2>5, <2>6, <2>7 DEF n
<1> QED  BY <1>3, <1>4

(* Without a next start sched.Next always gives a time that is not after now. *)
LEMMA EndlessNext ==
  ASSUME cron \in Schedule, NEW now \in Nat, NEW after \in Int, NoNextStart(cron, now)
  PROVE  NextStart(after) <= now
<1> DEFINE later == {u \in Fires[cron] : u > after}
<1>1. Fires[cron] \subseteq Nat /\ Every[cron] = 0 /\ \A u \in Fires[cron] : u <= now
  BY CronTimesAssumption DEF NoNextStart
<1>2. later # {} => Min(later) \in later
  BY <1>1, LeastNat
<1>3. ZeroTime <= now
  BY MissedStartsAssumption
<1> QED  BY <1>1, <1>2, <1>3 DEF NextStart

LEMMA CallCollects ==
  ASSUME MissedTypeOK, MissedTypeOK', Call
  PROVE  CallInv'
<1>1. /\ UNCHANGED <<cron, settled, deadline>>
      /\ asOf' = clock /\ asOf' \in Nat /\ from' \in Int /\ cron \in Schedule
      /\ from' = EarliestTime(settled, asOf', deadline)
      /\ starts' = <<>>
  BY DEF Call, MissedTypeOK
<1>2. Range(starts') = {} /\ Len(starts') = 0
  BY <1>1 DEF Range
<1>3. Ascending'
  BY <1>2 DEF Ascending
<1>4. CASE cron \notin Parseable
  BY <1>1, <1>4 DEF Call, CallInv
<1>5. CASE cron \in Parseable /\ from' > clock
  <2>1. Missed' = {}
    BY <1>1, <1>5 DEF Missed, FiresBetween, EarliestTime
  <2>2. Cardinality(Missed') <= MaxMissed
    BY <2>1, FS_EmptySet, CronTimesAssumption
  <2> QED  BY <1>1, <1>2, <1>3, <1>5, <2>1, <2>2 DEF Call, CallInv
<1>6. CASE cron \in Parseable /\ from' <= clock
  <2>1. pc' = "loop" /\ t' = NextStart(from')
    BY <1>1, <1>6 DEF Call
  <2>2. CASE Endless'
    <3>1. t' <= asOf'
      BY <1>1, <2>1, <2>2, EndlessNext DEF Endless
    <3> QED  BY <1>1, <1>6, <2>1, <2>2, <3>1 DEF CallInv
  <2>3. CASE ~Endless'
    <3>1. Missed' = FiresBetween(cron, from', asOf')
      BY <1>1 DEF Missed
    <3>2. /\ t' \in Int /\ t' > from'
          /\ \A u \in Missed' : u > from' => t' <= u
          /\ t' > asOf' \/ t' \in Missed'
      BY <1>1, <1>6, <2>1, <2>3, <3>1, NextIsNext DEF Endless
    <3>3. \A u \in Missed' : u \in Int /\ u > from'
      BY <1>1, <3>1 DEF FiresBetween
    <3>4. {u \in Missed' : u < t'} = {}
      BY <3>2, <3>3
    <3>5. Cardinality(Range(starts')) = Len(starts')
      BY <1>2, FS_EmptySet
    <3>6. Collected'
      BY <1>2, <1>3, <3>2, <3>4, <3>5 DEF Collected
    <3> QED  BY <1>1, <1>6, <2>1, <2>3, <3>6 DEF CallInv
  <2> QED  BY <2>2, <2>3
<1> QED  BY <1>1, <1>4, <1>5, <1>6 DEF MissedTypeOK

LEMMA AppendCollects ==
  ASSUME MissedTypeOK, MissedTypeOK', CallInv, AppendStart
  PROVE  CallInv'
<1>1. /\ pc = "loop" /\ t \in Int /\ t <= asOf /\ from \in Int /\ asOf \in Nat
      /\ from <= asOf
      /\ starts \in Seq(Int)
      /\ cron \in Schedule /\ cron \in Parseable
      /\ UNCHANGED <<cron, deadline, settled, asOf, from>>
      /\ from = EarliestTime(settled, asOf, deadline)
  BY DEF AppendStart, Past, MissedTypeOK, CallInv
<1>2. Missed' = Missed /\ (Endless' <=> Endless)
  BY <1>1 DEF Missed, Endless
<1>3. ~Endless => Collected /\ t \in Missed
  BY <1>1 DEF CallInv, Collected
<1>4. Len(starts) \in Nat /\ IsFiniteSet(Missed) /\ Missed \subseteq Int
  BY <1>1, MissedIsFinite
<1>5. ~Endless => /\ IsFiniteSet(Range(starts) \cup {t})
                  /\ Range(starts) \cup {t} \subseteq Missed
                  /\ Cardinality(Range(starts) \cup {t}) = Len(starts) + 1
  <2> SUFFICES ASSUME Collected, t \in Missed
               PROVE  /\ IsFiniteSet(Range(starts) \cup {t})
                      /\ Range(starts) \cup {t} \subseteq Missed
                      /\ Cardinality(Range(starts) \cup {t}) = Len(starts) + 1
    BY <1>3
  <2>1. Range(starts) \subseteq Missed /\ t \notin Range(starts)
    BY <1>1 DEF Collected
  <2>2. IsFiniteSet(Range(starts))
    BY <1>4, <2>1, FS_Subset
  <2> QED  BY <2>1, <2>2, FS_AddElement DEF Collected
<1>6. CASE TooMany
  <2>1. pc' = "err" /\ starts' = <<>>
    BY <1>6 DEF AppendStart
  <2>2. ~Endless => Cardinality(Missed) > MaxMissed
    <3> SUFFICES ASSUME ~Endless PROVE Cardinality(Missed) > MaxMissed
      OBVIOUS
    <3>1. Len(starts) + 1 <= Cardinality(Missed)
      BY <1>4, <1>5, FS_Subset
    <3>2. Cardinality(Missed) \in Nat
      BY MissedIsFinite
    <3> QED  BY <1>4, <1>6, <3>1, <3>2, CronTimesAssumption DEF TooMany
  <2> QED  BY <1>1, <1>2, <2>1, <2>2 DEF CallInv
<1>7. CASE ~TooMany
  <2>1. pc' = "loop" /\ starts' = Append(starts, t) /\ t' = NextStart(t)
    BY <1>1, <1>7 DEF AppendStart
  <2>2. CASE Endless
    <3>1. t' <= asOf
      BY <1>1, <2>1, <2>2, EndlessNext DEF Endless
    <3> QED  BY <1>1, <1>2, <2>1, <2>2, <3>1 DEF CallInv
  <2>3. CASE ~Endless
    <3>1. Collected /\ t \in Missed
      BY <1>3, <2>3
    <3>2. /\ t' \in Int /\ t' > t
          /\ \A u \in Missed : u > t => t' <= u
          /\ t' > asOf \/ t' \in Missed
      BY <1>1, <2>1, <2>3, <3>1, NextIsNext DEF Missed, Endless
    <3>3. Range(starts') = Range(starts) \cup {t}
      BY <1>1, <2>1, RangeAppend
    <3>4. Range(starts') = {u \in Missed' : u < t'}
      <4>1. \A u \in Missed : u < t' <=> (u < t \/ u = t)
        BY <1>1, <1>4, <3>2
      <4> QED  BY <1>2, <3>1, <3>3, <4>1 DEF Collected
    <3>5. Len(starts') = Len(starts) + 1
      BY <1>1, <2>1
    <3>6. Cardinality(Range(starts')) = Len(starts')
      BY <1>5, <2>3, <3>3, <3>5
    <3>7. Ascending'
      <4>1. \A i \in 1..Len(starts) : starts'[i] = starts[i] /\ starts[i] \in Range(starts)
        BY <1>1, <2>1 DEF Range
      <4>2. \A i \in 1..Len(starts) : starts[i] < t
        BY <3>1, <4>1 DEF Collected
      <4>3. starts'[Len(starts) + 1] = t
        BY <1>1, <2>1
      <4>4. ASSUME NEW i \in 1..(Len(starts) + 1), NEW j \in 1..(Len(starts) + 1), i < j
            PROVE  starts'[i] < starts'[j]
        <5>1. i \in 1..Len(starts)
          BY <1>4, <4>4
        <5>2. CASE j = Len(starts) + 1
          BY <4>1, <4>2, <4>3, <5>1, <5>2
        <5>3. CASE j \in 1..Len(starts)
          BY <3>1, <4>1, <4>4, <5>1, <5>3 DEF Collected, Ascending
        <5> QED  BY <1>4, <5>2, <5>3
      <4> QED  BY <3>5, <4>4 DEF Ascending
    <3>8. Collected'
      BY <1>1, <1>2, <3>2, <3>4, <3>6, <3>7 DEF Collected
    <3> QED  BY <1>1, <1>2, <2>1, <2>3, <3>8 DEF CallInv
  <2> QED  BY <2>2, <2>3
<1> QED  BY <1>6, <1>7

LEMMA CallStep ==
  MissedTypeOK /\ MissedTypeOK' /\ WithinLimit /\ CallInv /\ [Next]_vars => CallInv'
<1> SUFFICES ASSUME MissedTypeOK, MissedTypeOK', WithinLimit, CallInv, [Next]_vars
             PROVE  CallInv'
  OBVIOUS
<1>1. CASE Tick \/ UNCHANGED vars
  BY <1>1 DEF Tick, vars, callVars, CallInv, Missed, Endless, Ascending, Collected
<1>2. CASE Finish
  <2>1. /\ pc = "loop" /\ pc' = "ok" /\ t > asOf /\ t \in Int /\ asOf \in Nat
        /\ UNCHANGED <<cron, deadline, settled, asOf, from, starts>>
    BY <1>2 DEF Finish, Past, MissedTypeOK
  <2>2. ~Endless /\ Collected
    BY <2>1 DEF CallInv
  <2>3. \A u \in Missed : u < t
    BY <2>1 DEF Missed, FiresBetween, MissedTypeOK
  <2>4. Range(starts) = Missed /\ Cardinality(Missed) <= MaxMissed
    BY <2>2, <2>3 DEF Collected, WithinLimit
  <2>5. Missed' = Missed /\ (Endless' <=> Endless) /\ (Ascending' <=> Ascending)
    BY <2>1 DEF Missed, Endless, Ascending
  <2> QED  BY <2>1, <2>2, <2>4, <2>5 DEF CallInv, Collected
<1>3. CASE PassOver \/ Settle
  BY <1>3 DEF PassOver, Settle, CallInv
<1> QED
  BY <1>1, <1>2, <1>3, CallCollects, AppendCollects DEF Next

LEMMA CallCorrect == Spec => []CallInv
<1>1. Init => CallInv
  BY DEF Init, CallInv
<1> QED  BY <1>1, CallStep, MissedTypeCorrect, AlwaysWithinLimit, PTL DEF Spec

(***************************************************************************)
(* The loop of getRecentUnmetScheduleTimes returns what CronTimes says it  *)
(* does, in ascending order, for any schedule and any limit.               *)
(***************************************************************************)
THEOREM LoopComputesUnmetTimes == Spec => []LoopIsExact
<1>1. CallInv /\ MissedTypeOK => LoopIsExact
  <2> SUFFICES ASSUME CallInv, MissedTypeOK, pc \in {"ok", "err"}
               PROVE  /\ Result = [err |-> pc = "err", times |-> Range(starts)]
                      /\ Ascending
    BY DEF LoopIsExact, Ascending
  <2> DEFINE failed == \/ cron \notin Parseable
                       \/ /\ from <= asOf
                          /\ Cardinality(Missed) > MaxMissed \/ Endless
  <2>1. Result = [err |-> failed, times |-> IF failed THEN {} ELSE Missed]
    BY DEF CallInv, Result, getRecentUnmetScheduleTimes, Missed, Endless
  <2>2. CASE pc = "ok"
    <3>1. ~failed /\ Range(starts) = Missed /\ Ascending
      BY <2>2, MissedIsFinite, CronTimesAssumption DEF CallInv
    <3> QED  BY <2>1, <2>2, <3>1
  <2>3. CASE pc = "err"
    <3>1. failed /\ starts = <<>>
      BY <2>3 DEF CallInv
    <3>2. Range(starts) = {} /\ Ascending
      BY <3>1 DEF Range, Ascending
    <3> QED  BY <2>1, <2>3, <3>1, <3>2
  <2> QED  BY <2>2, <2>3
<1> QED  BY <1>1, CallCorrect, MissedTypeCorrect, PTL

-----------------------------------------------------------------------------
(* What is passed over is not found, neither before nor after. *)

Apart ==
  /\ \A u \in answered : u <= asOf \/ u <= settled
  /\ \A u \in passedOver : u <= settled /\ u \notin answered

(* A call looks only at what lies between the last scaling and its time.   *)
LEMMA AnsweredIsNew ==
  ASSUME MissedTypeOK, CallInv, pc \in {"ok", "err"}
  PROVE  /\ settled <= from
         /\ \A u \in Answered : settled < u /\ u <= asOf
<1>1. settled \in Nat /\ asOf \in Nat /\ from \in Int /\ deadline \in Int
  BY MissedStartsAssumption DEF MissedTypeOK
<1>2. from = EarliestTime(settled, asOf, deadline)
  BY DEF CallInv
<1>3. settled <= from
  BY <1>1, <1>2 DEF EarliestTime
<1>4. \A u \in Answered : u \in (from + 1)..asOf
  BY DEF CallInv, Answered, Missed, FiresBetween
<1> QED  BY <1>1, <1>3, <1>4

LEMMA ApartStep == MissedTypeOK /\ CallInv /\ Apart /\ [Next]_vars => Apart'
<1> SUFFICES ASSUME MissedTypeOK, CallInv, Apart, [Next]_vars PROVE Apart'
  OBVIOUS
<1>1. /\ clock \in Nat /\ settled \in Nat /\ asOf \in Nat /\ asOf <= clock
      /\ answered \subseteq Int /\ passedOver \subseteq Int
  BY DEF MissedTypeOK
<1>2. CASE Call
  BY <1>1, <1>2 DEF Call, Apart
<1>3. CASE PassOver
  <2>1. \A u \in Answered : settled < u /\ u <= asOf
    BY <1>3, AnsweredIsNew DEF PassOver
  <2>2. answered' = answered \cup Answered /\ UNCHANGED <<settled, asOf, passedOver>>
    BY <1>3 DEF PassOver
  <2> QED  BY <1>1, <2>1, <2>2 DEF Apart
<1>4. CASE Settle
  <2>1. settled < asOf /\ \A u \in Answered : settled < u /\ u <= asOf
    BY <1>1, <1>4, AnsweredIsNew DEF Settle, MissedTypeOK
  <2>2. /\ answered' = answered \cup Answered
        /\ passedOver' = passedOver \cup (asOf + 1)..clock
        /\ settled' = clock /\ asOf' = asOf
    BY <1>4 DEF Settle
  <2>3. \A u \in answered' : u <= asOf
    BY <1>1, <2>1, <2>2 DEF Apart
  <2>4. ASSUME NEW u \in passedOver' PROVE u <= clock /\ u \notin answered'
    <3>1. CASE u \in passedOver
      BY <1>1, <2>1, <2>2, <3>1 DEF Apart
    <3>2. CASE u \in (asOf + 1)..clock
      BY <1>1, <2>3, <3>2
    <3> QED  BY <2>2, <2>4, <3>1, <3>2
  <2> QED  BY <2>2, <2>3, <2>4 DEF Apart
<1>5. CASE Tick \/ AppendStart \/ Finish \/ UNCHANGED vars
  BY <1>5 DEF Tick, AppendStart, Finish, vars, callVars, Apart
<1> QED  BY <1>2, <1>3, <1>4, <1>5 DEF Next

(***************************************************************************)
(* If a call comes at least every MaxGap seconds and startingDeadline-     *)
(* Seconds is 0 or not below MaxGap, the only starts of a calendar         *)
(* schedule that are lost are those between the two readings of the clock  *)
(* in a pass that scales, and those are lost for good.                     *)
(***************************************************************************)
THEOREM ScalingAloneLosesStarts == Spec => []OnlyScalingLosesStarts
<1>1. Init => GapBounded
  BY MissedStartsAssumption DEF Init, GapBounded
<1>2. Init => Apart
  <2> SUFFICES ASSUME Init PROVE Apart
    OBVIOUS
  <2>1. settled \in Nat /\ answered = 0..settled /\ passedOver = {}
    BY MissedStartsAssumption DEF Init
  <2> QED  BY <2>1 DEF Apart
<1>3. FindsAll /\ Apart /\ MissedTypeOK => OnlyScalingLosesStarts
  <2> SUFFICES ASSUME MissedTypeOK, Apart, Calendar, Pending, pc = "idle",
                      NEW u \in Fires[cron] \cap 0..asOf
               PROVE  u \in answered <=> u \notin passedOver
    BY DEF FindsAll, OnlyScalingLosesStarts, Calendar
  <2>1. Behind(u)
    BY DEF Pending, MissedTypeOK
  <2> QED  BY <2>1 DEF Behind, Apart
<1> QED
  BY <1>1, <1>2, <1>3, FindsAllInit, FindsAllStep, GapStep, ApartStep,
     CallCorrect, MissedTypeCorrect, PTL DEF Spec
=============================================================================
