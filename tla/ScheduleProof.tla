---------------------------- MODULE ScheduleProof ----------------------------
(* For all numbers and on every clock: how long main() sleeps after failures,*)
(* the longest time without an uptime line, the second rounds begin on, and  *)
(* when sections run: within their minutes of rounds, and not before.        *)
EXTENDS Schedule, TLAPS

(* A sleep that may still grow is at most Limit, so that one step more is    *)
(* the most it can become: the counters keep their ranges (1001-1011).       *)
Ranges == CountersOK /\ SleepBounded

(* Initially nothing has failed. *)
LEMMA RangesInit == Fresh => Ranges
BY NumbersAssumption DEF Fresh, Ranges, CountersOK, SleepBounded

(* Every step keeps the counters in their ranges. *)
LEMMA RangesStep == Ranges /\ [BackoffNext]_bvars => Ranges'
<1> SUFFICES ASSUME Ranges, [BackoffNext]_bvars PROVE Ranges'
  OBVIOUS
<1> USE NumbersAssumption DEF Ranges, CountersOK, SleepBounded
<1>1. ASSUME NEW e \in Codes, Failure(e) PROVE Ranges'
  <2>1. /\ Before(e).c \in 0..(Tries - 1) /\ Before(e).s \in Nat \ {0}
        /\ Before(e).s <= Limit + Step /\ Before(e).n \in Nat
    BY DEF Before
  <2>2. Grown(Before(e).s) \in Nat \ {0} /\ Grown(Before(e).s) <= Limit + Step
    BY <2>1 DEF Grown
  <2>3. sleep_c' \in 0..(Tries - 1) /\ sleep_s' \in Nat \ {0} /\ sleep_s' <= Limit + Step
    BY <1>1, <2>1, <2>2 DEF Failure, Full
  <2> QED
    BY <1>1, <2>1, <2>3 DEF Failure
<1>2. CASE Connected
  BY <1>2 DEF Connected
<1>3. CASE UNCHANGED bvars
  BY <1>3 DEF bvars
<1> QED
  BY <1>1, <1>2, <1>3 DEF BackoffNext

(* The loops of main() and connection_loop() touch the counters only through *)
(* the steps of Backoff: a failure, a connection.                            *)
LEMMA NextUsesBackoff == [Next]_vars => [BackoffNext]_bvars
<1> SUFFICES ASSUME [Next]_vars PROVE [BackoffNext]_bvars
  OBVIOUS
<1>1. ASSUME NEW d, Connect(d) PROVE BackoffNext
  BY <1>1 DEF Connect, BackoffNext
<1>2. ASSUME NEW d, Refused(d) \/ SessionLost(d) PROVE BackoffNext
  BY <1>2 DEF Refused, SessionLost, Fails, BackoffNext
<1>3. ASSUME NEW d, Begin(d) \/ Queries(d) \/ Nap(d) \/ Sleep(d) PROVE UNCHANGED bvars
  BY <1>3 DEF Begin, Queries, Nap, Sleep
<1>4. CASE RoleChanged
  BY <1>4 DEF RoleChanged
<1>5. CASE UNCHANGED vars
  BY <1>5 DEF vars
<1> QED
  BY <1>1, <1>2, <1>3, <1>4, <1>5 DEF Next

(* So the loops on their clock implement Backoff.                            *)
THEOREM UsesBackoff == Spec => BackoffSpec
<1>1. Init => Fresh
  BY DEF Init
<1> QED
  BY <1>1, NextUsesBackoff, PTL DEF Spec, BackoffSpec

(* The comment at 1009, for any numbers: no sleep is longer than Limit + Step*)
(* (300 seconds with the numbers of the code).                               *)
THEOREM SleepIsBounded == Spec => []SleepBounded
<1>1. BackoffSpec => []Ranges
  BY RangesInit, RangesStep, PTL DEF BackoffSpec
<1>2. Ranges => SleepBounded
  BY DEF Ranges
<1> QED
  BY <1>1, <1>2, UsesBackoff, PTL
-----------------------------------------------------------------------------
(* What the sleep is after the n-th failure *)

(* Quotient and remainder are the only ones. *)
LEMMA Division ==
    ASSUME NEW a \in Nat, NEW p \in Nat \ {0}, NEW q \in Nat, NEW r \in Nat,
           a = p * q + r, r < p
    PROVE  a \div p = q /\ a % p = r
<1> DEFINE d == a \div p
           m == a % p
<1>1. d \in Nat /\ m \in Nat /\ m < p /\ a = p * d + m
  OBVIOUS
<1> HIDE DEF d, m
<1>2. CASE d < q
  <2>1. q - d \in Nat \ {0} /\ p * (q - d) >= p /\ p * (q - d) = p * q - p * d
    BY <1>1, <1>2
  <2> QED
    BY <1>1, <2>1
<1>3. CASE q < d
  <2>1. d - q \in Nat \ {0} /\ p * (d - q) >= p /\ p * (d - q) = p * d - p * q
    BY <1>1, <1>3
  <2> QED
    BY <1>1, <2>1
<1>4. CASE d = q
  BY <1>1, <1>4 DEF d, m
<1> QED
  BY <1>1, <1>2, <1>3, <1>4

(* One failure more: the count is full, and there is a step more, or not.    *)
LEMMA Successor ==
    ASSUME NEW n \in Nat, NEW p \in Nat \ {0}
    PROVE  /\ n \div p \in Nat /\ n % p \in 0..(p - 1)
           /\ IF (n % p) + 1 >= p
              THEN (n + 1) % p = 0 /\ (n + 1) \div p = (n \div p) + 1
              ELSE (n + 1) % p = (n % p) + 1 /\ (n + 1) \div p = n \div p
<1> DEFINE d == n \div p
           m == n % p
<1>1. d \in Nat /\ m \in 0..(p - 1) /\ n = p * d + m
  OBVIOUS
<1> HIDE DEF d, m
<1>2. CASE m + 1 >= p
  <2>1. n + 1 = p * (d + 1) + 0
    BY <1>1, <1>2
  <2>2. (n + 1) \div p = d + 1 /\ (n + 1) % p = 0
    BY <1>1, <2>1, Division
  <2> QED
    BY <1>1, <1>2, <2>2 DEF d, m
<1>3. CASE m + 1 < p
  <2>1. n + 1 = p * d + (m + 1) /\ n + 1 \in Nat /\ m + 1 \in Nat /\ m + 1 < p
    BY <1>1, <1>3
  <2>2. (n + 1) \div p = d /\ (n + 1) % p = m + 1
    BY <1>1, <2>1, Division
  <2> QED
    BY <1>1, <1>3, <2>2 DEF d, m
<1> QED
  BY <1>1, <1>2, <1>3

(* The sleep after k steps. *)
After(k) == IF 1 + Step * k <= Limit THEN 1 + Step * k ELSE Top

(* One step more is what the code adds (1009-1010).                          *)
LEMMA GrownAfter ==
    ASSUME NEW k \in Nat
    PROVE  Grown(After(k)) = After(k + 1)
<1> DEFINE d == (Limit - 1) \div Step
           m == (Limit - 1) % Step
<1>1. d \in Nat /\ m \in Nat /\ m < Step /\ Limit - 1 = Step * d + m
  BY NumbersAssumption
<1>2. Top = 1 + Step * (d + 1)
  BY DEF Top
<1> HIDE DEF d, m
<1>3. Step * (d + 1) = Step * d + Step /\ Step * (k + 1) = Step * k + Step
      /\ Step * k \in Nat /\ Step * d \in Nat
  BY <1>1, NumbersAssumption
<1>4. Top \in Nat /\ Top > Limit
  BY <1>1, <1>2, <1>3, NumbersAssumption
<1>5. CASE 1 + Step * k <= Limit /\ ~(1 + Step * (k + 1) <= Limit)
  <2>1. Limit - 1 = Step * k + (Limit - 1 - Step * k)
        /\ Limit - 1 - Step * k \in Nat /\ Limit - 1 - Step * k < Step
    BY <1>3, <1>5, NumbersAssumption
  <2>2. d = k
    BY <2>1, Division, NumbersAssumption DEF d
  <2> QED
    BY <1>2, <1>3, <1>5, <2>2, NumbersAssumption DEF After, Grown
<1>6. CASE 1 + Step * (k + 1) <= Limit
  BY <1>3, <1>6, NumbersAssumption DEF After, Grown
<1>7. CASE ~(1 + Step * k <= Limit)
  BY <1>3, <1>4, <1>7, NumbersAssumption DEF After, Grown
<1> QED
  BY <1>5, <1>6, <1>7

(* Without failures the sleep is a second.                                   *)
LEMMA NoFailures == Expected(0) = 1 /\ 0 % Tries = 0
<1>1. 0 = Tries * 0 + 0
  BY NumbersAssumption
<1>2. 0 \div Tries = 0 /\ 0 % Tries = 0
  BY <1>1, Division, NumbersAssumption
<1>3. Step * 0 = 0
  BY NumbersAssumption
<1> QED
  BY <1>2, <1>3, NumbersAssumption DEF Expected

(* Every step keeps the sleep the one that belongs to the streak.            *)
LEMMA StreakStep ==
    Ranges /\ SleepMatchesStreak /\ [BackoffNext]_bvars => SleepMatchesStreak'
<1> SUFFICES ASSUME Ranges, SleepMatchesStreak, [BackoffNext]_bvars
             PROVE  SleepMatchesStreak'
  OBVIOUS
<1>1. ASSUME NEW e \in Codes, Failure(e) PROVE SleepMatchesStreak'
  <2> DEFINE b == Before(e)
             n == Before(e).n
  <2>1. n \in Nat /\ b.c = n % Tries /\ b.s = After(n \div Tries)
    BY NoFailures DEF Before, Ranges, CountersOK, SleepMatchesStreak, Expected, After
  <2>2. /\ streak' = n + 1
        /\ IF b.c + 1 >= Tries THEN sleep_c' = 0 /\ sleep_s' = Grown(b.s)
           ELSE sleep_c' = b.c + 1 /\ sleep_s' = b.s
    BY <1>1 DEF Failure, Full
  <2> HIDE DEF b, n
  <2>3. sleep_c' = (n + 1) % Tries /\ sleep_s' = After((n + 1) \div Tries)
    <3>1. /\ n \div Tries \in Nat
          /\ IF (n % Tries) + 1 >= Tries
             THEN (n + 1) % Tries = 0 /\ (n + 1) \div Tries = (n \div Tries) + 1
             ELSE (n + 1) % Tries = (n % Tries) + 1 /\ (n + 1) \div Tries = n \div Tries
      BY <2>1, Successor, NumbersAssumption
    <3>2. Grown(After(n \div Tries)) = After((n \div Tries) + 1)
      BY <3>1, GrownAfter
    <3> QED
      BY <2>1, <2>2, <3>1, <3>2
  <2> QED
    BY <2>2, <2>3 DEF SleepMatchesStreak, Expected, After
<1>2. CASE Connected
  BY <1>2, NoFailures DEF Connected, SleepMatchesStreak, Expected
<1>3. CASE UNCHANGED bvars
  BY <1>3 DEF bvars, SleepMatchesStreak, Expected
<1> QED
  BY <1>1, <1>2, <1>3 DEF BackoffNext

(* 1001-1011: two counters that are reset at different moments come to one   *)
(* function of the failures in a row, for any Tries, Step and Limit.         *)
THEOREM SleepIsOfTheStreak == Spec => []SleepMatchesStreak
<1>1. Fresh => Ranges /\ SleepMatchesStreak
  BY RangesInit, NoFailures DEF Fresh, SleepMatchesStreak, Expected
<1>2. BackoffSpec => [](Ranges /\ SleepMatchesStreak)
  BY <1>1, RangesStep, StreakStep, PTL DEF BackoffSpec
<1> QED
  BY <1>2, UsesBackoff, PTL
-----------------------------------------------------------------------------
(* The clock *)

(* The time and the counters are numbers; uptime lines are of the past.      *)
ClockOK ==
    /\ now \in Nat /\ uptime \in Nat /\ flips \in Nat /\ con_mins \in Nat
    /\ phase \in {"connecting", "napping", "round", "queries", "asleep"}

(* The longest silence before an attempt, if no role changes.                *)
Idle == Longer(MaxRound + Period, Limit + Step) + Oversleep

(* How long the uptime line is ago, in each phase: where none has just been  *)
(* written, the longest way from the last one, with an attempt for each      *)
(* change of role since.                                                     *)
Waited ==
    /\ phase = "connecting" => now - uptime <= Idle + flips * MaxConnect
    /\ phase = "round" => now - uptime <= Idle + MaxConnect + flips * MaxConnect
    /\ phase \in {"napping", "queries"} => now = uptime
    /\ phase = "asleep" => now - uptime <= MaxRound
    /\ phase \in {"napping", "queries", "asleep"} => flips = 0

CInv == ClockOK /\ Ranges /\ Waited /\ SameSecond

(* What is used of the constants. *)
LEMMA Numbers ==
    /\ Idle \in Nat /\ Idle >= MaxRound + Period + Oversleep
    /\ Idle >= Limit + Step + Oversleep /\ Silence = Idle + MaxConnect + Loading
    /\ \A n \in Nat : n * MaxConnect \in Nat /\ (n + 1) * MaxConnect = n * MaxConnect + MaxConnect
    /\ 0 * MaxConnect = 0
BY NumbersAssumption, PeriodAssumption, TimesAssumption DEF Idle, Longer, Silence

(* The sleep reaches just beyond the next whole minute, however late it ends.*)
LEMMA ToTheMinute ==
    ASSUME NEW t \in Nat, NEW late \in Nat
    PROVE  /\ SleepTime(t) \in 1..Period
           /\ (t + (SleepTime(t) + late)) % Period <= late
<1> DEFINE d == t \div Period
           m == t % Period
           n == Period * (d + 1) + late
           e == n \div Period
           r == n % Period
<1>1. d \in Nat /\ m \in 0..(Period - 1) /\ t = Period * d + m
  BY PeriodAssumption
<1>2. SleepTime(t) = Period - m /\ SleepTime(t) \in 1..Period
  BY <1>1, PeriodAssumption DEF SleepTime
<1> HIDE DEF d, m
<1>3. Period * (d + 1) = Period * d + Period /\ n \in Nat /\ t + (SleepTime(t) + late) = n
  BY <1>1, <1>2, PeriodAssumption
<1> HIDE DEF n
<1>4. e \in Nat /\ r \in 0..(Period - 1) /\ n = Period * e + r
  BY <1>3, PeriodAssumption
<1> HIDE DEF e, r
<1>5. e >= d + 1
  <2> SUFFICES ASSUME e < d + 1 PROVE FALSE
    BY <1>1, <1>4
  <2>1. (d + 1) - e \in Nat \ {0} /\ Period * ((d + 1) - e) >= Period
        /\ Period * ((d + 1) - e) = Period * (d + 1) - Period * e
    BY <1>1, <1>4, PeriodAssumption
  <2> QED
    BY <1>1, <1>3, <1>4, <2>1, PeriodAssumption DEF n
<1>6. Period * e >= Period * (d + 1)
  <2>1. e - (d + 1) \in Nat /\ Period * (e - (d + 1)) >= 0
        /\ Period * (e - (d + 1)) = Period * e - Period * (d + 1)
    BY <1>1, <1>4, <1>5, PeriodAssumption
  <2> QED
    BY <1>1, <1>4, <2>1, PeriodAssumption
<1>7. r <= late
  BY <1>1, <1>3, <1>4, <1>6, PeriodAssumption DEF n
<1> QED
  BY <1>2, <1>3, <1>7 DEF r

(* At the start nothing was written yet. *)
LEMMA CInvInit == Init => CInv
BY RangesInit, Numbers DEF Init, CInv, ClockOK, Waited, SameSecond

(* What one step keeps, and the bound it meets when it writes an uptime line.*)
InBounds == uptime' # uptime => uptime' - uptime <= Silence + flips * MaxConnect

(* A failure writes its uptime line, whichever loop it comes from.           *)
LEMMA FailsKeeps ==
    ASSUME CInv, NEW d \in Nat, NEW e \in Codes, Fails(d, e),
           \/ phase = "connecting" /\ d <= MaxConnect
           \/ phase = "queries" /\ d <= MaxRound
           \/ phase = "round" /\ d = 0
    PROVE  ClockOK' /\ Waited' /\ SameSecond' /\ InBounds
<1>1. /\ now' = now + d /\ phase' = "napping" /\ uptime' = now' /\ flips' = 0
      /\ con_mins' = con_mins
  BY DEF Fails, Passes, connection
<1>2. now - uptime <= Silence + flips * MaxConnect - d
  BY Numbers, NumbersAssumption, PeriodAssumption, TimesAssumption DEF CInv, ClockOK, Waited
<1> QED
  BY <1>1, <1>2, Numbers, TimesAssumption DEF CInv, ClockOK, Waited, SameSecond, InBounds

(* So do the other steps. *)
LEMMA CInvStep ==
    ASSUME CInv, [Next]_vars
    PROVE  CInv' /\ InBounds
<1> USE Numbers, NumbersAssumption, PeriodAssumption, TimesAssumption
<1>0. [BackoffNext]_bvars
  BY NextUsesBackoff
<1>1. Ranges'
  BY <1>0, RangesStep DEF CInv
<1>2. ASSUME NEW d \in 0..MaxConnect, Connect(d) PROVE ClockOK' /\ Waited' /\ SameSecond' /\ InBounds
  <2>1. /\ phase = "connecting" /\ now' = now + d /\ phase' = "round" /\ con_mins' = 0
        /\ UNCHANGED <<uptime, flips>>
    BY <1>2 DEF Connect, Passes
  <2> QED
    BY <2>1 DEF CInv, ClockOK, Waited, SameSecond, InBounds
<1>3. ASSUME NEW d \in 0..MaxConnect, Refused(d) PROVE ClockOK' /\ Waited' /\ SameSecond' /\ InBounds
  BY <1>3, FailsKeeps DEF Refused
<1>4. ASSUME NEW d \in 0..MaxRound, SessionLost(d) PROVE ClockOK' /\ Waited' /\ SameSecond' /\ InBounds
  BY <1>4, FailsKeeps DEF SessionLost
<1>5. ASSUME NEW d \in {0, Loading}, Begin(d) PROVE ClockOK' /\ Waited' /\ SameSecond' /\ InBounds
  <2>1. /\ phase = "round" /\ now' = now + d /\ phase' = "queries"
        /\ uptime' = now' /\ flips' = 0 /\ con_mins' = con_mins
    BY <1>5 DEF Begin, Passes
  <2> QED
    BY <2>1 DEF CInv, ClockOK, Waited, SameSecond, InBounds
<1>6. CASE RoleChanged
  <2>1. /\ phase = "round" /\ phase' = "connecting" /\ flips' = flips + 1
        /\ UNCHANGED <<now, uptime, con_mins>>
    BY <1>6 DEF RoleChanged, connection
  <2> QED
    BY <1>1, <2>1 DEF CInv, ClockOK, Waited, SameSecond, InBounds
<1>7. ASSUME NEW d \in 0..MaxRound, Queries(d) PROVE ClockOK' /\ Waited' /\ SameSecond' /\ InBounds
  <2>1. /\ phase = "queries" /\ now' = now + d /\ phase' = "asleep"
        /\ UNCHANGED <<uptime, flips, con_mins>>
    BY <1>7 DEF Queries, Passes
  <2> QED
    BY <2>1 DEF CInv, ClockOK, Waited, SameSecond, InBounds
<1>8. ASSUME NEW late \in 0..Oversleep, Nap(late) PROVE ClockOK' /\ Waited' /\ SameSecond' /\ InBounds
  <2>1. /\ phase = "napping" /\ now' = now + (sleep_s + late) /\ phase' = "connecting"
        /\ UNCHANGED <<uptime, flips, con_mins>>
    BY <1>8 DEF Nap, Passes, connection
  <2>2. sleep_s \in Nat /\ sleep_s <= Limit + Step
    BY DEF CInv, Ranges, CountersOK, SleepBounded
  <2> QED
    BY <2>1, <2>2 DEF CInv, ClockOK, Waited, SameSecond, InBounds
<1>9. ASSUME NEW late \in 0..Oversleep, Sleep(late) PROVE ClockOK' /\ Waited' /\ SameSecond' /\ InBounds
  <2>1. /\ phase = "asleep" /\ now' = now + (SleepTime(now) + late) /\ phase' = "round"
        /\ con_mins' = con_mins + 1 /\ UNCHANGED <<uptime, flips>>
    BY <1>9 DEF Sleep, Passes
  <2>2. SleepTime(now) \in 1..Period /\ now' % Period <= late
    BY <2>1, ToTheMinute DEF CInv, ClockOK
  <2>3. ClockOK' /\ Waited' /\ InBounds
    BY <2>1, <2>2 DEF CInv, ClockOK, Waited, InBounds
  <2>4. SameSecond'
    BY <2>1, <2>2 DEF CInv, ClockOK, SameSecond
  <2> QED
    BY <2>3, <2>4
<1>10. CASE UNCHANGED vars
  BY <1>1, <1>10 DEF vars, connection, CInv, ClockOK, Waited, SameSecond, InBounds
<1> QED
  BY <1>1, <1>2, <1>3, <1>4, <1>5, <1>6, <1>7, <1>8, <1>9, <1>10 DEF Next, CInv

(* 734: the rounds of a connection begin on the same second, for minutes and *)
(* rounds of any length.                                                     *)
THEOREM RoundsKeepTheSecond == Spec => []SameSecond
<1>1. CInv /\ [Next]_vars => CInv'
  BY CInvStep
<1>2. CInv => SameSecond
  BY DEF CInv
<1> QED
  BY <1>1, <1>2, CInvInit, PTL DEF Spec

(* 556 and 1018: no longer silence between two uptime lines than the loops   *)
(* and sleeps allow, whatever fails in which order and for how long.         *)
THEOREM UptimeIsNeverFar == Spec => UptimeGap
<1>1. CInv /\ [Next]_vars => CInv' /\ [InBounds]_vars
  BY CInvStep
<1>2. Spec => [][InBounds]_vars
  BY <1>1, CInvInit, PTL DEF Spec
<1> QED
  BY <1>2 DEF UptimeGap, InBounds
-----------------------------------------------------------------------------
(* The sections *)

(* Minutes since the start of the program. *)
Minute(t) == t \div Period

(* Multiplication keeps the order. *)
LEMMA Times ==
    ASSUME NEW a \in Nat, NEW b \in Nat, NEW c \in Nat, a <= b
    PROVE  a * c \in Nat /\ b * c \in Nat /\ a * c <= b * c
<1>1. (b - a) \in Nat /\ (b - a) * c >= 0 /\ (b - a) * c = b * c - a * c
  OBVIOUS
<1> QED
  BY <1>1

(* The minute of a time is between it and the next whole minute.             *)
LEMMA MinuteIs ==
    ASSUME NEW t \in Nat
    PROVE  /\ Minute(t) \in Nat /\ Minute(t) * Period <= t
           /\ (Minute(t) + 1) * Period = Minute(t) * Period + Period
           /\ t < (Minute(t) + 1) * Period
           /\ t + SleepTime(t) = (Minute(t) + 1) * Period
<1> DEFINE d == t \div Period
           m == t % Period
<1>1. d \in Nat /\ m \in 0..(Period - 1) /\ t = Period * d + m
  BY PeriodAssumption
<1>2. SleepTime(t) = Period - m
  BY DEF SleepTime
<1>3. Minute(t) = d
  BY DEF Minute
<1> HIDE DEF d, m
<1>4. Period * d = d * Period /\ (d + 1) * Period = d * Period + Period /\ d * Period \in Nat
  BY <1>1, PeriodAssumption
<1> QED
  BY <1>1, <1>2, <1>3, <1>4, PeriodAssumption

(* A time at or after a whole minute, or before it. *)
LEMMA MinuteBounds ==
    ASSUME NEW t \in Nat, NEW b \in Nat
    PROVE  /\ b * Period <= t => b <= Minute(t)
           /\ t < (b + 1) * Period => Minute(t) <= b
<1>1. /\ Minute(t) \in Nat /\ Minute(t) * Period <= t
      /\ t < (Minute(t) + 1) * Period
  BY MinuteIs
<1>2. ASSUME b * Period <= t, Minute(t) < b PROVE FALSE
  <2>1. (Minute(t) + 1) * Period <= b * Period
    BY <1>1, <1>2, Times, PeriodAssumption
  <2> QED
    BY <1>1, <1>2, <2>1, PeriodAssumption
<1>3. ASSUME t < (b + 1) * Period, b < Minute(t) PROVE FALSE
  <2>1. (b + 1) * Period <= Minute(t) * Period
    BY <1>1, <1>3, Times, PeriodAssumption
  <2> QED
    BY <1>1, <1>3, <2>1, PeriodAssumption
<1> QED
  BY <1>1, <1>2, <1>3

(* Multiples of a number are at least that far apart. *)
LEMMA Multiples ==
    ASSUME NEW n \in Nat \ {0}, NEW j \in Nat, NEW k \in Nat, j % n = 0, j < k
    PROVE  /\ k % n = 0 => k - j >= n
           /\ k - j = n => k % n = 0
<1> DEFINE p == j \div n
           q == k \div n
<1>1. p \in Nat /\ j = n * p /\ q \in Nat
  OBVIOUS
<1>2. ASSUME k % n = 0 PROVE k = n * q
  BY <1>2
<1> HIDE DEF p, q
<1>3. ASSUME k % n = 0 PROVE k - j >= n
  <2>1. k = n * q
    BY <1>2, <1>3
  <2>2. CASE q <= p
    <3>1. q * n <= p * n /\ q * n = n * q /\ p * n = n * p
      BY <1>1, <2>2, Times
    <3> QED
      BY <1>1, <2>1, <3>1
  <2>3. CASE p < q
    <3>1. (p + 1) * n <= q * n /\ q * n = n * q /\ (p + 1) * n = n * p + n
      BY <1>1, <2>3, Times
    <3> QED
      BY <1>1, <2>1, <3>1
  <2> QED
    BY <1>1, <2>2, <2>3
<1>4. ASSUME k - j = n PROVE k % n = 0
  <2>1. k = n * (p + 1) + 0
    BY <1>1, <1>4
  <2> QED
    BY <1>1, <2>1, Division
<1> QED
  BY <1>3, <1>4

(* Times and gaps are numbers, and nothing runs in the future. *)
RunsOK ==
    /\ now_run \in Nat /\ now_run <= now /\ now <= MaxTime /\ long \in Nat
    /\ last \in [Sections -> Nat] /\ gap \in [Sections -> Nat]

(* The rounds since a section last ran: fewer than its minutes have passed,  *)
(* each in a minute of its own, and none took more minutes than the longest  *)
(* does.  The round in question is k, and begins in minute b or, after a late*)
(* wake-up, somewhat later.                                                  *)
Minutes(l) == Stretch(l + Oversleep) * Period
Since(s, k, b) ==
    \E j \in Nat :
        /\ j < k /\ k - j <= Mins[s] /\ j % Mins[s] = 0
        /\ b >= Minute(last[s]) + (k - j)
        /\ b * Period - last[s] <= (k - j) * Minutes(long) + long
Begun(s, t) ==
    \E b \in Nat : b * Period <= t /\ t <= b * Period + Oversleep /\ Since(s, con_mins, b)
Ran(s) == last[s] # Never
Spaced ==
    \A s \in Sections : Ran(s) =>
        /\ phase \in {"round", "queries"} /\ Mins[s] = 0 => con_mins > 0
        /\ phase = "round" /\ Mins[s] > 0 => Begun(s, now)
        /\ phase = "queries" /\ Mins[s] > 0 => Begun(s, now_run)
        /\ phase = "asleep" /\ Mins[s] > 0 => Since(s, con_mins + 1, Minute(now) + 1)

(* Longer rounds only make more room.                                        *)
LEMMA Room ==
    ASSUME NEW l \in Nat, NEW m \in Nat, l <= m
    PROVE  /\ Minutes(l) \in Nat /\ Minutes(m) \in Nat /\ Minutes(l) <= Minutes(m)
           /\ Period <= Minutes(l)
           /\ \A n \in Nat : n * Minutes(l) \in Nat /\ n * Minutes(m) \in Nat
                              /\ n * Minutes(l) <= n * Minutes(m)
           /\ \A n \in Nat : (n + 1) * Minutes(l) = n * Minutes(l) + Minutes(l)
<1>1. Minute(l + Oversleep) \in Nat /\ Minute(m + Oversleep) \in Nat
      /\ Minute(l + Oversleep) <= Minute(m + Oversleep)
  <2>1. l + Oversleep \in Nat /\ m + Oversleep \in Nat /\ l + Oversleep <= m + Oversleep
    BY TimesAssumption
  <2>2. Minute(l + Oversleep) \in Nat /\ Minute(l + Oversleep) * Period <= l + Oversleep
        /\ Minute(m + Oversleep) \in Nat
    BY <2>1, MinuteIs
  <2>3. Minute(l + Oversleep) * Period \in Nat
    BY <2>2, PeriodAssumption
  <2>4. Minute(l + Oversleep) * Period <= m + Oversleep
    BY <2>1, <2>2, <2>3
  <2> QED
    BY <2>1, <2>2, <2>4, MinuteBounds
<1>2. /\ Minutes(l) = (Minute(l + Oversleep) + 1) * Period
      /\ Minutes(m) = (Minute(m + Oversleep) + 1) * Period
  BY DEF Minutes, Stretch, Minute
<1>3. Minutes(l) \in Nat /\ Minutes(m) \in Nat /\ Minutes(l) <= Minutes(m)
  BY <1>1, <1>2, Times, PeriodAssumption
<1>4. Period <= Minutes(l)
  <2>1. 1 * Period <= (Minute(l + Oversleep) + 1) * Period /\ 1 * Period = Period
    BY <1>1, Times, PeriodAssumption
  <2> QED
    BY <1>2, <2>1
<1>5. ASSUME NEW n \in Nat
      PROVE  /\ n * Minutes(l) \in Nat /\ n * Minutes(m) \in Nat
             /\ n * Minutes(l) <= n * Minutes(m)
             /\ (n + 1) * Minutes(l) = n * Minutes(l) + Minutes(l)
  <2>1. /\ Minutes(l) * n \in Nat /\ Minutes(m) * n \in Nat
        /\ Minutes(l) * n <= Minutes(m) * n
    BY <1>3, Times
  <2> HIDE DEF Minutes
  <2>2. /\ Minutes(l) * n = n * Minutes(l) /\ Minutes(m) * n = n * Minutes(m)
        /\ (n + 1) * Minutes(l) = n * Minutes(l) + Minutes(l)
    BY <1>3
  <2> QED
    BY <2>1, <2>2
<1> QED
  BY <1>3, <1>4, <1>5

(* The end of a round that began in minute b or somewhat later.              *)
LEMMA RoundEnds ==
    ASSUME NEW b \in Nat, NEW t \in Nat, NEW e \in Nat, NEW l \in Nat,
           b * Period <= t, t <= b * Period + Oversleep, t <= e, e - t <= l
    PROVE  /\ Minute(e) \in Nat /\ Minute(e) + 1 >= b + 1
           /\ (Minute(e) + 1) * Period <= b * Period + Minutes(l)
<1> DEFINE o == l + Oversleep
<1>1. o \in Nat /\ b * Period \in Nat
  BY TimesAssumption, PeriodAssumption
<1>2. e <= b * Period + o
  BY <1>1, TimesAssumption
<1> HIDE DEF o
<1>3. Minute(o) \in Nat /\ o < (Minute(o) + 1) * Period
      /\ (Minute(o) + 1) * Period = Minute(o) * Period + Period
  BY <1>1, MinuteIs
<1>4. (b + Minute(o) + 1) * Period = b * Period + (Minute(o) + 1) * Period
  BY <1>3, PeriodAssumption
<1>5. e < (b + Minute(o) + 1) * Period
  BY <1>1, <1>2, <1>3, <1>4, PeriodAssumption
<1>6. b <= Minute(e) /\ Minute(e) <= b + Minute(o) /\ Minute(e) \in Nat
  <2>1. b + Minute(o) \in Nat
    BY <1>3
  <2> QED
    BY <1>1, <1>5, <2>1, MinuteIs, MinuteBounds
<1>7. (Minute(e) + 1) * Period <= (b + Minute(o) + 1) * Period
  BY <1>3, <1>6, Times, PeriodAssumption
<1>8. Minutes(l) = (Minute(o) + 1) * Period
  BY DEF Minutes, Stretch, Minute, o
<1> QED
  BY <1>4, <1>6, <1>7, <1>8

(* A section that runs has waited its minutes, not less and not much more.   *)
LEMMA RunsAgain ==
    ASSUME ClockOK, RunsOK, Spaced, phase = "queries", NEW s \in Sections, Due(s), Ran(s)
    PROVE  /\ Mins[s] > 0 /\ now_run - last[s] > (Mins[s] - 1) * Period
           /\ now_run - last[s] <= Mins[s] * Minutes(long) + long + Oversleep
<1>0. /\ con_mins \in Nat /\ now_run \in Nat /\ long \in Nat /\ last[s] \in Nat
      /\ Mins[s] \in Nat /\ Oversleep \in Nat
  BY MinsAssumption, TimesAssumption DEF ClockOK, RunsOK
<1>1. Mins[s] > 0 /\ con_mins % Mins[s] = 0 /\ Begun(s, now_run)
  BY <1>0 DEF Due, Spaced
<1>2. PICK b \in Nat : /\ b * Period <= now_run /\ now_run <= b * Period + Oversleep
                       /\ Since(s, con_mins, b)
  BY <1>1 DEF Begun
<1>3. PICK j \in Nat : /\ j < con_mins /\ con_mins - j <= Mins[s] /\ j % Mins[s] = 0
                       /\ b >= Minute(last[s]) + (con_mins - j)
                       /\ b * Period - last[s] <= (con_mins - j) * Minutes(long) + long
  BY <1>2 DEF Since
<1>4. con_mins - j = Mins[s]
  <2>1. con_mins - j >= Mins[s]
    BY <1>0, <1>1, <1>3, Multiples
  <2> QED
    BY <1>0, <1>3, <2>1
<1>5. now_run - last[s] <= Mins[s] * Minutes(long) + long + Oversleep
  <2>0. long <= long
    BY <1>0
  <2>1. Mins[s] * Minutes(long) \in Nat
    BY <1>0, <2>0, Room
  <2>2. b * Period - last[s] <= Mins[s] * Minutes(long) + long
    BY <1>3, <1>4
  <2>3. b * Period \in Nat
    BY PeriodAssumption
  <2> QED
    BY <1>0, <1>2, <2>1, <2>2, <2>3
<1>6. now_run - last[s] > (Mins[s] - 1) * Period
  <2>1. /\ Minute(last[s]) \in Nat /\ last[s] < (Minute(last[s]) + 1) * Period
    BY <1>0, MinuteIs
  <2>2. (Minute(last[s]) + Mins[s]) * Period <= b * Period
    BY <1>0, <1>3, <1>4, <2>1, Times, PeriodAssumption
  <2>3. (Minute(last[s]) + Mins[s]) * Period
            = (Minute(last[s]) + 1) * Period + (Mins[s] - 1) * Period
    BY <1>0, <2>1, PeriodAssumption
  <2>4. /\ (Minute(last[s]) + 1) * Period \in Nat /\ (Mins[s] - 1) * Period \in Nat
        /\ b * Period \in Nat
    BY <1>0, <1>1, <2>1, PeriodAssumption
  <2> QED
    BY <1>0, <1>2, <2>1, <2>2, <2>3, <2>4
<1> QED
  BY <1>1, <1>5, <1>6

(* What one step keeps, and what it shows when a section runs again.         *)
Apart ==
    \A s \in Sections :
        last[s] # Never /\ last'[s] \notin {Never, last[s]} =>
            Mins[s] > 0 /\ last'[s] - last[s] > (Mins[s] - 1) * Period

(* The gaps stay within the limits when the longest round gets longer.       *)
LEMMA InTimeStays ==
    ASSUME RunsOK, InTime, NEW s \in Sections, Mins[s] > 0, NEW m \in Nat, long <= m
    PROVE  gap[s] <= Mins[s] * Minutes(m) + m + Oversleep
<1>1. /\ gap[s] \in Nat /\ Mins[s] \in Nat /\ long \in Nat /\ Oversleep \in Nat
  BY MinsAssumption, TimesAssumption DEF RunsOK
<1>2. gap[s] <= Mins[s] * Stretch(long + Oversleep) * Period + long + Oversleep
  BY DEF InTime
<1>3. Minutes(long) \in Nat /\ Stretch(long + Oversleep) \in Nat
  <2>1. Minute(long + Oversleep) \in Nat
    BY <1>1, MinuteIs
  <2> QED
    BY <2>1, PeriodAssumption DEF Minutes, Stretch, Minute
<1>4. Mins[s] * Stretch(long + Oversleep) * Period = Mins[s] * Minutes(long)
  BY <1>1, <1>3, PeriodAssumption DEF Minutes
<1>5. /\ Mins[s] * Minutes(long) \in Nat /\ Mins[s] * Minutes(m) \in Nat
      /\ Mins[s] * Minutes(long) <= Mins[s] * Minutes(m)
  BY <1>1, Room
<1> QED
  BY <1>1, <1>2, <1>4, <1>5

LEMMA QueriesKeeps ==
    ASSUME ClockOK, RunsOK, Spaced, InTime, NEW d \in 0..MaxRound, Queries(d)
    PROVE  RunsOK' /\ Spaced' /\ InTime' /\ Apart
<1>0. /\ con_mins \in Nat /\ now \in Nat /\ now_run \in Nat /\ long \in Nat /\ now_run <= now
      /\ last \in [Sections -> Nat] /\ gap \in [Sections -> Nat] /\ MaxTime \in Nat
      /\ Mins \in [Sections -> Nat] /\ Oversleep \in Nat
  BY MinsAssumption, TimesAssumption DEF ClockOK, RunsOK
<1>1. /\ phase = "queries" /\ phase' = "asleep" /\ now' = now + d /\ now' <= MaxTime
      /\ UNCHANGED <<con_mins, now_run>> /\ long' = Longer(long, now' - now_run)
  BY <1>0 DEF Queries, Passes
<1>2. /\ last' = [s \in Sections |-> IF Due(s) THEN now_run ELSE last[s]]
      /\ gap' = [s \in Sections |->
                   IF Due(s) /\ Ran(s) THEN Longer(gap[s], now_run - last[s]) ELSE gap[s]]
  BY DEF Queries, Ran
<1>3. long' \in Nat /\ long <= long' /\ now' - now_run <= long' /\ now' \in Nat /\ now_run <= now'
  BY <1>0, <1>1 DEF Longer
<1>4. ASSUME NEW s \in Sections, Due(s), Ran(s)
      PROVE  /\ Mins[s] > 0 /\ now_run - last[s] > (Mins[s] - 1) * Period
             /\ now_run - last[s] <= Mins[s] * Minutes(long) + long + Oversleep
             /\ now_run - last[s] \in Nat
  <2>1. /\ Mins[s] > 0 /\ now_run - last[s] > (Mins[s] - 1) * Period
        /\ now_run - last[s] <= Mins[s] * Minutes(long) + long + Oversleep
    BY <1>1, <1>4, RunsAgain
  <2> DEFINE x == (Mins[s] - 1) * Period
  <2>2. x \in Nat
    BY <1>0, <2>1, PeriodAssumption
  <2>3. now_run - last[s] > x
    BY <2>1
  <2> HIDE DEF x
  <2>4. now_run - last[s] \in Nat
    BY <1>0, <2>2, <2>3
  <2> QED
    BY <2>1, <2>4
<1>5. RunsOK'
  <2>1. last' \in [Sections -> Nat]
    BY <1>0, <1>2
  <2>2. gap' \in [Sections -> Nat]
    BY <1>0, <1>2, <1>4 DEF Longer
  <2> QED
    BY <1>0, <1>1, <1>3, <2>1, <2>2 DEF RunsOK
<1>6. Apart
  BY <1>0, <1>2, <1>4 DEF Apart, Ran
<1>7. InTime'
  <2>1. SUFFICES ASSUME NEW s \in Sections, Mins[s] > 0
                 PROVE  gap'[s] <= Mins[s] * Stretch(long' + Oversleep) * Period + long' + Oversleep
    BY DEF InTime
  <2>2. gap[s] <= Mins[s] * Minutes(long') + long' + Oversleep
    BY <1>3, <2>1, InTimeStays
  <2>3. Due(s) /\ Ran(s) => now_run - last[s] <= Mins[s] * Minutes(long') + long' + Oversleep
    <3>1. /\ Mins[s] * Minutes(long) \in Nat /\ Mins[s] * Minutes(long') \in Nat
          /\ Mins[s] * Minutes(long) <= Mins[s] * Minutes(long')
      BY <1>0, <1>3, Room
    <3> QED
      BY <1>0, <1>3, <1>4, <3>1
  <2>4. gap'[s] <= Mins[s] * Minutes(long') + long' + Oversleep
    BY <1>2, <2>2, <2>3 DEF Longer
  <2>5. Mins[s] * Stretch(long' + Oversleep) * Period = Mins[s] * Minutes(long')
    <3>1. Minute(long' + Oversleep) \in Nat
      BY <1>0, <1>3, MinuteIs
    <3> QED
      BY <1>0, <3>1, PeriodAssumption DEF Minutes, Stretch, Minute
  <2> QED
    BY <2>4, <2>5
<1>8. ASSUME NEW s \in Sections, Mins[s] > 0, Ran(s)'
      PROVE  Since(s, con_mins + 1, Minute(now) + 1)'
  <2> DEFINE e == now'
             l == long'
  <2>0. /\ Minutes(long) \in Nat /\ Minutes(l) \in Nat /\ Minutes(long) <= Minutes(l)
        /\ Period <= Minutes(l) /\ Mins[s] \in Nat /\ l <= l
    <3>1. l <= l /\ Mins[s] \in Nat
      BY <1>0, <1>3
    <3>2. Period <= Minutes(l)
      BY <1>3, <3>1, Room
    <3>3. Minutes(long) \in Nat /\ Minutes(l) \in Nat /\ Minutes(long) <= Minutes(l)
      BY <1>0, <1>3, Room
    <3> QED
      BY <3>1, <3>2, <3>3
  <2>1. CASE Due(s)
    <3>1. last'[s] = now_run /\ con_mins % Mins[s] = 0
      BY <1>2, <1>8, <2>1 DEF Due
    <3>2. /\ Minute(e) \in Nat /\ Minute(e) * Period <= e
          /\ (Minute(e) + 1) * Period = Minute(e) * Period + Period
          /\ Minute(e) * Period \in Nat
      BY <1>3, MinuteIs, PeriodAssumption
    <3>3. Minute(now_run) <= Minute(e)
      <4>1. Minute(now_run) \in Nat /\ Minute(now_run) * Period <= now_run
        BY <1>0, MinuteIs
      <4>2. Minute(now_run) * Period \in Nat
        BY <4>1, PeriodAssumption
      <4> QED
        BY <1>0, <1>3, <4>1, <4>2, MinuteBounds
    <3>4. (Minute(e) + 1) * Period - now_run <= 1 * Minutes(l) + l
      <4>1. 1 * Minutes(l) = Minutes(l)
        BY <2>0
      <4>2. Minute(e) * Period - now_run <= l
        <5> DEFINE x == Minute(e) * Period
        <5>1. x \in Nat /\ x <= e /\ e \in Nat /\ l \in Nat /\ e - now_run <= l
          BY <1>3, <3>2
        <5> HIDE DEF x, e, l
        <5>2. x - now_run <= l
          BY <1>0, <5>1
        <5> QED
          BY <5>2 DEF x
      <4> QED
        BY <1>0, <1>3, <2>0, <3>2, <4>1, <4>2, PeriodAssumption
    <3>5. Minute(now_run) \in Nat /\ con_mins + 1 - con_mins = 1
      BY <1>0, MinuteIs
    <3>6. /\ con_mins < con_mins + 1 /\ con_mins + 1 - con_mins <= Mins[s]
          /\ Minute(e) + 1 >= Minute(now_run) + (con_mins + 1 - con_mins)
          /\ (Minute(e) + 1) * Period - now_run <= (con_mins + 1 - con_mins) * Minutes(l) + l
      BY <1>0, <1>8, <2>0, <3>2, <3>3, <3>4, <3>5
    <3> QED
      BY <1>0, <1>1, <3>1, <3>6 DEF Since
  <2>2. CASE ~Due(s)
    <3>1. last'[s] = last[s] /\ Ran(s) /\ con_mins % Mins[s] # 0
      BY <1>2, <1>8, <2>2 DEF Due, Ran
    <3>2. PICK b \in Nat : /\ b * Period <= now_run /\ now_run <= b * Period + Oversleep
                           /\ Since(s, con_mins, b)
      BY <1>1, <1>8, <3>1 DEF Spaced, Begun
    <3>3. PICK j \in Nat : /\ j < con_mins /\ con_mins - j <= Mins[s] /\ j % Mins[s] = 0
                           /\ b >= Minute(last[s]) + (con_mins - j)
                           /\ b * Period - last[s] <= (con_mins - j) * Minutes(long) + long
      BY <3>2 DEF Since
    <3>4. con_mins - j # Mins[s]
      BY <1>0, <1>8, <2>0, <3>1, <3>3, Multiples
    <3>5. /\ Minute(e) \in Nat /\ Minute(e) + 1 >= b + 1
          /\ (Minute(e) + 1) * Period <= b * Period + Minutes(l)
      BY <1>0, <1>3, <3>2, RoundEnds
    <3>6. con_mins - j \in Nat /\ con_mins + 1 - j = (con_mins - j) + 1
      BY <1>0, <3>3
    <3>7. /\ (con_mins - j) * Minutes(long) \in Nat /\ (con_mins - j) * Minutes(l) \in Nat
          /\ (con_mins - j) * Minutes(long) <= (con_mins - j) * Minutes(l)
      BY <1>0, <1>3, <3>6, Room
    <3>8. (con_mins + 1 - j) * Minutes(l) = (con_mins - j) * Minutes(l) + Minutes(l)
      <4>1. l <= l
        BY <1>3
      <4> QED
        BY <1>3, <3>6, <4>1, Room
    <3>9. (Minute(e) + 1) * Period \in Nat /\ b * Period \in Nat /\ last[s] \in Nat
      BY <1>0, <3>5, PeriodAssumption
    <3>10. (Minute(e) + 1) * Period - last[s] <= (con_mins + 1 - j) * Minutes(l) + l
      BY <1>0, <1>3, <2>0, <3>3, <3>5, <3>7, <3>8, <3>9
    <3>11. /\ j < con_mins + 1 /\ con_mins + 1 - j <= Mins[s]
           /\ Minute(e) + 1 >= Minute(last[s]) + (con_mins + 1 - j)
      <4>1. Minute(last[s]) \in Nat
        BY <1>0, MinuteIs
      <4> QED
        BY <1>0, <2>0, <3>3, <3>4, <3>5, <4>1
    <3> QED
      BY <1>0, <1>1, <3>1, <3>3, <3>10, <3>11 DEF Since
  <2> QED
    BY <2>1, <2>2
<1>9. Spaced'
  BY <1>1, <1>8 DEF Spaced
<1> QED
  BY <1>5, <1>6, <1>7, <1>9

(* A step that leaves the connection, or leaves it alone, keeps the rest.    *)
LEMMA SameRuns ==
    ASSUME RunsOK, InTime, UNCHANGED connection,
           now \in Nat, now' \in Nat, now <= now', now' <= MaxTime,
           phase' \in {"connecting", "napping"}
    PROVE  RunsOK' /\ Spaced' /\ InTime' /\ Apart
<1>1. UNCHANGED <<now_run, last, long, gap>>
  BY DEF connection
<1>2. now_run \in Nat /\ now_run <= now'
  BY <1>1 DEF RunsOK
<1>3. RunsOK'
  BY <1>1, <1>2 DEF RunsOK
<1>4. InTime'
  BY <1>1 DEF InTime
<1>5. Spaced' /\ Apart
  BY <1>1 DEF Spaced, Apart
<1> QED
  BY <1>3, <1>4, <1>5

LEMMA SectionsStep ==
    ASSUME CInv, RunsOK, Spaced, InTime, [Next]_vars
    PROVE  RunsOK' /\ Spaced' /\ InTime' /\ Apart
<1>0. /\ ClockOK /\ now \in Nat /\ con_mins \in Nat /\ MaxTime \in Nat /\ sleep_s \in Nat
      /\ MaxConnect \in Nat /\ MaxRound \in Nat /\ Oversleep \in Nat /\ Loading \in Nat
  BY TimesAssumption DEF CInv, ClockOK, Ranges, CountersOK
<1>1. ASSUME NEW d \in 0..MaxConnect, Connect(d) PROVE RunsOK' /\ Spaced' /\ InTime' /\ Apart
  <2>1. /\ phase' = "round" /\ now' = now + d /\ now' <= MaxTime /\ now_run' = now_run
        /\ con_mins' = 0 /\ last' = NotRun /\ gap' = NoGap /\ long' = 0
    BY <1>1 DEF Connect, Passes
  <2>2. /\ last' \in [Sections -> Nat] /\ gap' \in [Sections -> Nat]
        /\ \A s \in Sections : last'[s] = Never /\ gap'[s] = 0
    BY <1>0, <2>1 DEF NotRun, NoGap, Never
  <2>3. RunsOK'
    BY <1>0, <2>1, <2>2 DEF RunsOK
  <2>4. Spaced' /\ Apart
    BY <2>2 DEF Spaced, Ran, Apart, Never
  <2>5. InTime'
    <3>1. SUFFICES ASSUME NEW s \in Sections, Mins[s] > 0
                   PROVE  0 <= Mins[s] * Stretch(0 + Oversleep) * Period + 0 + Oversleep
      BY <2>1, <2>2 DEF InTime
    <3>2. Mins[s] \in Nat /\ Stretch(0 + Oversleep) \in Nat
      <4>1. Minute(0 + Oversleep) \in Nat
        BY <1>0, MinuteIs
      <4> QED
        BY <4>1, MinsAssumption DEF Stretch, Minute
    <3>3. Mins[s] * Stretch(0 + Oversleep) * Period \in Nat
      BY <3>2, PeriodAssumption
    <3> QED
      BY <1>0, <3>3
  <2> QED
    BY <2>3, <2>4, <2>5
<1>2. ASSUME NEW d \in Nat, NEW e \in Codes, Fails(d, e)
      PROVE  RunsOK' /\ Spaced' /\ InTime' /\ Apart
  <2>1. now' = now + d /\ now' <= MaxTime /\ phase' = "napping" /\ UNCHANGED connection
    BY <1>2 DEF Fails, Passes
  <2> QED
    BY <1>0, <2>1, SameRuns
<1>3. ASSUME NEW d \in {0, Loading}, Begin(d) PROVE RunsOK' /\ Spaced' /\ InTime' /\ Apart
  <2>1. /\ phase = "round" /\ now' = now + d /\ now' <= MaxTime /\ phase' = "queries"
        /\ now_run' = now /\ UNCHANGED <<con_mins, last, long, gap>>
    BY <1>3 DEF Begin, Passes
  <2>2. RunsOK'
    BY <1>0, <2>1 DEF RunsOK
  <2>3. InTime' /\ Apart
    BY <2>1 DEF InTime, Apart
  <2>4. ASSUME NEW s \in Sections, Begun(s, now) PROVE Begun(s, now_run)'
    BY <2>1, <2>4 DEF Begun, Since
  <2>5. Spaced'
    BY <2>1, <2>4 DEF Spaced, Ran
  <2> QED
    BY <2>2, <2>3, <2>5
<1>4. CASE RoleChanged
  BY <1>0, <1>4, SameRuns DEF RoleChanged, RunsOK
<1>5. ASSUME NEW d \in 0..MaxRound, Queries(d) PROVE RunsOK' /\ Spaced' /\ InTime' /\ Apart
  BY <1>0, <1>5, QueriesKeeps
<1>6. ASSUME NEW late \in 0..Oversleep, Nap(late) PROVE RunsOK' /\ Spaced' /\ InTime' /\ Apart
  <2>1. now' = now + (sleep_s + late) /\ now' <= MaxTime /\ phase' = "connecting"
        /\ UNCHANGED connection
    BY <1>6 DEF Nap, Passes
  <2> QED
    BY <1>0, <2>1, SameRuns
<1>7. ASSUME NEW late \in 0..Oversleep, Sleep(late) PROVE RunsOK' /\ Spaced' /\ InTime' /\ Apart
  <2>0. PICK b \in Nat : b = Minute(now) + 1
    BY <1>0, MinuteIs
  <2>1. /\ phase = "asleep" /\ now' = now + (SleepTime(now) + late) /\ now' <= MaxTime
        /\ phase' = "round" /\ con_mins' = con_mins + 1
        /\ UNCHANGED <<now_run, last, long, gap>>
    BY <1>7 DEF Sleep, Passes
  <2>2. Minute(now) \in Nat /\ now + SleepTime(now) = b * Period /\ b \in Nat
    BY <1>0, <2>0, MinuteIs
  <2>3. SleepTime(now) \in 1..Period
    BY <1>0, ToTheMinute
  <2>4. now' \in Nat /\ now <= now' /\ b * Period <= now' /\ now' <= b * Period + Oversleep
    BY <1>0, <2>1, <2>2, <2>3, PeriodAssumption
  <2>5. RunsOK'
    BY <1>0, <2>1, <2>4 DEF RunsOK
  <2>6. InTime' /\ Apart
    BY <2>1 DEF InTime, Apart
  <2>7. ASSUME NEW s \in Sections, Since(s, con_mins + 1, b) PROVE Begun(s, now)'
    <3>1. Since(s, con_mins, b)'
      BY <2>1, <2>7 DEF Since
    <3>2. \E c \in Nat : /\ c * Period <= now' /\ now' <= c * Period + Oversleep
                         /\ Since(s, con_mins, c)'
      BY <2>2, <2>4, <3>1
    <3> QED
      BY <3>2 DEF Begun
  <2>8. Spaced'
    BY <1>0, <2>0, <2>1, <2>7 DEF Spaced, Ran
  <2> QED
    BY <2>5, <2>6, <2>8
<1>8. CASE UNCHANGED vars
  <2>1. UNCHANGED <<now, phase, con_mins, now_run, last, long, gap>>
    BY <1>8 DEF vars, connection
  <2> QED
    BY <2>1 DEF RunsOK, Spaced, InTime, Apart, Ran, Begun, Since
<1> QED
  BY <1>0, <1>1, <1>2, <1>3, <1>4, <1>5, <1>6, <1>7, <1>8 DEF Next, Refused, SessionLost

(* Both hold from the start. *)
SInv == CInv /\ RunsOK /\ Spaced /\ InTime

LEMMA SInvInit == Init => SInv
<1> SUFFICES ASSUME Init PROVE SInv
  OBVIOUS
<1>1. CInv
  BY CInvInit
<1>2. \A s \in Sections : last[s] = Never /\ gap[s] = 0
  BY DEF Init, NotRun, NoGap
<1>3. RunsOK
  BY TimesAssumption DEF Init, RunsOK, NotRun, NoGap, Never
<1>4. Spaced
  BY <1>2 DEF Spaced, Ran
<1>5. InTime
  <2>1. SUFFICES ASSUME NEW s \in Sections, Mins[s] > 0
                 PROVE  0 <= Mins[s] * Stretch(0 + Oversleep) * Period + 0 + Oversleep
    BY <1>2 DEF Init, InTime
  <2>2. Mins[s] \in Nat /\ Stretch(0 + Oversleep) \in Nat
    <3>1. Minute(0 + Oversleep) \in Nat
      BY TimesAssumption, MinuteIs
    <3> QED
      BY <3>1, MinsAssumption DEF Stretch, Minute
  <2>3. Mins[s] * Stretch(0 + Oversleep) * Period \in Nat
    BY <2>2, PeriodAssumption
  <2> QED
    BY <2>3, TimesAssumption
<1> QED
  BY <1>1, <1>3, <1>4, <1>5 DEF SInv

LEMMA SInvStep == SInv /\ [Next]_vars => SInv' /\ Apart
  BY CInvStep, SectionsStep DEF SInv

(* README.md:170-174 of zbxdb, for all minutes: a section is not later than  *)
(* its minutes times the minutes the longest round takes, however rounds fall*)
(* on the clock (561-568, 734).                                              *)
THEOREM SectionsAreInTime == Spec => []InTime
<1>1. SInv => InTime
  BY DEF SInv
<1> QED
  BY <1>1, SInvInit, SInvStep, PTL DEF Spec

(* And never again within its minutes less one. *)
THEOREM SectionsAreNotTooOften == Spec => NotTooOften
<1>1. SInv /\ [Next]_vars => SInv' /\ [Apart]_vars
  BY SInvStep
<1>2. Spec => [][Apart]_vars
  BY <1>1, SInvInit, PTL DEF Spec
<1> QED
  BY <1>2 DEF NotTooOften, Apart
=============================================================================
