------------------------------ MODULE Backoff ------------------------------
(* How long main() sleeps between attempts to connect (872-874, 970-972,     *)
(* 1001-1020): a second after each of the first failures with the same code, *)
(* Step seconds more after every Tries of them, up to a limit.  The counters *)
(* alone; Schedule runs them against the clock.                              *)
EXTENDS Integers

CONSTANTS
    Codes,      \* what db_errorcode can give
    Tries,      \* failures with one code before the sleep grows (10)
    Step,       \* by how much it grows (10)
    Limit,      \* beyond this it does not grow (290)
    MaxStreak   \* bound: failures in a row

ASSUME NumbersAssumption ==
    Tries \in Nat \ {0} /\ Step \in Nat \ {0} /\ Limit \in Nat \ {0} /\ MaxStreak \in Nat

VARIABLES
    sleep_c, sleep_s, prev_err,
    streak      \* failures in a row with the code prev_err

bvars == <<sleep_c, sleep_s, prev_err, streak>>

Fresh == sleep_c = 0 /\ sleep_s = 1 /\ prev_err = 0 /\ streak = 0

Full(c) == c >= Tries

(* A bug: there is no limit. *)
GrownAlways(s) == s + Step

Grown(s) == IF s <= Limit THEN s + Step ELSE s

(* A bug: the count of the code before goes on. *)
BeforeKept(e) == [c |-> sleep_c, s |-> sleep_s, n |-> IF prev_err = e THEN streak ELSE 0]

(* What is counted on from: another code starts from a second again.         *)
Before(e) ==
    IF prev_err = e THEN [c |-> sleep_c, s |-> sleep_s, n |-> streak]
    ELSE [c |-> 0, s |-> 1, n |-> 0]

(* The counters in the except branch. *)
Failure(e) ==
    /\ Before(e).n < MaxStreak
    /\ prev_err' = e /\ streak' = Before(e).n + 1
    /\ IF Full(Before(e).c + 1)
       THEN sleep_c' = 0 /\ sleep_s' = Grown(Before(e).s)
       ELSE sleep_c' = Before(e).c + 1 /\ sleep_s' = Before(e).s

(* All checkfiles exist: the connection works, until it fails in its turn.   *)
Connected == sleep_c' = 0 /\ sleep_s' = 1 /\ prev_err' = 0 /\ streak' = 0

BackoffNext == (\E e \in Codes : Failure(e)) \/ Connected

BackoffSpec == Fresh /\ [][BackoffNext]_bvars
-----------------------------------------------------------------------------
(* Each counter stays in the set its use in main() implies. *)
CountersOK ==
    /\ sleep_c \in 0..(Tries - 1) /\ sleep_s \in Nat \ {0}
    /\ prev_err \in Codes \cup {0}
    /\ streak \in 0..MaxStreak

(* The comment at 1009: "don't sleep longer than 5 mins", for the numbers    *)
(* of the code: 290 + 10 seconds at most.                                    *)
SleepBounded == sleep_s <= Limit + Step

(* What the loop of counters computes: the n-th failure in a row with one    *)
(* code is followed by 1 + Step * (n \div Tries) seconds, or by the first of *)
(* these numbers that is above the limit; nothing of an earlier connection   *)
(* or of another code is left in it.                                         *)
Top == 1 + Step * ((Limit - 1) \div Step + 1)
Expected(n) == IF 1 + Step * (n \div Tries) <= Limit THEN 1 + Step * (n \div Tries) ELSE Top
SleepMatchesStreak == sleep_s = Expected(streak) /\ sleep_c = streak % Tries
=============================================================================
