------------------------------ MODULE Schedule ------------------------------
(* The clock of one zbxdb.py: attempts to connect and the sleeps of Backoff  *)
(* between them (876-1020); in a connection, rounds that last as long as     *)
(* their queries, a sleep up to the next whole minute since the start of the *)
(* program (734-738), sections that are due every so many rounds (565-568),  *)
(* a status dump on the hour (719-732), an uptime line in every round (556)  *)
(* and after every failure (1018).  Time is in seconds since start_time; a   *)
(* minute may be made shorter than 60.                                       *)
EXTENDS Backoff

CONSTANTS
    Period,     \* seconds in a minute (60)
    Hour,       \* seconds in an hour (3600)
    Sections,   \* sections of the checks files
    Mins,       \* "minutes" of each; 0 is at connect only
    Loading,    \* the sleep while checks are loaded (3)
    MaxConnect, \* longest time an attempt to connect takes
    MaxRound,   \* longest time the queries of a round take
    Oversleep,  \* how much later than asked time.sleep may return
    MaxFlips,   \* bound: changes of role between two uptime lines
    MaxTime     \* bound: seconds observed

ASSUME PeriodAssumption == Period \in Nat \ {0} /\ Hour \in Nat \ {0}
ASSUME MinsAssumption == Mins \in [Sections -> Nat]
ASSUME TimesAssumption ==
    /\ Loading \in Nat /\ MaxConnect \in Nat /\ MaxRound \in Nat
    /\ Oversleep \in Nat /\ MaxFlips \in Nat /\ MaxTime \in Nat

Never == MaxTime + 1

VARIABLES
    now,
    phase,      \* "connecting", "napping" after a failure, "round" (about to
                \* begin), "queries" or "asleep"
    opened,     \* when this connection was made (open_time)
    con_mins,   \* rounds of this connection
    now_run,    \* when this round began
    last,       \* when the round began in which each section last ran
    long,       \* the longest round of this connection
    gap,        \* longest time between two runs of each section in it
    uptime,     \* when the last uptime line was written
    flips,      \* changes of role since then
    dumped      \* hours whose status was dumped

connection == <<opened, con_mins, now_run, last, long, gap>>
vars == <<now, phase, connection, uptime, flips, dumped, bvars>>

Passes(d) == now + d <= MaxTime /\ now' = now + d

NotRun == [s \in Sections |-> Never]
NoGap == [s \in Sections |-> 0]

Init ==
    /\ now = 0 /\ phase = "connecting" /\ opened = 0 /\ now_run = 0 /\ uptime = 0 /\ flips = 0
    /\ con_mins = 0 /\ last = NotRun /\ gap = NoGap /\ long = 0
    /\ dumped = {} /\ Fresh

(* A connection: con_mins = 0, open_time, the counters of Backoff.           *)
Connect(d) ==
    /\ phase = "connecting" /\ Passes(d)
    /\ phase' = "round" /\ opened' = now' /\ Connected
    /\ con_mins' = 0 /\ last' = NotRun /\ gap' = NoGap /\ long' = 0
    /\ UNCHANGED <<now_run, uptime, flips, dumped>>

(* A bug: the uptime is written by connection_loop only. *)
FailsSilently(d, e) ==
    /\ Passes(d) /\ Failure(e)
    /\ phase' = "napping"
    /\ UNCHANGED <<connection, uptime, flips, dumped>>

(* An exception, whose handler writes the uptime and sleeps for sleep_s.     *)
Fails(d, e) ==
    /\ Passes(d) /\ Failure(e)
    /\ phase' = "napping" /\ uptime' = now' /\ flips' = 0
    /\ UNCHANGED <<connection, dumped>>

Refused(d) == phase = "connecting" /\ \E e \in Codes : Fails(d, e)

Nap(late) ==
    /\ phase = "napping" /\ Passes(sleep_s + late)
    /\ phase' = "connecting"
    /\ UNCHANGED <<connection, uptime, flips, dumped, bvars>>

(* A round begins; checks that are new or changed are loaded, then the       *)
(* uptime is written.                                                        *)
Begin(d) ==
    /\ phase = "round" /\ Passes(d)
    /\ d = Loading \/ (d = 0 /\ con_mins > 0)
    /\ phase' = "queries" /\ now_run' = now /\ uptime' = now' /\ flips' = 0
    /\ UNCHANGED <<opened, con_mins, last, long, gap, dumped, bvars>>

(* The role changed: connection_loop is left without a failure. *)
RoleChanged ==
    /\ phase = "round" /\ phase' = "connecting"
    /\ flips < MaxFlips /\ flips' = flips + 1
    /\ UNCHANGED <<now, connection, uptime, dumped, bvars>>

(* A bug: one round too late. *)
DueLate(s) ==
    \/ Mins[s] = 0 /\ con_mins = 0
    \/ Mins[s] > 0 /\ con_mins % (Mins[s] + 1) = 0

(* A bug: a section of 0 minutes is due in every round. *)
DueAtZero(s) == Mins[s] = 0 \/ con_mins % Mins[s] = 0

Due(s) ==
    \/ Mins[s] = 0 /\ con_mins = 0
    \/ Mins[s] > 0 /\ con_mins % Mins[s] = 0

Longer(a, b) == IF a > b THEN a ELSE b

(* The sections that are due run; the status is dumped by a round that began *)
(* on the hour.                                                              *)
Queries(d) ==
    /\ phase = "queries" /\ Passes(d)
    /\ phase' = "asleep"
    /\ last' = [s \in Sections |-> IF Due(s) THEN now_run ELSE last[s]]
    /\ gap' = [s \in Sections |->
                 IF Due(s) /\ last[s] # Never THEN Longer(gap[s], now_run - last[s])
                 ELSE gap[s]]
    /\ long' = Longer(long, now' - now_run)
    /\ dumped' = IF now_run % Hour = 0 THEN dumped \cup {now_run \div Hour} ELSE dumped
    /\ UNCHANGED <<opened, con_mins, now_run, uptime, flips, bvars>>

(* The session is lost, before a round or in it. *)
SessionLost(d) ==
    /\ phase = "queries" \/ (phase = "round" /\ d = 0)
    /\ \E e \in Codes : Fails(d, e)

(* A bug: always a whole minute. *)
WholeMinute(t) == Period

SleepTime(t) == Period - (t % Period)

Sleep(late) ==
    /\ phase = "asleep" /\ Passes(SleepTime(now) + late)
    /\ phase' = "round" /\ con_mins' = con_mins + 1
    /\ UNCHANGED <<opened, now_run, last, long, gap, uptime, flips, dumped, bvars>>

Next ==
    \/ \E d \in 0..MaxConnect : Connect(d) \/ Refused(d)
    \/ \E d \in {0, Loading} : Begin(d)
    \/ \E d \in 0..MaxRound : Queries(d) \/ SessionLost(d)
    \/ \E late \in 0..Oversleep : Nap(late) \/ Sleep(late)
    \/ RoleChanged

Spec == Init /\ [][Next]_vars
-----------------------------------------------------------------------------
(* The comment at 733: the rounds of a connection, except its first, begin   *)
(* on the same second, give or take what time.sleep adds; that never adds up.*)
SameSecond == phase = "round" /\ con_mins > 0 => now % Period <= Oversleep

(* Minutes from one run of a section to the next when no round takes longer  *)
(* than r: a round of a minute or more pushes the next one a minute further. *)
Stretch(r) == r \div Period + 1

(* README.md:170-174: a section runs every so many minutes when the checks   *)
(* take less than one, and else every so many times the minutes a round      *)
(* takes; only the first of these may be longer, by the time its round took. *)
InTime ==
    \A s \in Sections : Mins[s] > 0 =>
        gap[s] <= Mins[s] * Stretch(long + Oversleep) * Period + long + Oversleep

(* A section never runs again within its minutes less one, however rounds    *)
(* are shifted against the clock; one of 0 minutes not at all.               *)
NotTooOften ==
    [][\A s \in Sections :
          last[s] # Never /\ last'[s] \notin {Never, last[s]} =>
              Mins[s] > 0 /\ last'[s] - last[s] > (Mins[s] - 1) * Period]_vars

(* The longest silence the loops and Backoff allow: a round and the sleep to *)
(* the next minute, or the sleep after a failure, and then one attempt.      *)
Silence == Longer(MaxRound + Period, Limit + Step) + Oversleep + MaxConnect + Loading

(* The comment at 1016-1017, "uptime is used for nodata item .... so also    *)
(* give when not connected" (nodata triggers: zbxdb_template_v5.xml:174,     *)
(* 865): two uptime lines are never further apart, whatever fails in which   *)
(* order; only each change of role adds an attempt that writes none.         *)
UptimeGap ==
    [][uptime' # uptime => uptime' - uptime <= Silence + flips * MaxConnect]_vars

(* doc/trouble_shooting.md:12-13, an hourly status update: when an hour has  *)
(* passed in a connection, the status was dumped.                            *)
(* It does not hold: README, section 5.                                      *)
HourlyStatus ==
    \A h \in 1..(MaxTime \div Hour) :
        phase = "round" /\ opened < h * Hour /\ now > h * Hour => h \in dumped
=============================================================================
