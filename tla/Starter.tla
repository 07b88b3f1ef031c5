------------------------------- MODULE Starter -------------------------------
(* zbxdb_starter, which cron runs every minute: a lock that holds its PID,   *)
(* and for every cfg in etc/ a look at "ps | grep" before zbxdb.py is        *)
(* started on it.  zbxdb.py processes come from here only, and end when they *)
(* are killed (zbxdb_stop), when they crash or when their cfg is gone.       *)

CONSTANTS
    Cfgs,       \* names of cfgs
    Slots,      \* zbxdb.py processes that can exist at one time
    CfgOf,      \* the cfg each of them is started on
    Starters,   \* runs of zbxdb_starter that can exist at one time
    Together    \* may a run pass the test of the lock while another that has
                \* passed it has not yet written its PID

ASSUME CfgOfAssumption == Slots # {} /\ CfgOf \in [Slots -> Cfgs]
ASSUME StartersAssumption == Together \in BOOLEAN /\ {"none", "empty", "dead"} \cap Starters = {}

VARIABLES
    cfgs,       \* cfgs that exist and can be written (-w)
    open,       \* cfgs named on the command line of another process: an editor,
                \* zbxdb.py -p
    up,         \* zbxdb.py processes that run
    lck,        \* the lock file: "none", "empty", the run whose PID it holds, or
                \* "dead" when that is no longer running
    pc,         \* where a run is
    left,       \* cfgs it has listed and not looked at yet
    cur         \* the cfg it is about to start

lists == <<left, cur>>
starters == <<lck, pc, lists>>
svars == <<cfgs, open, up, starters>>

SInit ==
    /\ cfgs \in SUBSET Cfgs /\ open = {} /\ up = {}
    /\ lck = "none"
    /\ pc = [i \in Starters |-> "off"]
    /\ left = [i \in Starters |-> {}] /\ cur = [i \in Starters |-> {}]

Goto(i, where) == pc' = [pc EXCEPT ![i] = where]

(* A bug: any lock stops a run, as it does in zbxdb_sender.py. *)
AnyLock == lck # "none"

(* A bug: the lock is not looked at. *)
LockIgnored == FALSE

(* ps -fp$PID: is it the PID of a run? *)
Locked == lck \in Starters

(* cron or somebody runs the script; it goes no further when another runs.   *)
Test(i) ==
    /\ pc[i] = "off" /\ ~Locked
    /\ Together \/ \A j \in Starters : pc[j] \notin {"lock", "pid"}
    /\ Goto(i, "lock")
    /\ UNCHANGED <<cfgs, open, up, lck, lists>>

(* echo $$ > empties the file, *)
Truncate(i) ==
    /\ pc[i] = "lock" /\ Goto(i, "pid") /\ lck' = "empty"
    /\ UNCHANGED <<cfgs, open, up, lists>>

(* and writes the PID; then the cfgs are listed.                             *)
WritePid(i) ==
    /\ pc[i] = "pid" /\ Goto(i, "look") /\ lck' = i
    /\ left' = [left EXCEPT ![i] = cfgs]
    /\ UNCHANGED <<cfgs, open, up, cur>>

(* A bug: only what the starter started itself is looked for. *)
SeenNone(c) == c \in open

(* ps | grep etc/zbxdb.x.cfg finds a line. *)
Seen(c) == c \in open \/ \E s \in up : CfgOf[s] = c

Look(i, c) ==
    /\ pc[i] = "look" /\ c \in left[i]
    /\ left' = [left EXCEPT ![i] = @ \ {c}]
    /\ IF c \in cfgs /\ ~Seen(c)
       THEN Goto(i, "launch") /\ cur' = [cur EXCEPT ![i] = {c}]
       ELSE UNCHANGED <<pc, cur>>
    /\ UNCHANGED <<cfgs, open, up, lck>>

(* nohup zbxdb.py -c $mon &; sleep 1 *)
Launch(i) ==
    /\ pc[i] = "launch" /\ Goto(i, "look") /\ cur' = [cur EXCEPT ![i] = {}]
    /\ \E s \in Slots \ up : CfgOf[s] \in cur[i] /\ up' = up \cup {s}
    /\ UNCHANGED <<cfgs, open, lck, left>>

(* rm log/$ME.lck, whoever wrote it *)
Unlock(i) ==
    /\ pc[i] = "look" /\ left[i] = {} /\ Goto(i, "off") /\ lck' = "none"
    /\ UNCHANGED <<cfgs, open, up, lists>>

Runs(i) ==
    \/ Test(i) \/ Truncate(i) \/ WritePid(i) \/ Launch(i) \/ Unlock(i)
    \/ \E c \in Cfgs : Look(i, c)

(* A run is killed; its lock stays. *)
Dies(i) ==
    /\ pc[i] # "off" /\ Goto(i, "off")
    /\ lck' = IF lck = i THEN "dead" ELSE lck
    /\ left' = [left EXCEPT ![i] = {}] /\ cur' = [cur EXCEPT ![i] = {}]
    /\ UNCHANGED <<cfgs, open, up>>

(* A zbxdb.py ends. *)
Ends(s) ==
    /\ s \in up /\ up' = up \ {s}
    /\ UNCHANGED <<cfgs, open, starters>>

(* Somebody adds or removes a cfg, opens or closes one. *)
CfgChanges(c) ==
    /\ \/ cfgs' = (IF c \in cfgs THEN cfgs \ {c} ELSE cfgs \cup {c}) /\ open' = open
       \/ open' = (IF c \in open THEN open \ {c} ELSE open \cup {c}) /\ cfgs' = cfgs
    /\ UNCHANGED <<up, starters>>
-----------------------------------------------------------------------------
(* Each variable stays in the set its use in the script implies. *)
StarterOK ==
    /\ cfgs \in SUBSET Cfgs /\ open \in SUBSET Cfgs /\ up \in SUBSET Slots
    /\ lck \in Starters \cup {"none", "empty", "dead"}
    /\ pc \in [Starters -> {"off", "lock", "pid", "look", "launch"}]
    /\ left \in [Starters -> SUBSET Cfgs] /\ cur \in [Starters -> SUBSET Cfgs]

(* No cfg ever has two monitors, whatever is killed when: neither the PID    *)
(* that a killed run left in the lock, nor a lock without any, nor a zbxdb.py*)
(* that ends while the cfgs are looked at does harm.  (With Together it does *)
(* not hold: README, section 5.)                                             *)
OneMonitor == \A s, t \in up : CfgOf[s] = CfgOf[t] => s = t
=============================================================================
