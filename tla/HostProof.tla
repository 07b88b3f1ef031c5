------------------------------ MODULE HostProof ------------------------------
(* One monitor per cfg, and lines that are delivered whatever comes and goes,*)
(* for any number of cfgs, processes, runs, servers and lines.               *)
EXTENDS Host, TLAPS

(* The starter's lock keeps its runs apart, from the test to the end: a run  *)
(* that looks at cfgs has its PID in the lock.                               *)
Apart ==
    /\ \A i, j \in Starters : pc[i] # "off" /\ pc[j] # "off" => i = j
    /\ \A i \in Starters : pc[i] \in {"look", "launch"} => lck = i

(* What a run is about to start was not there when it looked, and only it    *)
(* starts anything.                                                          *)
Missing ==
    \A i \in Starters, s \in up : pc[i] = "launch" => CfgOf[s] \notin cur[i]

(* The PID in the lock is that of a run that wrote it and goes on. *)
Holds == Locked => pc[lck] \in {"look", "launch"}

SInv == StarterOK /\ Apart /\ Missing /\ Holds /\ OneMonitor

(* Initially nothing runs.                                                   *)
LEMMA SInvInit == SInit => SInv
BY StartersAssumption
DEF SInit, SInv, StarterOK, Apart, Holds, Locked, Missing, OneMonitor

(* A run that passes the test finds nobody between the test and the PID, and *)
(* nobody whose PID is in the lock.                                          *)
LEMMA TestKeeps ==
    ASSUME SInv, ~Together, NEW i \in Starters, Test(i)
    PROVE  SInv'
<1> USE DEF SInv, StarterOK
<1>1. \A j \in Starters : pc[j] = "off"
  BY StartersAssumption DEF Test, Locked, Apart
<1>2. /\ pc' \in [Starters -> {"off", "lock", "pid", "look", "launch"}]
      /\ pc'[i] = "lock" /\ \A j \in Starters \ {i} : pc'[j] = "off"
  BY <1>1 DEF Test, Goto
<1>3. UNCHANGED <<cfgs, open, up, lck, left, cur>>
  BY DEF Test, lists
<1> QED
  BY <1>1, <1>2, <1>3 DEF Apart, Holds, Locked, Missing, OneMonitor

(* So does every other step of a run.                                        *)
LEMMA RunKeeps ==
    ASSUME SInv, ~Together, NEW i \in Starters, Runs(i)
    PROVE  SInv'
<1> USE DEF SInv, StarterOK
<1>1. CASE Test(i)
  BY <1>1, TestKeeps
<1>2. CASE Truncate(i)
  <2>1. \A j \in Starters : pc[j] # "off" => j = i
    BY <1>2 DEF Truncate, Apart
  <2> QED
    BY <1>2, <2>1, StartersAssumption
    DEF Truncate, Goto, lists, Apart, Holds, Locked, Missing, OneMonitor
<1>3. CASE WritePid(i)
  <2>1. \A j \in Starters : pc[j] # "off" => j = i
    BY <1>3 DEF WritePid, Apart
  <2> QED
    BY <1>3, <2>1 DEF WritePid, Goto, Apart, Holds, Locked, Missing, OneMonitor
<1>4. ASSUME NEW c \in Cfgs, Look(i, c) PROVE SInv'
  <2>1. /\ UNCHANGED <<cfgs, open, up, lck>> /\ left' \in [Starters -> SUBSET Cfgs]
        /\ pc[i] = "look" /\ lck = i
    BY <1>4 DEF Look, Apart
  <2>2. CASE c \in cfgs /\ ~Seen(c)
    <3>1. /\ pc' = [pc EXCEPT ![i] = "launch"] /\ cur' = [cur EXCEPT ![i] = {c}]
      BY <1>4, <2>2 DEF Look, Goto
    <3>2. \A s \in up : CfgOf[s] # c
      BY <2>2 DEF Seen
    <3> QED
      BY <2>1, <3>1, <3>2 DEF Apart, Holds, Locked, Missing, OneMonitor
  <2>3. CASE ~(c \in cfgs /\ ~Seen(c))
    <3>1. UNCHANGED <<pc, cur>>
      BY <1>4, <2>3 DEF Look
    <3> QED
      BY <2>1, <3>1 DEF Apart, Holds, Locked, Missing, OneMonitor
  <2> QED
    BY <2>2, <2>3
<1>5. CASE Launch(i)
  <2>1. PICK s \in Slots \ up : CfgOf[s] \in cur[i] /\ up' = up \cup {s}
    BY <1>5 DEF Launch
  <2>2. \A t \in up : CfgOf[t] # CfgOf[s]
    BY <1>5, <2>1 DEF Launch, Missing
  <2>3. /\ pc' = [pc EXCEPT ![i] = "look"] /\ cur' = [cur EXCEPT ![i] = {}]
        /\ pc[i] = "launch" /\ UNCHANGED <<cfgs, open, lck, left>>
    BY <1>5 DEF Launch, Goto
  <2>4. \A j \in Starters : pc'[j] # "launch"
    BY <2>3 DEF Apart
  <2>5. OneMonitor'
    BY <2>1, <2>2 DEF OneMonitor
  <2> QED
    BY <2>1, <2>3, <2>4, <2>5 DEF Apart, Holds, Locked, Missing
<1>6. CASE Unlock(i)
  <2>1. \A j \in Starters : pc[j] # "off" => j = i
    BY <1>6 DEF Unlock, Apart
  <2> QED
    BY <1>6, <2>1, StartersAssumption
    DEF Unlock, Goto, lists, Apart, Holds, Locked, Missing, OneMonitor
<1> QED
  BY <1>1, <1>2, <1>3, <1>4, <1>5, <1>6 DEF Runs

(* And so do the deaths of runs, the ends of zbxdb.py and changes of cfgs.   *)
LEMMA OthersKeep ==
    ASSUME SInv,
           \/ \E i \in Starters : Dies(i)
           \/ \E s \in Slots : Ends(s)
           \/ \E c \in Cfgs : CfgChanges(c)
           \/ UNCHANGED svars
    PROVE  SInv'
<1> USE DEF SInv, StarterOK
<1>1. ASSUME NEW i \in Starters, Dies(i) PROVE SInv'
  BY <1>1, StartersAssumption DEF Dies, Goto, Apart, Holds, Locked, Missing, OneMonitor
<1>2. ASSUME NEW s \in Slots, Ends(s) PROVE SInv'
  BY <1>2 DEF Ends, starters, lists, Apart, Holds, Locked, Missing, OneMonitor
<1>3. ASSUME NEW c \in Cfgs, CfgChanges(c) PROVE SInv'
  BY <1>3 DEF CfgChanges, starters, lists, Apart, Holds, Locked, Missing, OneMonitor
<1>4. CASE UNCHANGED svars
  BY <1>4 DEF svars, starters, lists, Apart, Holds, Locked, Missing, OneMonitor
<1> QED
  BY <1>1, <1>2, <1>3, <1>4

LEMMA SInvStep ==
    ASSUME SInv, ~Together, [Next]_vars PROVE SInv'
<1>1. ASSUME NEW i \in Starters, Start(i) PROVE SInv'
  BY <1>1, RunKeeps DEF Start
<1>2. ASSUME \/ \E i \in Starters : Dies(i)
             \/ \E s \in Slots : Ends(s)
             \/ \E c \in Cfgs : CfgChanges(c)
             \/ UNCHANGED svars
      PROVE  SInv'
  BY <1>2, OthersKeep
<1> QED
  BY <1>1, <1>2 DEF Next, MonitorEnds, Send, vars

(* Runs of zbxdb_starter that do not pass the test of the lock at one instant*)
(* never start a second zbxdb.py on a cfg, whatever dies when; the sender and*)
(* the monitors' own steps do not touch any of this.                         *)
THEOREM OneMonitorEach == ~Together => (Spec => []OneMonitor)
<1> SUFFICES ASSUME ~Together PROVE Spec => []OneMonitor
  OBVIOUS
<1>1. Init => SInv
  BY SInvInit DEF Init
<1>2. SInv /\ [Next]_vars => SInv'
  BY SInvStep
<1>3. SInv => OneMonitor
  BY DEF SInv
<1> QED
  BY <1>1, <1>2, <1>3, PTL DEF Spec
-----------------------------------------------------------------------------
(* What DataPathProof proves is used for the processes of the host.          *)
P == INSTANCE DataPathProof WITH
        Monitors <- Slots, Files <- Cfgs, OutFile <- CfgOf,
        Overlap <- FALSE, Kills <- FALSE, cur <- file, left <- servers

(* Its assumptions are those of Starter and Host. *)
LEMMA PAssumptions ==
    /\ Slots # {} /\ CfgOf \in [Slots -> Cfgs] /\ MaxLines \in Nat
BY CfgOfAssumption, LinesAssumption

(* The actions that Host is built from are the actions of that instance, *)
LEMMA SameActions ==
    /\ DP!Init = P!Init
    /\ \A s \in Slots : DP!Works(s) = P!Works(s) /\ DP!Forget(s) = P!Forget(s)
    /\ \A s \in Senders : DP!Start(s) = P!Start(s) /\ DP!Runs(s) = P!Runs(s)
<1>1. DP!Init = P!Init
  BY DEF DP!Init, P!Init
<1>2. ASSUME NEW s \in Slots
      PROVE  DP!Works(s) = P!Works(s) /\ DP!Forget(s) = P!Forget(s)
  BY DEF DP!Works, P!Works, DP!Check, P!Check, DP!Open, P!Open, DP!Write, P!Write,
     DP!FirstStep, P!FirstStep, DP!Truncates, P!Truncates, DP!Forget, P!Forget,
     DP!svars, P!svars
<1>3. ASSUME NEW s \in Senders PROVE DP!Start(s) = P!Start(s)
  BY DEF DP!Start, P!Start, DP!LockFree, P!LockFree, DP!mvars, P!mvars
<1>4. ASSUME NEW s \in Senders PROVE DP!Runs(s) = P!Runs(s)
  <2> USE DEF DP!mvars, P!mvars
  <2>1. DP!Acquire(s) = P!Acquire(s) /\ DP!ListTmpin(s) = P!ListTmpin(s)
    BY DEF DP!Acquire, P!Acquire, DP!ListTmpin, P!ListTmpin, DP!TmpinListing,
       P!TmpinListing
  <2>2. DP!ZipWrite(s) = P!ZipWrite(s) /\ DP!Remove(s) = P!Remove(s)
    BY DEF DP!ZipWrite, P!ZipWrite, DP!Served, P!Served, DP!Remove, P!Remove
  <2>3. /\ DP!Close(s) = P!Close(s) /\ DP!Clean(s) = P!Clean(s)
        /\ DP!Unlock(s) = P!Unlock(s)
    BY DEF DP!Close, P!Close, DP!Clean, P!Clean, DP!Unlock, P!Unlock
  <2>4. \A f \in Cfgs : DP!Move(s, f) = P!Move(s, f) /\ DP!Take(s, f) = P!Take(s, f)
    BY DEF DP!Move, P!Move, DP!Shifted, P!Shifted, DP!Take, P!Take
  <2>5. \A v \in Servers : DP!Send(s, v) = P!Send(s, v)
    BY DEF DP!Send, P!Send
  <2> QED
    BY <2>1, <2>2, <2>3, <2>4, <2>5 DEF DP!Runs, P!Runs
<1> QED
  BY <1>1, <1>2, <1>3, <1>4

(* so every step of the host is one of it, or leaves it alone. *)
LEMMA HostStep ==
    ASSUME up \subseteq Slots, [Next]_vars PROVE [P!Next]_(P!vars)
<1> USE SameActions
<1>1. path' = path => UNCHANGED P!vars
  BY DEF path, P!vars, P!mvars, P!svars
<1>2. ASSUME NEW s \in Slots, MonitorEnds(s) PROVE [P!Next]_(P!vars)
  BY <1>1, <1>2 DEF MonitorEnds, P!Next
<1>3. ASSUME NEW s \in up, DP!Works(s) \/ DP!Forget(s) PROVE P!Next
  BY <1>3 DEF P!Next
<1>4. ASSUME NEW s \in Senders, Send(s) PROVE P!Next
  BY <1>4 DEF Send, P!Next
<1> QED
  BY <1>1, <1>2, <1>3, <1>4 DEF Next, Start, vars

(* A process that does not run has no file open and is in no call.           *)
Idle == \A s \in Slots \ up : handle[s] = "none" /\ mpc[s] = "idle"

(* One monitor per cfg is one user per file.                                 *)
LEMMA IdleIsSole == (SInv /\ Idle => P!Sole) /\ (SInv /\ Idle => P!Sole)'
BY CfgOfAssumption DEF SInv, StarterOK, OneMonitor, Idle, P!Sole, P!Users

(* Neither does one get a file by what the sender moves and removes.         *)
LEMMA IdleStep ==
    ASSUME SInv, P!TypeOK, Idle, [Next]_vars PROVE Idle'
<1> USE SameActions DEF Idle, SInv, StarterOK, P!TypeOK
<1>1. ASSUME UNCHANGED path, up \subseteq up' PROVE Idle'
  BY <1>1 DEF path
<1>2. ASSUME NEW i \in Starters, Start(i) \/ (Dies(i) /\ UNCHANGED path) PROVE Idle'
  <2>1. up \subseteq up' /\ UNCHANGED path
    BY <1>2 DEF Start, Runs, Test, Truncate, WritePid, Launch, Unlock, Look, Dies
  <2> QED
    BY <1>1, <2>1
<1>3. ASSUME NEW c \in Cfgs, CfgChanges(c), UNCHANGED path PROVE Idle'
  BY <1>1, <1>3 DEF CfgChanges
<1>4. ASSUME NEW s \in Slots, MonitorEnds(s) PROVE Idle'
  BY <1>4 DEF MonitorEnds, Ends, P!Forget, path
<1>5. ASSUME NEW s \in up, DP!Works(s) \/ DP!Forget(s), UNCHANGED svars PROVE Idle'
  BY <1>5 DEF P!Works, P!Check, P!Open, P!Write, P!Forget, svars
<1>6. ASSUME NEW s \in Senders, Send(s) PROVE Idle'
  <2>1. up' = up /\ mpc' = mpc
    BY <1>6 DEF Send, svars, P!Start, P!Runs, P!Acquire, P!ListTmpin, P!ZipWrite,
       P!Remove, P!Close, P!Clean, P!Unlock, P!Move, P!Take, P!Send, P!mvars
  <2> SUFFICES ASSUME NEW m \in Slots, handle[m] = "none" PROVE handle'[m] = "none"
    BY <2>1
  <2>2. ASSUME NEW f \in Cfgs, P!Move(s, f) PROVE handle'[m] = "none"
    BY <2>2 DEF P!Move, P!Shifted
  <2>3. CASE P!Remove(s)
    BY <2>3 DEF P!Remove
  <2>4. ASSUME ~P!Remove(s), \A f \in Cfgs : ~P!Move(s, f) PROVE handle' = handle
    BY <1>6, <2>4 DEF Send, P!Start, P!Runs, P!Acquire, P!ListTmpin, P!ZipWrite,
       P!Close, P!Clean, P!Unlock, P!Take, P!Send, P!mvars
  <2> QED
    BY <2>2, <2>3, <2>4
<1>7. CASE UNCHANGED vars
  BY <1>1, <1>7 DEF vars, svars
<1> QED
  BY <1>2, <1>3, <1>4, <1>5, <1>6, <1>7 DEF Next

(* The invariants of both parts, held together by Idle. *)
HInv == SInv /\ Idle /\ P!IInv /\ P!Last

LEMMA HInvInit == Init => HInv
<1> SUFFICES ASSUME Init PROVE HInv
  OBVIOUS
<1>1. P!Init
  BY SameActions DEF Init
<1>2. SInv /\ Idle
  BY <1>1, SInvInit DEF Init, P!Init, Idle
<1>3. P!IInv /\ P!Last
  BY <1>1, PAssumptions, P!InvInit, P!LastInit
<1> QED
  BY <1>2, <1>3 DEF HInv

LEMMA HInvStep ==
    ASSUME HInv, ~Together, [Next]_vars PROVE HInv' /\ [P!Next]_(P!vars)
<1>1. SInv'
  BY SInvStep DEF HInv
<1>2. P!TypeOK /\ up \subseteq Slots
  BY DEF HInv, P!IInv, P!Typed, SInv, StarterOK
<1>3. Idle' /\ [P!Next]_(P!vars)
  BY <1>2, IdleStep, HostStep DEF HInv
<1>4. P!Sole /\ P!Sole'
  BY <1>1, <1>3, IdleIsSole DEF HInv
<1>5. P!IInv'
  BY <1>3, <1>4, PAssumptions, P!InvStep DEF HInv
<1>6. P!Last'
  BY <1>3, PAssumptions, P!LastStep DEF HInv
<1> QED
  BY <1>1, <1>3, <1>5, <1>6 DEF HInv

LEMMA HostInvariance == ASSUME ~Together PROVE Spec => []HInv
<1>1. HInv /\ [Next]_vars => HInv'
  BY ~Together, HInvStep
<1> QED
  BY <1>1, HInvInit, PTL DEF Spec
-----------------------------------------------------------------------------
(* A line that was in time is never lost (zbxdb.py, 91-111; zbxdb_sender.py, *)
(* 161-235): zbxdb.py may end between any two steps of to_outfile and its    *)
(* successor may start at once, while the sender moves the file under it.    *)
THEOREM HostLosesNoLine == ~Together => (Spec => []LineAccounted)
<1> SUFFICES ASSUME ~Together PROVE Spec => []LineAccounted
  OBVIOUS
<1>1. HInv => P!LineAccounted
  BY PAssumptions, P!InvLines DEF HInv
<1>2. P!LineAccounted => LineAccounted
  BY DEF LineAccounted, DP!LineAccounted, P!LineAccounted, DP!Written, P!Written,
     DP!Line, P!Line, DP!Kept, P!Kept, DP!InOut, P!InOut, DP!InTmp, P!InTmp,
     DP!InZip, P!InZip, DP!Archived, P!Archived
<1> QED
  BY <1>1, <1>2, HostInvariance, PTL

(* A process writes to a file it lost only if it lost it during that call of *)
(* to_outfile: never to one that its predecessor, or an earlier call, lost.  *)
THEOREM HostLateLinesAreRaces == ~Together => (Spec => []DP!LateOnlyIfRaced)
<1> SUFFICES ASSUME ~Together PROVE Spec => []DP!LateOnlyIfRaced
  OBVIOUS
<1>1. HInv => DP!LateOnlyIfRaced
  BY DEF HInv, P!IInv, P!Handles, DP!LateOnlyIfRaced
<1> QED
  BY <1>1, HostInvariance, PTL

(* The three programs together implement Delivery: every line in time is     *)
(* offered to each server before it is archived, and none leaves the archive *)
(* but by expiring, for whatever processes of zbxdb.py the starter makes.    *)
THEOREM HostDelivers == ~Together => (Spec => DP!Delivers)
<1> SUFFICES ASSUME ~Together PROVE Spec => DP!Delivers
  OBVIOUS
<1> USE DEF DP!Line, P!Line, DP!InOut, P!InOut, DP!InTmp, P!InTmp, DP!InZip, P!InZip,
            DP!Archived, P!Archived
<1>1. DP!D!DInit = P!D!DInit
  BY DEF DP!D!DInit, P!D!DInit
<1>2. [DP!D!DNext]_(DP!D!dvars) = [P!D!DNext]_(P!D!dvars)
  BY DEF DP!D!DNext, P!D!DNext, DP!D!dvars, P!D!dvars, DP!D!Emit, P!D!Emit,
     DP!D!EmitLate, P!D!EmitLate, DP!D!Offer, P!D!Offer, DP!D!Archive, P!D!Archive,
     DP!D!Expire, P!D!Expire, DP!D!Seen, P!D!Seen
<1>3. Init => DP!D!DInit
  BY <1>1, SameActions, PAssumptions, P!InitDelivers DEF Init
<1>4. HInv /\ [Next]_vars => [DP!D!DNext]_(DP!D!dvars)
  BY <1>2, ~Together, HInvStep, PAssumptions, P!StepDelivers DEF HInv
<1> QED
  BY <1>3, <1>4, HostInvariance, PTL DEF Spec, DP!Delivers, DP!D!DSpec

(* So what follows from Delivery holds on the host: a line has one fate at a *)
(* time, is offered to each server before it is archived, and never waits    *)
(* again once it was.                                                        *)
Q == INSTANCE DeliveryProof WITH
        Line <- DP!Line, Servers <- Servers,
        pending <- (DP!InOut \cup DP!InTmp \cup DP!InZip) \ late,
        late <- late, offered <- offered,
        archived <- DP!Archived \ late,
        expired <- expired \ late

THEOREM LinesGoForward ==
    ~Together => (Spec => []Q!Promise /\ [][Q!Forward]_(Q!dvars))
<1> SUFFICES ASSUME ~Together PROVE Spec => []Q!Promise /\ [][Q!Forward]_(Q!dvars)
  OBVIOUS
<1>1. DP!D!DInit => Q!DInit
  BY DEF DP!D!DInit, Q!DInit
<1>2. [DP!D!DNext]_(DP!D!dvars) => [Q!DNext]_(Q!dvars)
  BY DEF DP!D!DNext, Q!DNext, DP!D!dvars, Q!dvars, DP!D!Emit, Q!Emit,
     DP!D!EmitLate, Q!EmitLate, DP!D!Offer, Q!Offer, DP!D!Archive, Q!Archive,
     DP!D!Expire, Q!Expire, DP!D!Seen, Q!Seen
<1>3. DP!Delivers => Q!DSpec
  BY <1>1, <1>2, PTL DEF DP!Delivers, DP!D!DSpec, Q!DSpec
<1>4. Spec => DP!Delivers
  BY ~Together, HostDelivers
<1> QED
  BY <1>3, <1>4, Q!DeliveryPromises, PTL

(* A run of the sender never comes to a name that is gone (168, 225-227, 235)*)
(* and sends nothing twice: it always ends with its archive and its lock     *)
(* removed, although monitors come and go meanwhile.  (That is why Host needs*)
(* no step for a run that trips.)                                            *)
SenderGoesOn == DP!NeverTrips /\ DP!OfferedOnce

THEOREM SendersGoOn == ~Together => (Spec => []SenderGoesOn)
<1> SUFFICES ASSUME ~Together PROVE Spec => []SenderGoesOn
  OBVIOUS
<1>1. HInv => P!NeverTrips /\ P!OfferedOnce
  BY PAssumptions, P!InvTrips, P!InvSends DEF HInv
<1>2. P!NeverTrips /\ P!OfferedOnce => SenderGoesOn
  BY DEF SenderGoesOn, P!NeverTrips, DP!NeverTrips, P!Trips, DP!Trips, P!Served,
     DP!Served, P!OfferedOnce, DP!OfferedOnce
<1> QED
  BY <1>1, <1>2, HostInvariance, PTL

(* Nothing keeps a script out for good: a lock of the sender is that of a run*)
(* at work (157-161), and the PID in the starter's lock that of a run which  *)
(* lists or starts cfgs.                                                     *)
LocksAreHeld ==
    /\ lock => \E s \in Senders : spc[s] \notin {"off", "lock"}
    /\ Locked => pc[lck] \in {"look", "launch"}

THEOREM LocksHeld == ~Together => (Spec => []LocksAreHeld)
<1> SUFFICES ASSUME ~Together PROVE Spec => []LocksAreHeld
  OBVIOUS
<1>1. HInv => LocksAreHeld
  BY DEF HInv, SInv, Holds, P!Last, P!LockOwned, P!Active, LocksAreHeld, Locked
<1> QED
  BY <1>1, HostInvariance, PTL
=============================================================================
