--------------------------------- MODULE Host ---------------------------------
(* The three programs on one host: zbxdb_starter starts the zbxdb.py, which  *)
(* write the files that zbxdb_sender.py collects.  DataPath has a writer for *)
(* every file; here processes come and go, and there is one writer only if   *)
(* the starter sees to it.                                                   *)
EXTENDS Starter, Naturals

CONSTANTS Senders, Servers, MaxLines

ASSUME LinesAssumption == MaxLines \in Nat

VARIABLES
    outDir, out, tmpDir, tmp, handle, mpc, count, raced, late,
    lock, spc, todo, zip, offered, archive, expired, atRisk
VARIABLES
    file,       \* DataPath's cur
    servers     \* and left

(* The output file is named after the cfg (get_config, 268-271).             *)
DP == INSTANCE DataPath WITH
        Monitors <- Slots, Files <- Cfgs, OutFile <- CfgOf,
        Overlap <- FALSE, Kills <- FALSE, cur <- file, left <- servers

path == <<outDir, out, tmpDir, tmp, handle, mpc, count, raced, late, lock, spc,
          todo, zip, offered, archive, expired, atRisk, file, servers>>
vars == <<svars, path>>

Init == SInit /\ DP!Init

(* The end of a process closes its file. *)
MonitorEnds(s) ==
    /\ Ends(s)
    /\ DP!Forget(s) \/ (handle[s] = "none" /\ mpc[s] = "idle" /\ UNCHANGED path)

Start(i) == Runs(i) /\ UNCHANGED path

Send(s) == (DP!Start(s) \/ DP!Runs(s)) /\ UNCHANGED svars

Next ==
    \/ \E i \in Starters : Start(i) \/ (Dies(i) /\ UNCHANGED path)
    \/ \E c \in Cfgs : CfgChanges(c) /\ UNCHANGED path
    \/ \E s \in Slots : MonitorEnds(s)
    \/ \E s \in up : (DP!Works(s) \/ DP!Forget(s)) /\ UNCHANGED svars
    \/ \E s \in Senders : Send(s)

Spec == Init /\ [][Next]_vars

(* cron keeps running both scripts, and a run of them keeps going.           *)
FairSpec ==
    /\ Spec
    /\ \A i \in Starters : WF_vars(Start(i))
    /\ \A s \in Senders : WF_vars(Send(s))
-----------------------------------------------------------------------------
(* No line that was in time is lost: a zbxdb.py may be killed and another    *)
(* started at any point, none truncates what its twin has written.           *)
LineAccounted == DP!LineAccounted

(* A cfg that stays there always gets a monitor again (README.md:181-186,    *)
(* the crontab line), also after runs of the starter that were killed, if no *)
(* editor keeps it open.                                                     *)
Monitored ==
    \A c \in Cfgs :
        <>[](c \in cfgs /\ c \notin open) /\ <>[][\A i \in Starters : ~Dies(i)]_vars
            => []<>(\E s \in up : CfgOf[s] = c)
=============================================================================
