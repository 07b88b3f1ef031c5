------------------------------ MODULE DataPath ------------------------------
(* The path of an output line: a monitor (zbxdb.py, to_outfile) appends it   *)
(* to its file in ZBXDB_OUT; once a minute cron starts zbxdb_sender.py,      *)
(* which moves the files to TMPIN, hands each to zabbix_sender once for      *)
(* every server, adds it to the zip of the run and removes it.  The two      *)
(* programs share only the file system: nothing tells the monitor that its   *)
(* open file was moved, and the lock file only keeps out other senders.      *)
EXTENDS Naturals

CONSTANTS
    Monitors,   \* running zbxdb.py processes
    Files,      \* names of output files in ZBXDB_OUT
    OutFile,    \* the file each monitor writes (config['out_file'])
    Senders,    \* zbxdb_sender.py processes that can exist at one time
    Servers,    \* zabbix servers the sender was given
    MaxLines,   \* bound: lines one monitor writes
    Overlap,    \* may a sender start while another is about to lock
    Kills       \* may a sender be killed (signal, full disk, power)

ASSUME OutFileAssumption == Monitors # {} /\ OutFile \in [Monitors -> Files]
ASSUME MaxLinesAssumption == MaxLines \in Nat
ASSUME SwitchesAssumption == Overlap \in BOOLEAN /\ Kills \in BOOLEAN

VARIABLES
    outDir,     \* names present in ZBXDB_OUT
    out,        \* the lines in each of these files
    tmpDir,     \* names present in TMPIN
    tmp,        \* the lines in each of these files
    handle,     \* what the open file of a monitor (_c['OUTF']) denotes now
    mpc,        \* where a monitor is in to_outfile
    count,      \* lines a monitor has written
    raced,      \* was its file moved since the monitor looked for it
    late,       \* lines written to a file that had already been moved
    lock,       \* does the lock file exist
    spc,        \* where a sender is
    todo,       \* names a sender has listed and not handled yet
    cur,        \* the file a sender is processing
    left,       \* servers it has still to send that file to
    zip,        \* lines in the zip of this run
    offered,    \* lines zabbix_sender read, for each server
    archive,    \* the closed zips of earlier runs
    expired,    \* lines of the zips removed after two days
    atRisk      \* lines in TMPIN or in the zip of a run when it died

mvars == <<handle, mpc, count, raced, late>>
svars == <<spc, todo, cur, left, zip, offered, archive, expired, atRisk, lock>>
vars == <<outDir, out, tmpDir, tmp, mvars, svars>>

Line == Monitors \X (1..MaxLines)
Written == {l \in Line : l[2] <= count[l[1]]}
Where == {"none", "out", "tmp", "gone"}

Init ==
    /\ outDir = {} /\ out = [f \in Files |-> {}]
    /\ tmpDir = {} /\ tmp = [f \in Files |-> {}]
    /\ handle = [m \in Monitors |-> "none"]
    /\ mpc = [m \in Monitors |-> "idle"]
    /\ count = [m \in Monitors |-> 0]
    /\ raced = [m \in Monitors |-> FALSE]
    /\ late = {}
    /\ lock = FALSE
    /\ spc = [s \in Senders |-> "off"]
    /\ todo = [s \in Senders |-> {}]
    /\ cur = [s \in Senders |-> CHOOSE f \in Files : TRUE]
    /\ left = [s \in Senders |-> {}]
    /\ zip = [s \in Senders |-> {}]
    /\ offered = [v \in Servers |-> {}]
    /\ archive = {} /\ expired = {} /\ atRisk = {}

-----------------------------------------------------------------------------
(* The monitor: to_outfile *)

(* A bug: the file is looked for only when none is open. *)
FirstStepOnce(m) ==
    CASE handle[m] # "none" -> "write"
      [] handle[m] = "none" /\ OutFile[m] \notin outDir -> "create"
      [] OTHER -> "append"

(* os.path.exists(out_file) and what it leads to *)
FirstStep(m) ==
    CASE OutFile[m] \notin outDir -> "create"
      [] OutFile[m] \in outDir /\ handle[m] = "none" -> "append"
      [] OTHER -> "write"

Check(m) ==
    /\ mpc[m] = "idle" /\ count[m] < MaxLines
    /\ mpc' = [mpc EXCEPT ![m] = FirstStep(m)]
    /\ raced' = [raced EXCEPT ![m] = FALSE]
    /\ UNCHANGED <<outDir, out, tmpDir, tmp, handle, count, late, svars>>

(* A bug: always open with "w". *)
AlwaysTruncates(m) == TRUE

(* open(out_file, "w") empties what is there, open(out_file, "a") keeps it;  *)
(* either creates the file when it is missing.                               *)
Truncates(m) == mpc[m] = "create"

Open(m) ==
    /\ mpc[m] \in {"create", "append"}
    /\ outDir' = outDir \cup {OutFile[m]}
    /\ out' = IF Truncates(m) THEN [out EXCEPT ![OutFile[m]] = {}] ELSE out
    /\ handle' = [handle EXCEPT ![m] = "out"]
    /\ mpc' = [mpc EXCEPT ![m] = "write"]
    /\ UNCHANGED <<tmpDir, tmp, count, raced, late, svars>>

(* One line is written and flushed to whatever file the handle denotes: the  *)
(* item, or the TypeError line in its place.                                 *)
Write(m) ==
    LET f == OutFile[m]
        line == <<m, count[m] + 1>>
    IN  /\ mpc[m] = "write"
        /\ count' = [count EXCEPT ![m] = @ + 1]
        /\ out' = IF handle[m] = "out" THEN [out EXCEPT ![f] = @ \cup {line}] ELSE out
        /\ tmp' = IF handle[m] = "tmp" THEN [tmp EXCEPT ![f] = @ \cup {line}] ELSE tmp
        /\ late' = IF handle[m] = "out" THEN late ELSE late \cup {line}
        /\ mpc' = [mpc EXCEPT ![m] = "idle"]
        /\ UNCHANGED <<outDir, tmpDir, handle, raced, svars>>

(* A restart, a reread configuration (OUTF = 0) or the death of the process: *)
(* the open file is forgotten and a line not yet written is never written.   *)
Forget(m) ==
    /\ handle[m] # "none" \/ mpc[m] # "idle"
    /\ handle' = [handle EXCEPT ![m] = "none"]
    /\ mpc' = [mpc EXCEPT ![m] = "idle"]
    /\ UNCHANGED <<outDir, out, tmpDir, tmp, count, raced, late, svars>>

-----------------------------------------------------------------------------
(* One run of zbxdb_sender.py *)

(* A bug: the lock is not looked at. *)
LockIgnored == TRUE

(* cron starts a run that finds no lock; one that finds it exits at once.    *)
LockFree == ~lock

Start(s) ==
    /\ spc[s] = "off" /\ LockFree
    /\ Overlap \/ \A t \in Senders : spc[t] # "lock"
    /\ spc' = [spc EXCEPT ![s] = "lock"]
    /\ UNCHANGED <<outDir, out, tmpDir, tmp, mvars, todo, cur, left, zip,
                   offered, archive, expired, atRisk, lock>>

(* The lock is created and ZBXDB_OUT is listed. *)
Acquire(s) ==
    /\ spc[s] = "lock"
    /\ lock' = TRUE
    /\ todo' = [todo EXCEPT ![s] = outDir]
    /\ spc' = [spc EXCEPT ![s] = "move"]
    /\ UNCHANGED <<outDir, out, tmpDir, tmp, mvars, cur, left, zip, offered,
                   archive, expired, atRisk>>

(* What a file handle denotes after its file name was renamed away. *)
Shifted(h) == CASE h = "out" -> "tmp" [] h = "tmp" -> "gone" [] OTHER -> h

(* shutil.move: a rename that replaces a file of that name in TMPIN. *)
Move(s, f) ==
    /\ spc[s] = "move" /\ f \in todo[s] /\ f \in outDir
    /\ outDir' = outDir \ {f} /\ out' = [out EXCEPT ![f] = {}]
    /\ tmpDir' = tmpDir \cup {f} /\ tmp' = [tmp EXCEPT ![f] = out[f]]
    /\ handle' = [m \in Monitors |->
                    IF OutFile[m] = f THEN Shifted(handle[m]) ELSE handle[m]]
    /\ raced' = [m \in Monitors |-> raced[m] \/ OutFile[m] = f]
    /\ todo' = [todo EXCEPT ![s] = @ \ {f}]
    /\ UNCHANGED <<mpc, count, late, spc, cur, left, zip, offered, archive,
                   expired, atRisk, lock>>

(* A bug: the other directory is listed. *)
OutListing == outDir

(* sorted(os.listdir(TMPIN)), evaluated once, with what dead runs left there *)
TmpinListing == tmpDir

ListTmpin(s) ==
    /\ spc[s] = "move" /\ todo[s] = {}
    /\ todo' = [todo EXCEPT ![s] = TmpinListing]
    /\ spc' = [spc EXCEPT ![s] = "next"]
    /\ UNCHANGED <<outDir, out, tmpDir, tmp, mvars, cur, left, zip, offered,
                   archive, expired, atRisk, lock>>

Take(s, f) ==
    /\ spc[s] = "next" /\ f \in todo[s]
    /\ cur' = [cur EXCEPT ![s] = f]
    /\ todo' = [todo EXCEPT ![s] = @ \ {f}]
    /\ left' = [left EXCEPT ![s] = Servers]
    /\ spc' = [spc EXCEPT ![s] = "send"]
    /\ UNCHANGED <<outDir, out, tmpDir, tmp, mvars, zip, offered, archive,
                   expired, atRisk, lock>>

(* A bug: a send is tried again, as if its exit code were looked at. *)
SendAgain(s, v) ==
    /\ spc[s] = "send" /\ v \in left[s]
    /\ offered' = [offered EXCEPT ![v] = @ \cup tmp[cur[s]]]
    /\ left' \in {left, [left EXCEPT ![s] = @ \ {v}]}
    /\ UNCHANGED <<outDir, out, tmpDir, tmp, mvars, spc, todo, cur, zip, archive,
                   expired, atRisk, lock>>

(* zabbix_sender reads the file for one server.  Its exit code is logged and *)
(* decides nothing, so it is left out.                                       *)
Send(s, v) ==
    /\ spc[s] = "send" /\ v \in left[s]
    /\ offered' = [offered EXCEPT ![v] = @ \cup tmp[cur[s]]]
    /\ left' = [left EXCEPT ![s] = @ \ {v}]
    /\ UNCHANGED <<outDir, out, tmpDir, tmp, mvars, spc, todo, cur, zip, archive,
                   expired, atRisk, lock>>

(* A bug: the servers after the first are not waited for. *)
ServedFirst(s) == left[s] # Servers

(* The loop over the servers is through. *)
Served(s) == left[s] = {}

(* zipf.write *)
ZipWrite(s) ==
    /\ spc[s] = "send" /\ Served(s) /\ cur[s] \in tmpDir
    /\ zip' = [zip EXCEPT ![s] = @ \cup tmp[cur[s]]]
    /\ spc' = [spc EXCEPT ![s] = "remove"]
    /\ UNCHANGED <<outDir, out, tmpDir, tmp, mvars, todo, cur, left, offered,
                   archive, expired, atRisk, lock>>

(* os.remove inside the "with": the zip has no central directory yet *)
Remove(s) ==
    /\ spc[s] = "remove" /\ cur[s] \in tmpDir
    /\ tmpDir' = tmpDir \ {cur[s]} /\ tmp' = [tmp EXCEPT ![cur[s]] = {}]
    /\ handle' = [m \in Monitors |->
                    IF OutFile[m] = cur[s] /\ handle[m] = "tmp" THEN "gone"
                    ELSE handle[m]]
    /\ spc' = [spc EXCEPT ![s] = "close"]
    /\ UNCHANGED <<outDir, out, mpc, count, raced, late, todo, cur, left, zip,
                   offered, archive, expired, atRisk, lock>>

(* leaving the "with" writes the central directory *)
Close(s) ==
    /\ spc[s] = "close"
    /\ spc' = [spc EXCEPT ![s] = "next"]
    /\ UNCHANGED <<outDir, out, tmpDir, tmp, mvars, todo, cur, left, zip, offered,
                   archive, expired, atRisk, lock>>

(* Zips older than two days are removed; never the one of this run. *)
Clean(s) ==
    /\ spc[s] = "next" /\ todo[s] = {}
    /\ \E old \in SUBSET archive :
         /\ archive' = archive \ old
         /\ expired' = expired \cup UNION old
    /\ spc' = [spc EXCEPT ![s] = "unlock"]
    /\ UNCHANGED <<outDir, out, tmpDir, tmp, mvars, todo, cur, left, zip, offered,
                   atRisk, lock>>

(* os.remove(LOCK) and exit; the zip is from now on one of an earlier run *)
Unlock(s) ==
    /\ spc[s] = "unlock" /\ lock
    /\ lock' = FALSE
    /\ archive' = IF zip[s] = {} THEN archive ELSE archive \cup {zip[s]}
    /\ zip' = [zip EXCEPT ![s] = {}]
    /\ spc' = [spc EXCEPT ![s] = "off"]
    /\ UNCHANGED <<outDir, out, tmpDir, tmp, mvars, todo, cur, left, offered,
                   expired, atRisk>>

(* The end of a run that does not reach Unlock: the lock stays, and a zip    *)
(* that is not readable is lost, with the members of earlier files in it.    *)
Die(s, readable) ==
    /\ spc' = [spc EXCEPT ![s] = "off"]
    /\ todo' = [todo EXCEPT ![s] = {}] /\ left' = [left EXCEPT ![s] = {}]
    /\ archive' = IF zip[s] = {} \/ ~readable THEN archive
                  ELSE archive \cup {zip[s]}
    /\ zip' = [zip EXCEPT ![s] = {}]
    /\ atRisk' = atRisk \cup zip[s] \cup UNION {tmp[f] : f \in Files}
    /\ UNCHANGED <<outDir, out, tmpDir, tmp, mvars, cur, offered, expired, lock>>

(* A listed name is gone when the run comes to it: an uncaught               *)
(* FileNotFoundError in move, in write, in the two removes.                  *)
Trips(s) ==
    \/ spc[s] = "move" /\ ~(todo[s] \subseteq outDir)
    \/ spc[s] = "send" /\ Served(s) /\ cur[s] \notin tmpDir
    \/ spc[s] = "remove" /\ cur[s] \notin tmpDir
    \/ spc[s] = "unlock" /\ ~lock

(* The "with" closes the zip on the way out of an exception ... *)
Raise(s) == Trips(s) /\ Die(s, TRUE)

(* ... but not when the process is killed, and appending has overwritten the *)
(* central directory by then.                                                *)
ZipOpen(s) == spc[s] \in {"remove", "close"}
Kill(s) == Kills /\ spc[s] # "off" /\ Die(s, ~ZipOpen(s))

(* Somebody removes the lock of a run that is dead (external). *)
OperatorUnlock ==
    /\ lock /\ \A s \in Senders : spc[s] = "off"
    /\ lock' = FALSE
    /\ UNCHANGED <<outDir, out, tmpDir, tmp, mvars, spc, todo, cur, left, zip,
                   offered, archive, expired, atRisk>>

-----------------------------------------------------------------------------
Works(m) == Check(m) \/ Open(m) \/ Write(m)
Runs(s) ==
    \/ Acquire(s) \/ ListTmpin(s) \/ ZipWrite(s) \/ Remove(s) \/ Close(s)
    \/ Clean(s) \/ Unlock(s)
    \/ \E f \in Files : Move(s, f) \/ Take(s, f)
    \/ \E v \in Servers : Send(s, v)

Next ==
    \/ \E m \in Monitors : Works(m) \/ Forget(m)
    \/ \E s \in Senders : Start(s) \/ Runs(s) \/ Raise(s) \/ Kill(s)
    \/ OperatorUnlock

Spec == Init /\ [][Next]_vars

(* cron keeps starting runs and a started run keeps going; nothing obliges a *)
(* monitor to write.                                                         *)
Fairness == \A s \in Senders : WF_vars(Start(s) \/ Runs(s))
FairSpec == Spec /\ Fairness
-----------------------------------------------------------------------------
(* Where a line is now *)
InOut == UNION {out[f] : f \in Files}
InTmp == UNION {tmp[f] : f \in Files}
InZip == UNION {zip[s] : s \in Senders}
Archived == UNION archive
Kept == InOut \cup InTmp \cup InZip \cup Archived \cup expired

Active == {s \in Senders : spc[s] \notin {"off", "lock"}}

(* Each variable stays in the set its use in the two scripts implies. *)
TypeOK ==
    /\ outDir \in SUBSET Files /\ tmpDir \in SUBSET Files
    /\ out \in [Files -> SUBSET Line] /\ tmp \in [Files -> SUBSET Line]
    /\ handle \in [Monitors -> Where]
    /\ mpc \in [Monitors -> {"idle", "create", "append", "write"}]
    /\ count \in [Monitors -> 0..MaxLines]
    /\ raced \in [Monitors -> BOOLEAN]
    /\ late \in SUBSET Line
    /\ lock \in BOOLEAN
    /\ spc \in [Senders -> {"off", "lock", "move", "next", "send", "remove",
                            "close", "unlock"}]
    /\ todo \in [Senders -> SUBSET Files] /\ cur \in [Senders -> Files]
    /\ left \in [Senders -> SUBSET Servers]
    /\ zip \in [Senders -> SUBSET Line]
    /\ offered \in [Servers -> SUBSET Line]
    /\ archive \in SUBSET SUBSET Line
    /\ expired \in SUBSET Line /\ atRisk \in SUBSET Line

(* The lock file keeps the work between its creation (161) and its removal   *)
(* (235) to one run, and is there whenever a run works.                      *)
OneRun ==
    /\ \A s, t \in Active : s = t
    /\ Active # {} => lock

(* No run meets a name it listed earlier but finds gone: the two listings    *)
(* (162, 179) are never stale, so the sender does not die of its own doing.  *)
NeverTrips == \A s \in Senders : ~Trips(s)

(* No line is lost between to_outfile and the end of its archive, except one *)
(* that was written to a file the sender had already taken.                  *)
LineAccounted == Written \ late \subseteq Kept

(* A line can only be late when the collection fell between the exists() of  *)
(* this very call and its write: a monitor does not go on using a file it    *)
(* was robbed of earlier.                                                    *)
LateOnlyIfRaced ==
    \A m \in Monitors : mpc[m] = "write" /\ handle[m] # "out" => raced[m]

(* A line in a zip, or that already left one, was given to zabbix_sender for *)
(* every server, if it was there in time.                                    *)
OfferedBeforeArchived ==
    \A v \in Servers : (InZip \cup Archived \cup expired) \ late \subseteq offered[v]

(* zabbix_sender never gets the same line twice for one server: nothing it   *)
(* is about to read was offered to that server before.                       *)
OfferedOnce ==
    \A s \in Senders : spc[s] = "send" =>
        \A v \in left[s] : tmp[cur[s]] \cap offered[v] = {}

(* A server does not get a line of a monitor without those before it: the    *)
(* collections, sends and overwritten leftovers of all the runs, killed ones *)
(* included, leave no gap but lines that were late or in the hands of a run  *)
(* that died (168-228).                                                      *)
Earlier(l) == {e \in Line : e[1] = l[1] /\ e[2] < l[2]}
InOrder ==
    \A v \in Servers : \A l \in offered[v] :
        Earlier(l) \ (late \cup atRisk) \subseteq offered[v]

(* When runs may die, only lines that were in TMPIN or in the zip of a run   *)
(* that died can be lost, never what is in ZBXDB_OUT or in older zips.       *)
DeathLosesOnlyItsOwn == (Written \ late) \ Kept \subseteq atRisk

(* Once collected is sent (docstring 3-5): a line that was in time is either *)
(* still in a file or was offered to every server.                           *)
(* It does not hold: README, section 5.                                      *)
CollectedIsSent ==
    \A l \in Written \ late :
        l \in InOut \cup InTmp \/ \A v \in Servers : l \in offered[v]

(* The same for every line the monitor wrote, late or not. *)
(* It does not hold: README, section 5.                                      *)
WrittenIsSent ==
    \A l \in Written :
        l \in InOut \cup InTmp \/ \A v \in Servers : l \in offered[v]

(* Every line in ZBXDB_OUT ends up archived, or was in the hands of a run    *)
(* that was killed: cron's runs catch up with all that was left behind, once *)
(* runs are no longer killed and the lock of the last dead one is removed    *)
(* (157: "previous run still running(or crashed").                           *)
EventuallyArchived ==
    <>[][~\E s \in Senders : Kill(s)]_vars /\ []<>~lock =>
        \A l \in Line : l \in InOut ~> l \in Archived \cup expired \cup atRisk

(* The zips of finished runs are closed; those of the running one count as   *)
(* pending until the run is over.                                            *)
D == INSTANCE Delivery WITH
        Line <- Line, Servers <- Servers,
        pending <- (InOut \cup InTmp \cup InZip) \ late,
        late <- late, offered <- offered,
        archived <- Archived \ late,
        expired <- expired \ late

(* The two scripts implement the promise of Delivery. *)
Delivers == D!DSpec
=============================================================================
