------------------------------- MODULE Monitor -------------------------------
(* One zbxdb.py process: main() with its connect loop, connection_loop(),    *)
(* and what changes under it meanwhile: the files it watches are edited,     *)
(* removed, put back; the database goes down, kills the session, changes     *)
(* role.  A file is its modification time, a number; what the process has in *)
(* use is the number it read.                                                *)
EXTENDS Naturals, SequencesExt, DriverErrors

CONSTANTS
    UsedDrivers,    \* values db_driver can have in the cfg
    MaxEdits,       \* bound: edits and removals of files, taken together
    Minutes,        \* "minutes" of the section with queries
    QueryErrors     \* what a query on a living session may fail with

ASSUME UsedDriversAssumption == UsedDrivers \subseteq Drivers
ASSUME MaxEditsAssumption == MaxEdits \in Nat
ASSUME MinutesAssumption == Minutes \in Nat \ {0}
ASSUME QueryErrorsAssumption == QueryErrors \subseteq {"sql", "value"}

(* mod stands for the script and the two modules it loads, chk for the files *)
(* with checks, keys for the keysdir, log for LOG_CONF.                      *)
File == {"mod", "cfg", "keys", "log", "chk"}
Versions == 0..(2 * MaxEdits + 2)

VARIABLES
    ver,        \* modification time of each file, 1 at the start
    there,      \* files that exist
    plain,      \* does the cfg hold a plaintext password
    text,       \* of the checks: "good", "empty" (no sections can be read), "bad"
                \* (minutes that are no number, as after a parse that stopped
                \* half-way) or "short" (a section without minutes)
    edits,      \* edits and removals so far
    dbUp, dbRole,
    driver,
    pc,         \* where the process is
    used,       \* what it has read of each file (0: nothing)
    modOf,      \* the cfg by which it chose its modules
    hasLog,     \* LOG_CONF
    check_files,    \* names, in the order of the list
    sys_files,      \* how many of the list are not checks, by the first count
    lmod,       \* check_files[i]['lmod']
    secs,       \* were sections loaded
    alive,      \* is its database session alive
    role,       \* connect_info['db_role']
    con,        \* con_mins, modulo Minutes
    badPw,      \* was the password decrypted from the text before the rewrite
    err,        \* the exception being handled
    slipped,    \* files edited between the reading and the recording of lmod,
                \* or while they were beyond the first sys_files
    blind       \* rounds with checks, one after another, that reported connect
                \* status 0 on a lost session

files == <<ver, there, plain, text, edits>>
env == <<files, dbUp, dbRole, driver>>
list == <<check_files, sys_files, lmod>>
mem == <<used, modOf, hasLog, secs>>
vars == <<env, pc, mem, list, alive, role, con, badPw, err, slipped, blind>>

Texts == {"good", "empty", "bad", "short"}
NoTimes == [f \in File |-> 0]

Init ==
    /\ ver = [f \in File |-> 1]
    /\ there = File
    /\ plain \in BOOLEAN /\ text = "good" /\ edits = 0
    /\ dbUp \in BOOLEAN /\ dbRole = "primary"
    /\ driver \in UsedDrivers
    /\ pc = "off"
    /\ used = NoTimes /\ modOf = 0 /\ hasLog = FALSE /\ secs = FALSE
    /\ check_files = <<>> /\ sys_files = 0 /\ lmod = NoTimes
    /\ alive = FALSE /\ role = "primary" /\ con = 0
    /\ badPw = FALSE /\ err = "lost"
    /\ slipped = {} /\ blind = 0

Fail(e) == pc' = "handler" /\ err' = e
Session == <<alive, role, con, badPw>>
Ghosts == <<slipped, blind>>

(* Nothing of a session is used after it. *)
SessionOver ==
    /\ alive' = FALSE /\ role' = "primary" /\ con' = 0 /\ badPw' = FALSE
    /\ err' = "lost" /\ blind' = 0

-----------------------------------------------------------------------------
(* Start: main() up to its loop *)

(* The starter runs zbxdb.py for every cfg it sees.                          *)
Start ==
    /\ pc = "off" /\ "cfg" \in there
    /\ pc' = "boot"
    /\ UNCHANGED <<env, mem, list, Session, err, Ghosts>>

(* What get_config makes of the files: a keysdir if there is none, and, if   *)
(* it finds a plain password, a cfg with the encrypted one.                  *)
Configured ==
    [f \in File |-> IF (f = "cfg" /\ plain) \/ (f = "keys" /\ f \notin there)
                    THEN ver[f] + 1 ELSE ver[f]]

(* The script and LOG_CONF are read, then the cfg, then the modules of its   *)
(* db_type.  Without a cfg get_config raises.                                *)
Boot ==
    /\ pc = "boot"
    /\ IF "cfg" \in there
       THEN /\ ver' = Configured /\ there' = there \cup {"keys"} /\ plain' = FALSE
            /\ used' = [Configured EXCEPT !["chk"] = 0] /\ modOf' = Configured["cfg"]
            /\ hasLog' = ("log" \in there) /\ secs' = FALSE
            /\ pc' = "record0"
       ELSE /\ pc' = "off"
            /\ UNCHANGED <<ver, there, plain, mem>>
    /\ slipped' = {} /\ check_files' = <<>> /\ sys_files' = 0 /\ lmod' = NoTimes
    /\ UNCHANGED <<text, edits, dbUp, dbRole, driver, Session, err, blind>>

(* The files of the process itself, and their times now (839-857, 894-909).  *)
OwnFiles ==
    LET named == IF "keys" \in there THEN <<"mod", "cfg", "keys">> ELSE <<"mod", "cfg">>
    IN  IF hasLog THEN Append(named, "log") ELSE named
Listed ==
    /\ check_files' = OwnFiles
    /\ lmod' = [f \in File |-> IF f \in ToSet(OwnFiles) THEN ver[f] ELSE 0]
NoTime == "cfg" \notin there \/ (hasLog /\ "log" \notin there)

(* check_files is built only now, after the modules were read, and counted.  *)
(* A file gone by now raises, outside of every try.                          *)
Record0 ==
    /\ pc = "record0"
    /\ IF NoTime THEN pc' = "off" /\ UNCHANGED list
       ELSE Listed /\ sys_files' = Len(OwnFiles) /\ pc' = "top"
    /\ UNCHANGED <<env, mem, Session, err, Ghosts>>

-----------------------------------------------------------------------------
(* main(): the connect loop *)

SysAt == 1..sys_files
InList == 1..Len(check_files)
Sys == {check_files[i] : i \in SysAt \cap InList}

(* A bug: the time of the cfg is not looked at. *)
ModChanged(f) == f # "cfg" /\ ver[f] # lmod[f]

Changed(f) == ver[f] # lmod[f]

(* os.execv: a new program in the same process *)
Exec == pc' = "boot" /\ SessionOver /\ UNCHANGED <<env, mem, list, slipped>>

Quit == "cfg" \notin there /\ pc' = "off" /\ SessionOver /\ UNCHANGED <<env, mem, list, slipped>>

(* The first sys_files entries are looked at in order (882-891): an index    *)
(* beyond the list raises, os.stat of a file that is gone does too, and a    *)
(* file that changed restarts the program.                                   *)
Stopper(i) ==
    i \in InList => check_files[i] \notin there \/ Changed(check_files[i])

Look(i) ==
    IF i \notin InList THEN Fail("value") /\ UNCHANGED <<env, mem, list, Session, Ghosts>>
    ELSE IF check_files[i] \notin there
    THEN Fail("os") /\ UNCHANGED <<env, mem, list, Session, Ghosts>>
    ELSE Exec

Top ==
    /\ pc = "top"
    /\ \/ Quit
       \/ /\ "cfg" \in there
          /\ \E i \in {j \in SysAt : Stopper(j)} :
                (\A j \in 1..(i - 1) : ~Stopper(j)) /\ Look(i)
       \/ /\ "cfg" \in there /\ {i \in SysAt : Stopper(i)} = {}
          /\ pc' = "record"
          /\ UNCHANGED <<env, mem, list, Session, err, Ghosts>>

(* The list is made again, and not counted (894-909).                        *)
Record ==
    /\ pc = "record"
    /\ IF NoTime THEN Fail("os") /\ UNCHANGED list
       ELSE Listed /\ pc' = "getcfg" /\ UNCHANGED <<sys_files, err>>
    /\ UNCHANGED <<env, mem, Session, Ghosts>>

(* A bug: the cfg read at the start is kept. *)
GetConfigOnce ==
    /\ pc = "getcfg"
    /\ pc' = "connect"
    /\ UNCHANGED <<env, mem, list, Session, err, Ghosts>>

(* get_config and decrypted (911-912).  A plain password is rewritten, but   *)
(* what is decrypted then is the text that was there before: it may or may   *)
(* not still be the password of the database.                                *)
GetConfig ==
    /\ pc = "getcfg"
    /\ IF "cfg" \in there
       THEN /\ used' = [used EXCEPT !["cfg"] = ver["cfg"], !["keys"] = Configured["keys"]]
            /\ ver' = Configured /\ there' = there \cup {"keys"}
            /\ badPw' \in (IF plain THEN BOOLEAN ELSE {FALSE}) /\ plain' = FALSE
            /\ pc' = "connect" /\ err' = err
       ELSE /\ Fail("value")
            /\ UNCHANGED <<used, ver, there, badPw, plain>>
    /\ UNCHANGED <<text, edits, dbUp, dbRole, driver, modOf, hasLog, secs, list,
                   alive, role, con, Ghosts>>

(* What the database would answer; mysql and the like always "primary".      *)
Answer == IF KnowsRole(driver) THEN dbRole ELSE "primary"

(* connect and connection_info *)
Connect ==
    /\ pc = "connect"
    /\ IF dbUp /\ ~badPw
       THEN /\ alive' = TRUE /\ role' = Answer /\ blind' = 0
            /\ pc' = "choose" /\ err' = err
       ELSE /\ Fail("login")
            /\ UNCHANGED <<alive, role, blind>>
    /\ badPw' = FALSE
    /\ UNCHANGED <<env, mem, list, con, slipped>>

(* The checks file for this role is put in the list with time 0 (939-960),   *)
(* and every file of the list must exist (963-967).                          *)
Choose ==
    /\ pc = "choose"
    /\ check_files' = Append(check_files, "chk") /\ lmod' = [lmod EXCEPT !["chk"] = 0]
    /\ IF ToSet(check_files') \subseteq there
       THEN pc' = "loop" /\ con' = 0 /\ err' = err
       ELSE Fail("value") /\ con' = con
    /\ secs' = FALSE
    /\ UNCHANGED <<env, used, modOf, hasLog, sys_files, alive, role, badPw, Ghosts>>

(* A bug: a refused login ends the program. *)
HandlerGivesUp ==
    /\ pc = "handler"
    /\ pc' = IF db_errorcode(driver, err) = Raises \/ err = "login" THEN "off" ELSE "nap"
    /\ SessionOver /\ UNCHANGED <<env, mem, list, slipped>>

(* The except branch: db_errorcode may itself raise, which ends main().      *)
(* Otherwise the status and the uptime are written, and it sleeps.           *)
Handler ==
    /\ pc = "handler"
    /\ pc' = IF db_errorcode(driver, err) = Raises THEN "off" ELSE "nap"
    /\ SessionOver /\ UNCHANGED <<env, mem, list, slipped>>

Nap ==
    /\ pc = "nap"
    /\ pc' = "top"
    /\ UNCHANGED <<env, mem, list, Session, err, Ghosts>>

-----------------------------------------------------------------------------
(* connection_loop() *)

(* A bug: the role found at connect time is believed. *)
RoleKept == role

RoleNow == IF alive THEN Answer ELSE IF RoleHides(driver) THEN "notknown" ELSE role

(* getmtime of a missing file is taken as "not changed" (400-404).  What is  *)
(* beyond the first sys_files entries is read as checks.                     *)
Checks == {check_files[i] : i \in InList \ SysAt}
Restart == \E f \in Sys \cap there : Changed(f)
NeedToLoad == \E f \in Checks \cap there : Changed(f)

Loop ==
    /\ pc = "loop"
    /\ \/ Quit
       \/ /\ "cfg" \in there /\ ~alive /\ RoleFails(driver)
          /\ Fail("lost")
          /\ UNCHANGED <<env, mem, list, Session, Ghosts>>
       \/ /\ "cfg" \in there /\ (alive \/ ~RoleFails(driver)) /\ RoleNow # role
          /\ pc' = "top" /\ SessionOver
          /\ UNCHANGED <<env, mem, list, slipped>>
       \/ /\ "cfg" \in there /\ (alive \/ ~RoleFails(driver)) /\ RoleNow = role
          /\ \/ Restart /\ Exec
             \/ /\ ~Restart /\ NeedToLoad /\ pc' = "load"
                /\ UNCHANGED <<env, mem, list, Session, err, Ghosts>>
             \/ /\ ~Restart /\ ~NeedToLoad
                /\ IF lmod["chk"] = 0 THEN Fail("value")   \* all_checks unbound
                   ELSE pc' = "run" /\ err' = err
                /\ UNCHANGED <<env, mem, list, Session, Ghosts>>

(* Where the minutes of what was read are looked at; and what int() raises   *)
(* for those that are no number, and get() for a section that has none (503).*)
StatPlace(t) ==
    CASE t = "bad" -> "statbad" [] t = "short" -> "statshort" [] OTHER -> "stat"
MinutesError == IF pc = "statbad" THEN "value" ELSE "option"

(* The checks are read (480); a file that cannot be opened or parsed gives   *)
(* none.                                                                     *)
Load ==
    /\ pc = "load"
    /\ used' = [used EXCEPT !["chk"] = IF "chk" \in there THEN ver["chk"] ELSE 0]
    /\ secs' = ("chk" \in there /\ text # "empty")
    /\ slipped' = slipped \ {"chk"}
    /\ pc' = IF "chk" \notin there THEN "stat" ELSE StatPlace(text)
    /\ UNCHANGED <<env, modOf, hasLog, list, Session, err, blind>>

(* A bug: the times of all files of the list are taken. *)
StatAll ==
    /\ pc \in {"stat", "statbad", "statshort"}
    /\ IF Checks \subseteq there
       THEN /\ lmod' = [f \in File |-> IF f \in Sys \cup Checks THEN ver[f] ELSE lmod[f]]
            /\ IF pc = "stat" THEN pc' = "run" /\ err' = err ELSE Fail(MinutesError)
       ELSE lmod' = lmod /\ Fail("os")
    /\ UNCHANGED <<env, mem, check_files, sys_files, Session, Ghosts>>

(* Only then their times are taken (498), and the minutes looked at (503).   *)
Stat ==
    /\ pc \in {"stat", "statbad", "statshort"}
    /\ IF Checks \subseteq there
       THEN /\ lmod' = [f \in File |-> IF f \in Checks THEN ver[f] ELSE lmod[f]]
            /\ IF pc = "stat" THEN pc' = "run" /\ err' = err ELSE Fail(MinutesError)
       ELSE lmod' = lmod /\ Fail("os")
    /\ UNCHANGED <<env, mem, check_files, sys_files, Session, Ghosts>>

Due == con = 0 /\ secs

(* A bug: only the codes decide, the commit does not fail. *)
QueryForgiven(e) ==
    LET code == db_errorcode(driver, e)
    IN  CASE code = Raises -> Fail("value")
          [] code # Raises /\ db_error_needs_new_session(driver, code) -> Fail(e)
          [] OTHER -> pc' = "sleep" /\ err' = err

(* A query fails for one of the reasons: the inner except branch (668-693).  *)
QueryFails(e) ==
    LET code == db_errorcode(driver, e)
    IN  CASE code = Raises -> Fail("value")
          [] code # Raises /\ (~alive \/ db_error_needs_new_session(driver, code)) ->
                Fail(e)         \* raised again, or by the commit that follows
          [] OTHER -> pc' = "sleep" /\ err' = err

(* The sections that are due are run.  A session that was lost is noticed by *)
(* the first query; without a query only the commit can notice it.           *)
Run ==
    /\ pc = "run"
    /\ \/ Due /\ alive /\ pc' = "sleep" /\ err' = err
       \/ Due /\ alive /\ \E e \in QueryErrors : QueryFails(e)
       \/ Due /\ ~alive /\ QueryFails("lost")
       \/ ~Due /\ pc' = "sleep" /\ err' = err
       \/ ~Due /\ ~alive /\ Fail("lost")
    /\ blind' = IF ~secs THEN 0
                ELSE IF pc' = "sleep" /\ ~alive /\ blind < Minutes THEN blind + 1 ELSE blind
    /\ UNCHANGED <<env, mem, list, Session, slipped>>

(* A bug: con_mins is not taken modulo the minutes of the section. *)
SleepCounts ==
    /\ pc = "sleep"
    /\ pc' = "loop" /\ con' = con + 1
    /\ UNCHANGED <<env, mem, list, alive, role, badPw, err, Ghosts>>

(* Status 0 is out, the process waits for the next minute. *)
Sleep ==
    /\ pc = "sleep"
    /\ pc' = "loop" /\ con' = (con + 1) % Minutes
    /\ UNCHANGED <<env, mem, list, alive, role, badPw, err, Ghosts>>

Process ==
    \/ Boot \/ Record0 \/ Top \/ Record \/ GetConfig \/ Connect \/ Choose
    \/ Handler \/ Nap \/ Loop \/ Load \/ Stat \/ Run \/ Sleep

-----------------------------------------------------------------------------
(* What happens around it *)

(* Has the file been read while its time is still to be recorded, or is it   *)
(* not among the entries that are looked at?  (The cfg, for the choice of the*)
(* modules.)                                                                 *)
Window(f) == \/ f \in {"mod", "log"} /\ (f \notin Sys \/ pc = "record")
             \/ f = "cfg" /\ pc \in {"record0", "record"}
             \/ f = "chk" /\ pc \in {"stat", "statbad", "statshort"}

(* An editor saves a file, or puts it back; a key is made or deleted.        *)
Edit(f) ==
    /\ edits < MaxEdits /\ edits' = edits + 1
    /\ ver' = [ver EXCEPT ![f] = @ + 1]
    /\ there' = there \cup {f}
    /\ plain' \in IF f = "cfg" THEN BOOLEAN ELSE {plain}
    /\ text' \in IF f = "chk" THEN Texts ELSE {text}
    /\ slipped' = IF Window(f) THEN slipped \cup {f} ELSE slipped
    /\ UNCHANGED <<dbUp, dbRole, driver, pc, mem, list, Session, err, blind>>

RemoveFile(f) ==
    /\ f \in there /\ f # "mod" /\ edits < MaxEdits /\ edits' = edits + 1
    /\ there' = there \ {f}
    /\ UNCHANGED <<ver, plain, text, dbUp, dbRole, driver, pc, mem, list, Session, err, Ghosts>>

DbChanges ==
    /\ \/ dbUp' = ~dbUp /\ alive' = FALSE /\ dbRole' = dbRole
       \/ dbRole' \in {"primary", "slave"} \ {dbRole} /\ UNCHANGED <<dbUp, alive>>
       \/ alive /\ alive' = FALSE /\ UNCHANGED <<dbUp, dbRole>>
    /\ UNCHANGED <<files, driver, pc, mem, list, role, con, badPw, err, Ghosts>>

Environment == (\E f \in File : Edit(f) \/ RemoveFile(f)) \/ DbChanges

Next == Start \/ Process \/ Environment

Spec == Init /\ [][Next]_vars

(* cron runs the starter every minute, and a process keeps going; nothing is *)
(* asked of editors, of the database or of whoever kills.                    *)
FairSpec == Spec /\ WF_vars(Start) /\ WF_vars(Process)

-----------------------------------------------------------------------------
InLoop == {"loop", "load", "stat", "statbad", "statshort", "run", "sleep"}
Connecting == {"connect", "choose"} \cup InLoop

(* Each variable stays in the set its use in the program implies. *)
TypeOK ==
    /\ {ver, used, lmod} \subseteq [File -> Versions] /\ modOf \in Versions
    /\ {there, slipped} \subseteq SUBSET File /\ edits \in 0..MaxEdits
    /\ {plain, hasLog, secs, dbUp, alive, badPw} \subseteq BOOLEAN
    /\ text \in Texts
    /\ check_files \in Seq(File) /\ Len(check_files) <= 5 /\ sys_files \in 0..4
    /\ {dbRole, role} \subseteq {"primary", "slave"}
    /\ driver \in UsedDrivers
    /\ pc \in {"off", "boot", "record0", "top", "record", "getcfg", "handler", "nap"}
              \cup Connecting
    /\ con \in 0..(Minutes - 1) /\ blind \in 0..Minutes
    /\ err \in Exceptions

(* A session never goes on with an older cfg or older keys, unless the time  *)
(* it recorded differs from that of the file, so that the next look restarts *)
(* the program: the order of 894-911 (times first, then get_config) has no   *)
(* gap, not even when get_config itself rewrites the file, or makes the      *)
(* keysdir.                                                                  *)
ConfigNeverStale ==
    pc \in Connecting =>
        \A f \in {"cfg", "keys"} \cap Sys \cap there : used[f] = ver[f] \/ lmod[f] # ver[f]

SilentlyStale(f) == f \in there /\ used[f] # ver[f] /\ lmod[f] = ver[f]

(* An old module, log configuration or checks are used, or modules of another*)
(* db_type than that of the cfg, without the program ever noticing only when *)
(* the edit fell into the moment between reading and recording (765-847,     *)
(* 883-894, 480-498), or, of the log configuration, when a keysdir made after*)
(* the count had pushed it beyond the entries that are looked at (857, 903). *)
StaleOnlyIfSlipped ==
    /\ pc \in {"top", "getcfg"} \cup Connecting =>
           \A f \in {"mod", "log"} \cap Sys : ~SilentlyStale(f) \/ f \in slipped
    /\ pc \in Connecting =>
           modOf = used["cfg"] \/ "cfg" \in slipped \/ lmod["cfg"] # ver["cfg"]
    /\ pc \in {"run", "sleep", "loop"} => ~SilentlyStale("chk") \/ "chk" \in slipped

(* README.md:17-18 without the exception: changed components are activated.  *)
(* It does not hold: README, section 5.                                      *)
ModulesNotStale ==
    pc \in {"top", "getcfg"} \cup Connecting =>
        ~SilentlyStale("mod") /\ (modOf = used["cfg"] \/ lmod["cfg"] # ver["cfg"])

(* README.md:18, 167: changed checks files are reloaded. *)
(* It does not hold: README, section 5.                                      *)
ChecksNotStale == pc \in {"run", "sleep", "loop"} => ~SilentlyStale("chk")

(* Status 0 is reported on a lost session less than "minutes" times: the     *)
(* section with queries comes round and finds out.  (Without any checks      *)
(* loaded nothing ever would; those rounds are not counted.)                 *)
BlindBounded == blind < Minutes

(* The process only stops when its cfg is gone, its log configuration went  *)
(* while it started, or by an exception that the db_errorcode of its driver  *)
(* cannot handle.                                                            *)
StopsWithCause ==
    [][pc # "off" /\ pc' = "off" =>
           \/ "cfg" \notin there
           \/ pc = "record0" /\ "log" \notin there
           \/ pc = "handler" /\ err \in {e \in Exceptions : db_errorcode(driver, e) = Raises}]_vars

Calm == <>[][~DbChanges]_vars
OwnThere == "keys" \in there /\ (hasLog => "log" \in there)
Whole == {"mod", "cfg", "chk"} \subseteq there /\ OwnThere

(* A database that stays up is monitored for ever again, whatever happened   *)
(* to it and to the files before (README.md:167).  The exceptions: the checks*)
(* cannot be read; they were away when read and back when their time was     *)
(* taken, then nothing ever asks the database; the keysdir was away when the *)
(* list was made (903), then an index is beyond the list for ever (883).     *)
Reconnects ==
    Calm /\ <>[](/\ dbUp /\ Whole /\ text = "good"
                 /\ "chk" \notin slipped /\ sys_files <= Len(check_files))
        => []<>(pc = "sleep" /\ alive)

(* The comment at 403, "ignore the error, maybe temporary due to an update", *)
(* is about any file; get_config makes a keysdir if there is none (262).     *)
(* It does not hold: README, section 5.                                      *)
ReconnectsWithoutKeysdir ==
    Calm /\ <>[](/\ dbUp /\ {"mod", "cfg", "chk", "log"} \subseteq there /\ text = "good"
                 /\ "chk" \notin slipped)
        => []<>(pc = "sleep" /\ alive)

(* A checks file with errors is reported (485, 492), and the loop goes on.   *)
(* It does not hold: README, section 5.                                      *)
BadChecksReported ==
    Calm /\ <>[](dbUp /\ Whole /\ "chk" \notin slipped /\ sys_files <= Len(check_files))
        => []<>(pc = "sleep")

(* The uptime keeps coming as long as there is a cfg, connected or not       *)
(* (comment at 1016-1017).                                                   *)
(* It does not hold: README, section 5.                                      *)
UptimeGoesOn == Calm /\ <>[]("cfg" \in there) => []<>(pc \in {"run", "nap"})

(* For drivers whose db_errorcode takes an exception with one argument it    *)
(* does, whatever else raises in the handler on the way (989): a restart     *)
(* makes a new list, which leads to a round or to an exception they take.    *)
(* The exception is checks that lack minutes, when db_errorcode raises on    *)
(* what that gives (503): then every start ends there.                       *)
MinutesMissing == "chk" \in there /\ text = "short"
UptimeIfHandled ==
    Calm /\ <>[](/\ "cfg" \in there /\ db_errorcode(driver, "value") # Raises
                 /\ MinutesMissing => db_errorcode(driver, "option") # Raises)
        => []<>(pc \in {"run", "nap"})

(* Edits are taken over in the end: of a module unless it slipped in; of the *)
(* cfg unless it slipped in and a file of the list is away, at which every   *)
(* look fails; of the log configuration unless it slipped in, and of the keys*)
(* if they are among the first sys_files, while neither is away.             *)
EditsTaken ==
    /\ []<>("cfg" \notin there \/ used["cfg"] = ver["cfg"] \/ ("cfg" \in slipped /\ ~OwnThere))
    /\ []<>("cfg" \notin there \/ used["mod"] = ver["mod"] \/ "mod" \in slipped)
    /\ \A f \in {"keys", "log"} :
           []<>("cfg" \notin there \/ ~OwnThere \/ used[f] = ver[f]
                \/ f \in slipped \/ (f = "keys" /\ sys_files > 0 /\ f \notin Sys))

(* A change of role ends in a connection under the new role. *)
RoleFollowed == Calm /\ <>[](dbUp /\ Whole) => <>[](pc = "run" => role = Answer)
=============================================================================
