---------------------------- MODULE MonitorProof ----------------------------
(* What one zbxdb.py can miss of the files it watches, for any number of     *)
(* edits, any drivers and any interval of the queries.                       *)
EXTENDS Monitor, TLAPS

Before == {"off", "boot", "record0"}

(* The variables the parts below speak of keep their types, counters without *)
(* their bounds.                                                             *)
Types ==
    /\ ver \in [File -> Nat \ {0}] /\ used \in [File -> Nat] /\ lmod \in [File -> Nat]
    /\ modOf \in Nat /\ there \in SUBSET File /\ slipped \in SUBSET File
    /\ check_files \in Seq(File) /\ sys_files \in Nat

(* Nothing read or recorded is newer than the file.                          *)
Past == \A f \in File : used[f] <= ver[f] /\ lmod[f] <= ver[f]

(* The list has no name twice, begins with the script and the cfg once it is *)
(* made, and has checks only while there is a connection or after it.        *)
Once == \A i, j \in InList : check_files[i] = check_files[j] => i = j
Shape ==
    /\ Once
    /\ pc = "record0" => check_files = <<>>
    /\ pc \notin Before => /\ sys_files >= 2 /\ Len(check_files) >= 2
                           /\ check_files[1] = "mod" /\ check_files[2] = "cfg"
    /\ pc \in {"getcfg", "connect", "choose"} => \A i \in InList : check_files[i] # "chk"
    /\ pc \in InLoop => \E i \in InList : check_files[i] = "chk"

(* What of the modules and the log configuration is in use is what was there *)
(* at the recorded time; or, of a file that is not looked at, what is there. *)
Read(f) ==
    f \in slipped \/ /\ f \in Sys => used[f] = lmod[f]
                     /\ f \notin Sys \/ pc = "record" => used[f] = ver[f]
ModulesRead == pc \notin {"off", "boot"} => Read("mod") /\ Read("log")

(* The same for the cfg by which the modules were chosen. *)
ModulesChosen ==
    \/ pc \in {"off", "boot"} \/ "cfg" \in slipped
    \/ /\ pc # "record0" => modOf = lmod["cfg"]
       /\ pc \in {"record0", "record"} => modOf = ver["cfg"]

(* ConfigNeverStale, whether or not the file is there at the moment.         *)
ConfigRead ==
    pc \in Connecting =>
        \A f \in {"cfg", "keys"} \cap Sys : used[f] = ver[f] \/ lmod[f] # ver[f]

(* Checks have no time until they were read; one that counts as a file of    *)
(* the program never gets one.                                               *)
ChecksRead ==
    /\ pc \in InLoop /\ "chk" \in Sys => lmod["chk"] = 0
    /\ pc \in {"loop", "load", "run", "sleep"} =>
           lmod["chk"] = 0 \/ used["chk"] = lmod["chk"] \/ "chk" \in slipped
    /\ pc \in {"stat", "statbad", "statshort"} =>
           "chk" \notin there \/ used["chk"] = ver["chk"] \/ "chk" \in slipped

(* Rounds on a lost session since the section with queries was last due.     *)
BlindRounds ==
    /\ con \in 0..(Minutes - 1) /\ blind \in 0..(Minutes - 1) /\ (alive => blind = 0)
    /\ pc \in {"loop", "load", "stat", "statbad", "statshort", "run"} => blind = 0 \/ con = 0 \/ blind < con
    /\ pc = "sleep" => blind <= con

MInv ==
    /\ Types /\ Past /\ Shape /\ ModulesRead /\ ModulesChosen /\ ConfigRead
    /\ ChecksRead /\ BlindRounds /\ err \in Exceptions
-----------------------------------------------------------------------------
(* The list *)

(* What the proofs use of the list of a program's own files.                 *)
LEMMA OwnListed ==
    /\ OwnFiles \in Seq(File) /\ Len(OwnFiles) \in 2..4
    /\ OwnFiles[1] = "mod" /\ OwnFiles[2] = "cfg"
    /\ \A i \in 1..Len(OwnFiles) : OwnFiles[i] # "chk" /\ OwnFiles[i] \in ToSet(OwnFiles)
    /\ \A i, j \in 1..Len(OwnFiles) : OwnFiles[i] = OwnFiles[j] => i = j
<1> DEFINE named == IF "keys" \in there THEN <<"mod", "cfg", "keys">> ELSE <<"mod", "cfg">>
<1>1. /\ named \in Seq(File) /\ Len(named) \in {2, 3} /\ named[1] = "mod" /\ named[2] = "cfg"
      /\ Len(named) = 3 => named[3] = "keys"
  <2>1. CASE "keys" \in there
    <3>1. named = <<"mod", "cfg", "keys">>
      BY <2>1
    <3> HIDE DEF named
    <3> QED
      BY <3>1 DEF File
  <2>2. CASE "keys" \notin there
    <3>1. named = <<"mod", "cfg">>
      BY <2>2
    <3> QED
      BY <3>1 DEF File
  <2> QED
    BY <2>1, <2>2
<1> HIDE DEF named
<1>2. /\ Append(named, "log") \in Seq(File) /\ Len(Append(named, "log")) = Len(named) + 1
      /\ \A i \in 1..Len(named) : Append(named, "log")[i] = named[i]
      /\ Append(named, "log")[Len(named) + 1] = "log"
  BY <1>1 DEF File
<1>3. OwnFiles = IF hasLog THEN Append(named, "log") ELSE named
  BY DEF OwnFiles, named
<1>4. OwnFiles \in Seq(File) /\ DOMAIN OwnFiles = 1..Len(OwnFiles)
  BY <1>1, <1>2, <1>3
<1>5. CASE hasLog
  BY <1>1, <1>2, <1>3, <1>4, <1>5 DEF ToSet
<1>6. CASE ~hasLog
  BY <1>1, <1>3, <1>4, <1>6 DEF ToSet
<1> QED
  BY <1>5, <1>6

(* The checks are put at the end: the entries before stay where they are.    *)
LEMMA Appended ==
    ASSUME check_files \in Seq(File), check_files' = Append(check_files, "chk"),
           Once, \A i \in InList : check_files[i] # "chk"
    PROVE  /\ check_files' \in Seq(File) /\ Len(check_files') = Len(check_files) + 1
           /\ \A i \in InList : check_files'[i] = check_files[i]
           /\ check_files'[Len(check_files')] = "chk" /\ Once'
<1>1. /\ check_files' \in Seq(File) /\ Len(check_files') = Len(check_files) + 1
      /\ \A i \in InList : check_files'[i] = check_files[i]
      /\ check_files'[Len(check_files')] = "chk"
  BY DEF InList, File
<1>2. ASSUME NEW i \in InList', NEW j \in InList', check_files'[i] = check_files'[j]
      PROVE  i = j
  BY <1>1, <1>2 DEF InList, Once
<1> QED
  BY <1>1, <1>2 DEF Once
-----------------------------------------------------------------------------
(* Which steps matter *)

(* The other steps: they leave files, list and what was read of them alone.  *)
QuietStep ==
    /\ UNCHANGED <<ver, there, used, modOf, hasLog, check_files, sys_files, lmod, slipped>>
    /\ \/ pc' = pc
       \/ pc' \in {"off", "boot"}
       \/ pc \notin Before /\ pc' \in {"handler", "nap", "top"}
       \/ pc = "top" /\ pc' = "record" /\ \A i \in SysAt : ~Stopper(i)
       \/ pc = "connect" /\ pc' = "choose"
       \/ pc \in {"loop", "run", "sleep"} /\ pc' \in {"loop", "load", "run", "sleep"}

QuietAction ==
    Start \/ Top \/ Connect \/ Handler \/ Nap \/ Loop \/ Run \/ Sleep \/ DbChanges
        \/ UNCHANGED vars

LEMMA Quiet == QuietAction => QuietStep
<1> USE DEF QuietStep, env, files, mem, list, Ghosts, Session, Before
<1>1. CASE Start
  BY <1>1 DEF Start
<1>2. CASE Top
  <2>1. CASE Quit
    BY <1>2, <2>1 DEF Quit
  <2>2. ASSUME NEW i \in SysAt, Look(i) PROVE QuietStep
    BY <1>2, <2>2 DEF Top, Look, Fail, Exec
  <2>3. CASE {i \in SysAt : Stopper(i)} = {} /\ pc' = "record"
             /\ UNCHANGED <<env, mem, list, Session, err, Ghosts>>
    BY <1>2, <2>3 DEF Top
  <2> QED
    BY <1>2, <2>1, <2>2, <2>3 DEF Top
<1>3. CASE Connect
  BY <1>3 DEF Connect, Fail
<1>4. CASE Handler
  BY <1>4 DEF Handler
<1>5. CASE Nap
  BY <1>5 DEF Nap
<1>6. CASE Loop
  BY <1>6 DEF Loop, Quit, Exec, Fail
<1>7. CASE Run
  <2>1. pc = "run" /\ UNCHANGED <<env, mem, list, Session, slipped>>
    BY <1>7 DEF Run
  <2>2. pc' \in {"sleep", "handler"}
    <3>1. ASSUME NEW e, QueryFails(e) PROVE pc' \in {"sleep", "handler"}
      BY <3>1 DEF QueryFails, Fail
    <3> QED
      BY <1>7, <3>1 DEF Run, Fail
  <2> QED
    BY <2>1, <2>2
<1>8. CASE Sleep
  BY <1>8 DEF Sleep
<1>9. CASE DbChanges
  BY <1>9 DEF DbChanges
<1>10. CASE UNCHANGED vars
  BY <1>10 DEF vars
<1> QED
  BY <1>1, <1>2, <1>3, <1>4, <1>5, <1>6, <1>7, <1>8, <1>9, <1>10 DEF QuietAction

(* Every step is one of these or one of the nine that matter.                *)
LEMMA Steps ==
    [Next]_vars =>
        \/ QuietAction \/ Boot \/ Record0 \/ Record \/ GetConfig \/ Choose \/ Load \/ Stat
        \/ \E f \in File : Edit(f) \/ RemoveFile(f)
BY DEF Next, Process, Environment, QuietAction

(* The script and the cfg are always among the files that are looked at, and *)
(* nothing is both looked at and read as checks.                             *)
LEMMA LookedAt ==
    ASSUME Types, Shape
    PROVE  /\ pc \notin Before => "mod" \in Sys /\ "cfg" \in Sys
           /\ Sys \cap Checks = {}
<1>1. ASSUME pc \notin Before PROVE "mod" \in Sys /\ "cfg" \in Sys
  BY <1>1 DEF Types, Shape, Sys, SysAt, InList
<1>2. ASSUME NEW f \in Sys, f \in Checks PROVE FALSE
  BY <1>2 DEF Shape, Once, Sys, Checks
<1> QED
  BY <1>1, <1>2

(* A checks file at the end of the list changes nothing for the others.      *)
LEMMA SysAfterChoose ==
    ASSUME Types, Shape, Choose
    PROVE  \A f \in File \ {"chk"} : f \in Sys' <=> f \in Sys
<1>1. /\ Len(check_files') = Len(check_files) + 1 /\ sys_files' = sys_files
      /\ \A i \in InList : check_files'[i] = check_files[i]
      /\ check_files'[Len(check_files')] = "chk"
  BY Appended DEF Choose, Types, Shape
<1>2. InList' = InList \cup {Len(check_files')} /\ SysAt' = SysAt
  BY <1>1 DEF Types, InList, SysAt
<1>3. ASSUME NEW f \in Sys PROVE f \in Sys'
  <2>1. PICK i \in SysAt \cap InList : check_files[i] = f
    BY DEF Sys
  <2>2. i \in SysAt' \cap InList' /\ check_files'[i] = f
    BY <1>1, <1>2, <2>1
  <2> QED
    BY <2>2 DEF Sys
<1>4. ASSUME NEW f \in Sys', f # "chk" PROVE f \in Sys
  <2>1. PICK i \in SysAt' \cap InList' : check_files'[i] = f
    BY <1>4 DEF Sys
  <2>2. i \in SysAt \cap InList /\ check_files[i] = f
    BY <1>1, <1>2, <1>4, <2>1
  <2> QED
    BY <2>2 DEF Sys
<1> QED
  BY <1>3, <1>4
-----------------------------------------------------------------------------
(* Each part of the invariant is kept *)

(* Initially nothing was read. *)
LEMMA MInvInit == Init => MInv
<1> SUFFICES ASSUME Init PROVE MInv
  OBVIOUS
<1>1. /\ ver = [f \in File |-> 1] /\ used = [f \in File |-> 0] /\ lmod = [f \in File |-> 0]
      /\ there = File /\ pc = "off" /\ modOf = 0 /\ check_files = <<>> /\ sys_files = 0
      /\ con = 0 /\ err = "lost" /\ slipped = {} /\ blind = 0
  BY DEF Init, NoTimes
<1>2. Types /\ Past
  BY <1>1 DEF Types, Past
<1>3. Shape
  BY <1>1 DEF Shape, Once, Before, InLoop, InList
<1>4. ModulesRead /\ ModulesChosen /\ ConfigRead /\ ChecksRead
  BY <1>1 DEF ModulesRead, ModulesChosen, ConfigRead, ChecksRead, Connecting, InLoop
<1>5. BlindRounds /\ err \in Exceptions
  BY <1>1, MinutesAssumption DEF BlindRounds, Exceptions, Own
<1> QED
  BY <1>2, <1>3, <1>4, <1>5 DEF MInv

(* The list is made of the process's own files, at their times now.          *)
LEMMA ListedTypes ==
    ASSUME Types, Past, Listed
    PROVE  /\ check_files' \in Seq(File) /\ lmod' \in [File -> Nat]
           /\ \A f \in File : lmod'[f] <= ver[f]
           /\ \A i \in InList' : lmod'[check_files'[i]] = ver[check_files'[i]]
<1>1. check_files' = OwnFiles /\ check_files' \in Seq(File)
  BY OwnListed DEF Listed
<1>2. \A f \in File : ver[f] \in Nat /\ 0 <= ver[f]
  BY DEF Types
<1>3. /\ lmod' \in [File -> Nat]
      /\ \A f \in File : lmod'[f] = IF f \in ToSet(OwnFiles) THEN ver[f] ELSE 0
  BY <1>2 DEF Listed
<1>4. \A i \in InList' : check_files'[i] \in File /\ check_files'[i] \in ToSet(OwnFiles)
  BY <1>1, OwnListed DEF InList
<1> QED
  BY <1>1, <1>2, <1>3, <1>4

(* What get_config leaves of the files. *)
LEMMA ConfiguredTypes ==
    ASSUME Types
    PROVE  /\ Configured \in [File -> Nat \ {0}]
           /\ \A f \in File : ver[f] <= Configured[f]
           /\ \A f \in File \ {"cfg", "keys"} : Configured[f] = ver[f]
           /\ Configured["cfg"] = IF plain THEN ver["cfg"] + 1 ELSE ver["cfg"]
           /\ \A f \in File : f \in there /\ f # "cfg" => Configured[f] = ver[f]
<1>1. \A f \in File : ver[f] \in Nat \ {0} /\ ver[f] + 1 \in Nat \ {0}
  BY DEF Types
<1>2. Configured \in [File -> Nat \ {0}]
  BY <1>1 DEF Configured
<1> QED
  BY <1>1, <1>2 DEF Configured, File

(* Types and Past *)
LEMMA TypesStep == Types /\ Past /\ Shape /\ [Next]_vars => Types' /\ Past'
<1> SUFFICES ASSUME Types, Past, Shape, [Next]_vars PROVE Types' /\ Past'
  OBVIOUS
<1>0. /\ \A f \in File : /\ ver[f] \in Nat \ {0} /\ used[f] \in Nat /\ lmod[f] \in Nat
                         /\ used[f] <= ver[f] /\ lmod[f] <= ver[f]
      /\ "cfg" \in File /\ "keys" \in File /\ "chk" \in File
  BY DEF Types, Past, File
<1>1. CASE QuietAction
  BY <1>1, Quiet DEF QuietStep, Types, Past
<1>2. CASE Boot
  <2>1. /\ slipped' = {} /\ check_files' = <<>> /\ sys_files' = 0
        /\ lmod' = [f \in File |-> 0]
    BY <1>2 DEF Boot, NoTimes
  <2>2. CASE "cfg" \in there
    <3>1. /\ ver' = Configured /\ there' = there \cup {"keys"} /\ modOf' = Configured["cfg"]
          /\ used' = [Configured EXCEPT !["chk"] = 0]
      BY <1>2, <2>2 DEF Boot
    <3>2. \A f \in File : Configured[f] \in Nat \ {0}
      BY ConfiguredTypes
    <3>3. ver' \in [File -> Nat \ {0}] /\ used' \in [File -> Nat]
      BY <3>1, <3>2, ConfiguredTypes
    <3>4. \A f \in File : used'[f] <= ver'[f] /\ lmod'[f] <= ver'[f]
      BY <2>1, <3>1, <3>2, ConfiguredTypes
    <3> QED
      BY <1>0, <2>1, <3>1, <3>2, <3>3, <3>4 DEF Types, Past
  <2>3. CASE "cfg" \notin there
    <3>1. UNCHANGED <<ver, there, used, modOf>>
      BY <1>2, <2>3 DEF Boot, mem
    <3> QED
      BY <1>0, <2>1, <3>1 DEF Types, Past
  <2> QED
    BY <2>2, <2>3
<1>3. CASE Record0 \/ Record
  <2>1. UNCHANGED <<ver, there, used, modOf, slipped>>
    BY <1>3 DEF Record0, Record, env, files, mem, Ghosts
  <2>2. CASE Listed
    <3>1. sys_files' \in Nat
      BY <1>3, OwnListed DEF Record0, Record, Types, list, Fail
    <3> QED
      BY <2>1, <2>2, <3>1, ListedTypes DEF Types, Past
  <2>3. CASE UNCHANGED list
    BY <2>1, <2>3 DEF list, Types, Past
  <2> QED
    BY <1>3, <2>2, <2>3 DEF Record0, Record
<1>5. CASE GetConfig
  <2>1. UNCHANGED <<modOf, check_files, sys_files, lmod, slipped>>
    BY <1>5 DEF GetConfig, list, Ghosts
  <2>2. CASE "cfg" \in there
    <3>1. /\ used' = [used EXCEPT !["cfg"] = ver["cfg"], !["keys"] = Configured["keys"]]
          /\ ver' = Configured /\ there' = there \cup {"keys"}
      BY <1>5, <2>2 DEF GetConfig
    <3>2. /\ used' \in [File -> Nat]
          /\ \A f \in File : used'[f] \in {used[f], ver[f], Configured[f]}
      BY <1>0, <3>1, ConfiguredTypes DEF Types
    <3>3. \A f \in File : used'[f] <= ver'[f] /\ lmod'[f] <= ver'[f]
      BY <1>0, <2>1, <3>1, <3>2, ConfiguredTypes
    <3> QED
      BY <1>0, <2>1, <3>1, <3>2, <3>3, ConfiguredTypes DEF Types, Past
  <2>3. CASE "cfg" \notin there
    <3>1. UNCHANGED <<ver, there, used>>
      BY <1>5, <2>3 DEF GetConfig
    <3> QED
      BY <2>1, <3>1 DEF Types, Past
  <2> QED
    BY <2>2, <2>3
<1>6. CASE Choose
  <2>1. /\ pc = "choose" /\ check_files' = Append(check_files, "chk")
        /\ lmod' = [lmod EXCEPT !["chk"] = 0]
        /\ UNCHANGED <<ver, there, used, modOf, sys_files, slipped>>
    BY <1>6 DEF Choose, env, files, Ghosts
  <2>2. check_files' \in Seq(File)
    BY <2>1, Appended DEF Types, Shape
  <2>3. lmod' \in [File -> Nat] /\ \A f \in File : lmod'[f] \in {lmod[f], 0}
    BY <2>1 DEF Types
  <2> QED
    BY <1>0, <2>1, <2>2, <2>3 DEF Types, Past
<1>7. CASE Load
  <2>1. /\ used' = [used EXCEPT !["chk"] = IF "chk" \in there THEN ver["chk"] ELSE 0]
        /\ slipped' = slipped \ {"chk"}
        /\ UNCHANGED <<ver, there, modOf, check_files, sys_files, lmod>>
    BY <1>7 DEF Load, StatPlace, env, files, list
  <2>2. used' \in [File -> Nat] /\ \A f \in File : used'[f] \in {used[f], ver[f], 0}
    BY <1>0, <2>1 DEF Types
  <2> QED
    BY <1>0, <2>1, <2>2 DEF Types, Past
<1>8. CASE Stat
  <2>1. UNCHANGED <<ver, there, used, modOf, check_files, sys_files, slipped>>
    BY <1>8 DEF Stat, env, files, mem, Ghosts
  <2>2. lmod' \in [File -> Nat] /\ \A f \in File : lmod'[f] \in {lmod[f], ver[f]}
    <3>1. CASE Checks \subseteq there
      <4>1. lmod' = [f \in File |-> IF f \in Checks THEN ver[f] ELSE lmod[f]]
        BY <1>8, <3>1 DEF Stat
      <4> QED
        BY <1>0, <4>1
    <3>2. CASE ~(Checks \subseteq there)
      BY <1>8, <3>2 DEF Stat, Types
    <3> QED
      BY <3>1, <3>2
  <2>3. \A f \in File : used'[f] <= ver'[f] /\ lmod'[f] <= ver'[f]
    BY <1>0, <2>1, <2>2
  <2> QED
    BY <2>1, <2>2, <2>3 DEF Types, Past
<1>9. ASSUME NEW f \in File, Edit(f) PROVE Types' /\ Past'
  <2>1. /\ ver' = [ver EXCEPT ![f] = @ + 1] /\ there' = there \cup {f}
        /\ slipped' \in {slipped, slipped \cup {f}}
        /\ UNCHANGED <<used, modOf, check_files, sys_files, lmod>>
    BY <1>9 DEF Edit, mem, list
  <2>2. ver' \in [File -> Nat \ {0}] /\ \A g \in File : ver[g] <= ver'[g]
    BY <1>0, <2>1 DEF Types
  <2>3. Past'
    BY <1>0, <2>1, <2>2 DEF Past, Types
  <2> QED
    BY <2>1, <2>2, <2>3 DEF Types
<1>10. ASSUME NEW f \in File, RemoveFile(f) PROVE Types' /\ Past'
  BY <1>10 DEF RemoveFile, Ghosts, mem, list, Types, Past
<1> QED
  BY <1>1, <1>2, <1>3, <1>5, <1>6, <1>7, <1>8, <1>9, <1>10, Steps

(* Shape *)
LEMMA ShapeStep == Types /\ Shape /\ [Next]_vars => Shape'
<1> SUFFICES ASSUME Types, Shape, [Next]_vars PROVE Shape'
  OBVIOUS
<1> USE DEF Before, InLoop, list
<1>1. CASE QuietAction
  BY <1>1, Quiet DEF QuietStep, Shape, Once, InList
<1>2. CASE Boot
  BY <1>2 DEF Boot, Shape, Once, InList
<1>3. CASE Listed /\ pc' \in {"top", "getcfg"} /\ sys_files' >= 2
  <2>1. check_files' = OwnFiles /\ InList' = 1..Len(OwnFiles)
    BY <1>3 DEF Listed, InList
  <2>2. Once' /\ \A i \in InList' : check_files'[i] # "chk"
    BY <2>1, OwnListed DEF Once
  <2> QED
    BY <1>3, <2>1, <2>2, OwnListed DEF Shape
<1>4. CASE Record0 \/ Record
  <2>1. CASE NoTime
    <3>1. /\ UNCHANGED <<check_files, sys_files>>
          /\ pc' = "off" \/ (pc = "record" /\ pc' = "handler")
      BY <1>4, <2>1 DEF Record0, Record, Fail
    <3> QED
      BY <3>1 DEF Shape, Once, InList
  <2>2. CASE ~NoTime
    <3>1. /\ Listed
          /\ \/ pc' = "top" /\ sys_files' = Len(OwnFiles)
             \/ pc = "record" /\ pc' = "getcfg" /\ sys_files' = sys_files
      BY <1>4, <2>2 DEF Record0, Record
    <3>2. pc' \in {"top", "getcfg"} /\ sys_files' >= 2
      BY <3>1, OwnListed DEF Shape
    <3> QED
      BY <1>3, <3>1, <3>2
  <2> QED
    BY <2>1, <2>2
<1>5. CASE GetConfig
  <2>1. /\ UNCHANGED <<check_files, sys_files>>
        /\ pc = "getcfg" /\ pc' \in {"connect", "handler"}
    BY <1>5 DEF GetConfig, Fail
  <2> QED
    BY <2>1 DEF Shape, Once, InList
<1>6. CASE Choose
  <2>1. /\ pc = "choose" /\ check_files' = Append(check_files, "chk")
        /\ pc' \in {"loop", "handler"} /\ sys_files' = sys_files
    BY <1>6 DEF Choose, Fail
  <2>2. /\ Once' /\ Len(check_files') = Len(check_files) + 1
        /\ \A i \in InList : check_files'[i] = check_files[i]
        /\ check_files'[Len(check_files')] = "chk"
    BY <2>1, Appended DEF Types, Shape
  <2>3. /\ Len(check_files) \in Nat /\ Len(check_files) >= 2 /\ sys_files >= 2
        /\ check_files[1] = "mod" /\ check_files[2] = "cfg"
    BY <2>1 DEF Types, Shape
  <2>4. Len(check_files') \in InList' /\ 1 \in InList /\ 2 \in InList
    BY <2>2, <2>3 DEF InList
  <2>5. \E i \in InList' : check_files'[i] = "chk"
    BY <2>2, <2>4
  <2> QED
    BY <2>1, <2>2, <2>3, <2>4, <2>5 DEF Shape
<1>7. CASE Load \/ Stat
  <2>1. /\ UNCHANGED <<check_files, sys_files>>
        /\ pc \in {"load", "stat", "statbad", "statshort"} /\ pc' \in {"stat", "statbad", "statshort", "run", "handler"}
    BY <1>7 DEF Load, StatPlace, Stat, Fail
  <2> QED
    BY <2>1 DEF Shape, Once, InList
<1>8. ASSUME NEW f \in File, Edit(f) \/ RemoveFile(f) PROVE Shape'
  BY <1>8 DEF Edit, RemoveFile, Shape, Once, InList
<1> QED
  BY <1>1, <1>2, <1>4, <1>5, <1>6, <1>7, <1>8, Steps

(* After a step that leaves the list alone, the same files are looked at.    *)
LEMMA SameList ==
    ASSUME UNCHANGED <<check_files, sys_files>>
    PROVE  Sys' = Sys /\ Checks' = Checks
BY DEF Sys, Checks, SysAt, InList

(* ModulesRead *)
LEMMA ModulesReadStep ==
    Types /\ Shape /\ ModulesRead /\ [Next]_vars => ModulesRead'
<1> SUFFICES ASSUME Types, Shape, ModulesRead, [Next]_vars, NEW f \in {"mod", "log"},
                    pc' \notin {"off", "boot"}
             PROVE  Read(f)'
  BY DEF ModulesRead
<1>0. f \in File /\ f # "chk" /\ f # "cfg" /\ f # "keys"
  BY DEF File
<1>1. pc \notin {"off", "boot"} => Read(f)
  BY DEF ModulesRead
<1>2. CASE QuietAction
  <2>1. /\ UNCHANGED <<ver, used, check_files, sys_files, lmod, slipped>>
        /\ \/ pc' = pc
           \/ pc # "boot" /\ pc # "off" /\ pc' # "record"
           \/ pc = "top" /\ \A i \in SysAt : ~Stopper(i)
    BY <1>2, Quiet DEF QuietStep, Before
  <2>2. Sys' = Sys
    BY <2>1, SameList
  <2>3. CASE pc = "top" /\ \A i \in SysAt : ~Stopper(i)
    <3>1. f \in Sys => lmod[f] = ver[f]
      BY <2>3 DEF Sys, Stopper, Changed
    <3> QED
      BY <1>1, <2>1, <2>2, <2>3, <3>1 DEF Read
  <2> QED
    BY <1>1, <2>1, <2>2, <2>3 DEF Read
<1>3. CASE Boot
  <2>1. /\ check_files' = <<>> /\ "cfg" \in there /\ ver' = Configured
        /\ used' = [Configured EXCEPT !["chk"] = 0]
    BY <1>3 DEF Boot
  <2>2. f \notin Sys' /\ used'[f] = ver'[f]
    BY <1>0, <2>1, ConfiguredTypes DEF Sys, InList
  <2> QED
    BY <2>2 DEF Read
<1>4. CASE Record0 \/ Record
  <2>1. /\ UNCHANGED <<ver, used, slipped>> /\ pc \in {"record0", "record"} /\ pc' # "record"
        /\ Listed \/ (pc = "record" /\ UNCHANGED list)
    BY <1>4 DEF Record0, Record, env, files, mem, Ghosts, Fail
  <2>2. f \in slipped \/ used[f] = ver[f]
    <3>1. pc = "record0" => f \notin Sys
      BY DEF Shape, Sys, InList
    <3> QED
      BY <1>1, <2>1, <3>1 DEF Read
  <2>3. CASE Listed
    <3>1. f \in Sys' => lmod'[f] = ver[f]
      BY <1>0, <2>3, OwnListed DEF Listed, Sys, InList
    <3> QED
      BY <2>1, <2>2, <3>1 DEF Read
  <2>4. CASE pc = "record" /\ UNCHANGED list
    <3>1. Sys' = Sys
      BY <2>4, SameList DEF list
    <3> QED
      BY <1>1, <2>1, <2>4, <3>1 DEF Read, list
  <2> QED
    BY <2>1, <2>3, <2>4
<1>5. CASE GetConfig
  <2>1. /\ UNCHANGED <<check_files, sys_files, lmod, slipped>>
        /\ pc = "getcfg" /\ pc' # "record"
        /\ \/ UNCHANGED <<ver, used>>
           \/ /\ ver' = Configured
              /\ used' = [used EXCEPT !["cfg"] = ver["cfg"], !["keys"] = Configured["keys"]]
    BY <1>5 DEF GetConfig, list, Ghosts, Fail
  <2>2. ver'[f] = ver[f] /\ used'[f] = used[f]
    BY <1>0, <2>1, ConfiguredTypes DEF Types
  <2>3. Sys' = Sys
    BY <2>1, SameList
  <2> QED
    BY <1>1, <2>1, <2>2, <2>3 DEF Read
<1>6. CASE Choose
  <2>1. /\ UNCHANGED <<ver, used, slipped>> /\ lmod' = [lmod EXCEPT !["chk"] = 0]
        /\ pc = "choose" /\ pc' # "record"
    BY <1>6 DEF Choose, env, files, Ghosts, Fail
  <2>2. f \in Sys' <=> f \in Sys
    BY <1>0, <1>6, SysAfterChoose
  <2>3. lmod'[f] = lmod[f]
    BY <1>0, <2>1 DEF Types
  <2> QED
    BY <1>1, <2>1, <2>2, <2>3 DEF Read
<1>7. CASE Load
  <2>1. /\ used' = [used EXCEPT !["chk"] = IF "chk" \in there THEN ver["chk"] ELSE 0]
        /\ slipped' = slipped \ {"chk"} /\ pc = "load" /\ pc' # "record"
        /\ UNCHANGED <<ver, check_files, sys_files, lmod>>
    BY <1>7 DEF Load, StatPlace, env, files, list
  <2>2. used'[f] = used[f] /\ (f \in slipped => f \in slipped')
    BY <1>0, <2>1 DEF Types
  <2>3. Sys' = Sys
    BY <2>1, SameList
  <2> QED
    BY <1>1, <2>1, <2>2, <2>3 DEF Read
<1>8. CASE Stat
  <2>1. /\ UNCHANGED <<ver, used, check_files, sys_files, slipped>>
        /\ pc \in {"stat", "statbad", "statshort"} /\ pc' # "record"
        /\ \/ lmod' = [g \in File |-> IF g \in Checks THEN ver[g] ELSE lmod[g]]
           \/ lmod' = lmod
    BY <1>8 DEF Stat, env, files, mem, Ghosts, Fail
  <2>2. f \in Sys => lmod'[f] = lmod[f]
    BY <1>0, <2>1, LookedAt
  <2>3. Sys' = Sys
    BY <2>1, SameList
  <2> QED
    BY <1>1, <2>1, <2>2, <2>3 DEF Read
<1>9. ASSUME NEW g \in File, Edit(g) PROVE Read(f)'
  <2>1. /\ ver' = [ver EXCEPT ![g] = @ + 1]
        /\ slipped' = IF Window(g) THEN slipped \cup {g} ELSE slipped
        /\ UNCHANGED <<pc, used, check_files, sys_files, lmod>>
    BY <1>9 DEF Edit, mem, list
  <2>2. Sys' = Sys
    BY <2>1, SameList
  <2>3. CASE g = f
    BY <1>1, <2>1, <2>2, <2>3 DEF Read, Window
  <2>4. CASE g # f
    <3>1. ver'[f] = ver[f]
      BY <1>0, <2>1, <2>4 DEF Types
    <3> QED
      BY <1>1, <2>1, <2>2, <3>1 DEF Read
  <2> QED
    BY <2>3, <2>4
<1>10. ASSUME NEW g \in File, RemoveFile(g) PROVE Read(f)'
  <2>1. UNCHANGED <<pc, ver, used, check_files, sys_files, lmod, slipped>>
    BY <1>10 DEF RemoveFile, mem, list, Ghosts
  <2>2. Sys' = Sys
    BY <2>1, SameList
  <2> QED
    BY <1>1, <2>1, <2>2 DEF Read
<1> QED
  BY <1>2, <1>3, <1>4, <1>5, <1>6, <1>7, <1>8, <1>9, <1>10, Steps

(* ModulesChosen *)
LEMMA ModulesChosenStep ==
    Types /\ Shape /\ ModulesChosen /\ [Next]_vars => ModulesChosen'
<1> SUFFICES ASSUME Types, Shape, ModulesChosen, [Next]_vars,
                    pc' \notin {"off", "boot"}
             PROVE  ModulesChosen'
  BY DEF ModulesChosen
<1>0. "cfg" \in File /\ "cfg" # "chk"
  BY DEF File
<1>2. CASE QuietAction
  <2>1. /\ UNCHANGED <<ver, modOf, check_files, sys_files, lmod, slipped>>
        /\ \/ pc' = pc
           \/ pc \notin Before /\ pc' \notin {"record0", "record"}
           \/ pc = "top" /\ pc' = "record" /\ \A i \in SysAt : ~Stopper(i)
    BY <1>2, Quiet DEF QuietStep, Before
  <2>2. CASE pc = "top" /\ pc' = "record" /\ \A i \in SysAt : ~Stopper(i)
    <3>1. "cfg" \in Sys
      BY <2>2, LookedAt DEF Before
    <3>2. lmod["cfg"] = ver["cfg"]
      BY <2>2, <3>1 DEF Sys, Stopper, Changed
    <3> QED
      BY <2>1, <2>2, <3>2 DEF ModulesChosen
  <2> QED
    BY <2>1, <2>2 DEF ModulesChosen, Before
<1>3. CASE Boot
  <2>1. /\ pc' = "record0" /\ "cfg" \in there /\ ver' = Configured
        /\ modOf' = Configured["cfg"]
    BY <1>3 DEF Boot
  <2> QED
    BY <2>1 DEF ModulesChosen
<1>4. CASE Record0 \/ Record
  <2>1. /\ UNCHANGED <<ver, modOf, slipped>> /\ pc \in {"record0", "record"}
        /\ pc' \notin {"record0", "record"}
        /\ Listed \/ (pc = "record" /\ UNCHANGED list)
    BY <1>4 DEF Record0, Record, env, files, mem, Ghosts, Fail
  <2>2. CASE Listed
    <3>1. "cfg" \in ToSet(OwnFiles)
      BY OwnListed
    <3>2. lmod'["cfg"] = ver["cfg"]
      BY <1>0, <2>2, <3>1 DEF Listed
    <3> QED
      BY <2>1, <3>2 DEF ModulesChosen
  <2>3. CASE pc = "record" /\ UNCHANGED list
    BY <2>1, <2>3 DEF ModulesChosen, list
  <2> QED
    BY <2>1, <2>2, <2>3
<1>5. CASE GetConfig
  <2>1. /\ UNCHANGED <<modOf, lmod, slipped>>
        /\ pc = "getcfg" /\ pc' \in {"connect", "handler"}
    BY <1>5 DEF GetConfig, list, Ghosts, Fail
  <2> QED
    BY <2>1 DEF ModulesChosen
<1>6. CASE Choose
  <2>1. /\ UNCHANGED <<modOf, slipped>> /\ lmod' = [lmod EXCEPT !["chk"] = 0]
        /\ pc = "choose" /\ pc' \in {"loop", "handler"}
    BY <1>6 DEF Choose, Ghosts, Fail
  <2>2. lmod'["cfg"] = lmod["cfg"]
    BY <1>0, <2>1 DEF Types
  <2> QED
    BY <2>1, <2>2 DEF ModulesChosen
<1>7. CASE Load
  <2>1. /\ slipped' = slipped \ {"chk"} /\ pc = "load" /\ pc' \in {"stat", "statbad", "statshort"}
        /\ UNCHANGED <<modOf, lmod>>
    BY <1>7 DEF Load, StatPlace, list
  <2> QED
    BY <1>0, <2>1 DEF ModulesChosen
<1>8. CASE Stat
  <2>1. /\ UNCHANGED <<modOf, slipped>>
        /\ pc \in {"stat", "statbad", "statshort"} /\ pc' \in {"run", "handler"}
        /\ \/ lmod' = [g \in File |-> IF g \in Checks THEN ver[g] ELSE lmod[g]]
           \/ lmod' = lmod
    BY <1>8 DEF Stat, mem, Ghosts, Fail
  <2>2. lmod'["cfg"] = lmod["cfg"]
    BY <1>0, <2>1, LookedAt DEF Before
  <2> QED
    BY <2>1, <2>2 DEF ModulesChosen
<1>9. ASSUME NEW g \in File, Edit(g) PROVE ModulesChosen'
  <2>1. /\ ver' = [ver EXCEPT ![g] = @ + 1]
        /\ slipped' = IF Window(g) THEN slipped \cup {g} ELSE slipped
        /\ UNCHANGED <<pc, modOf, lmod>>
    BY <1>9 DEF Edit, mem, list
  <2>2. CASE g = "cfg"
    BY <2>1, <2>2 DEF ModulesChosen, Window
  <2>3. CASE g # "cfg"
    <3>1. ver'["cfg"] = ver["cfg"]
      BY <1>0, <2>1, <2>3 DEF Types
    <3> QED
      BY <2>1, <3>1 DEF ModulesChosen
  <2> QED
    BY <2>2, <2>3
<1>10. ASSUME NEW g \in File, RemoveFile(g) PROVE ModulesChosen'
  BY <1>10 DEF RemoveFile, mem, list, Ghosts, ModulesChosen
<1> QED
  BY <1>2, <1>3, <1>4, <1>5, <1>6, <1>7, <1>8, <1>9, <1>10, Steps

(* ConfigRead *)
LEMMA ConfigReadStep ==
    Types /\ Past /\ Shape /\ ConfigRead /\ [Next]_vars => ConfigRead'
<1> SUFFICES ASSUME Types, Past, Shape, ConfigRead, [Next]_vars, pc' \in Connecting,
                    NEW f \in {"cfg", "keys"} \cap Sys'
             PROVE  used'[f] = ver'[f] \/ lmod'[f] # ver'[f]
  BY DEF ConfigRead
<1> USE DEF Connecting, InLoop
<1>0. /\ f \in File /\ f # "chk" /\ "cfg" \in File /\ "keys" \in File
      /\ ver[f] \in Nat /\ lmod[f] \in Nat /\ lmod[f] <= ver[f]
      /\ f \in Sys /\ pc \in Connecting => used[f] = ver[f] \/ lmod[f] # ver[f]
  BY DEF File, Types, Past, ConfigRead
<1>1. CASE QuietAction
  <2>1. /\ UNCHANGED <<ver, used, check_files, sys_files, lmod>>
        /\ pc \in Connecting
    BY <1>1, Quiet DEF QuietStep
  <2> QED
    BY <1>0, <2>1, SameList
<1>2. CASE Boot \/ Record0 \/ Record
  BY <1>2 DEF Boot, Record0, Record, Fail
<1>3. CASE GetConfig
  <2>1. /\ used' = [used EXCEPT !["cfg"] = ver["cfg"], !["keys"] = Configured["keys"]]
        /\ ver' = Configured /\ UNCHANGED lmod
    BY <1>3 DEF GetConfig, Fail, list
  <2>2. CASE f = "keys"
    BY <1>0, <2>1, <2>2 DEF Types
  <2>3. CASE f = "cfg"
    <3>1. used'["cfg"] = ver["cfg"] /\ ver'["cfg"] \in {ver["cfg"], ver["cfg"] + 1}
      BY <1>0, <2>1, ConfiguredTypes DEF Types
    <3> QED
      BY <1>0, <2>1, <2>3, <3>1
  <2> QED
    BY <2>2, <2>3
<1>4. CASE Choose
  <2>1. /\ UNCHANGED <<ver, used>> /\ lmod' = [lmod EXCEPT !["chk"] = 0]
        /\ pc = "choose"
    BY <1>4 DEF Choose, env, files
  <2>2. lmod'[f] = lmod[f]
    BY <1>0, <2>1 DEF Types
  <2>3. f \in Sys
    BY <1>0, <1>4, SysAfterChoose
  <2> QED
    BY <1>0, <2>1, <2>2, <2>3
<1>5. CASE Load
  <2>1. /\ used' = [used EXCEPT !["chk"] = IF "chk" \in there THEN ver["chk"] ELSE 0]
        /\ pc = "load" /\ UNCHANGED <<ver, check_files, sys_files, lmod>>
    BY <1>5 DEF Load, StatPlace, env, files, list
  <2>2. used'[f] = used[f]
    BY <1>0, <2>1 DEF Types
  <2> QED
    BY <1>0, <2>1, <2>2, SameList
<1>6. CASE Stat
  <2>1. /\ UNCHANGED <<ver, used, check_files, sys_files>> /\ pc \in {"stat", "statbad", "statshort"}
        /\ \/ lmod' = [g \in File |-> IF g \in Checks THEN ver[g] ELSE lmod[g]]
           \/ lmod' = lmod
    BY <1>6 DEF Stat, env, files, mem
  <2>2. f \in Sys
    BY <2>1, SameList
  <2>3. lmod'[f] = lmod[f]
    BY <1>0, <2>1, <2>2, LookedAt
  <2> QED
    BY <1>0, <2>1, <2>2, <2>3
<1>7. ASSUME NEW g \in File, Edit(g)
      PROVE  used'[f] = ver'[f] \/ lmod'[f] # ver'[f]
  <2>1. /\ ver' = [ver EXCEPT ![g] = @ + 1]
        /\ UNCHANGED <<pc, used, check_files, sys_files, lmod>>
    BY <1>7 DEF Edit, mem, list
  <2>2. ver'[f] = IF f = g THEN ver[f] + 1 ELSE ver[f]
    BY <1>0, <2>1 DEF Types
  <2> QED
    BY <1>0, <2>1, <2>2, SameList
<1>8. ASSUME NEW g \in File, RemoveFile(g)
      PROVE  used'[f] = ver'[f] \/ lmod'[f] # ver'[f]
  <2>1. UNCHANGED <<pc, ver, used, check_files, sys_files, lmod>>
    BY <1>8 DEF RemoveFile, mem, list
  <2> QED
    BY <1>0, <2>1, SameList
<1> QED
  BY <1>1, <1>2, <1>3, <1>4, <1>5, <1>6, <1>7, <1>8, Steps

(* ChecksRead *)
LEMMA ChecksReadStep ==
    Types /\ Shape /\ ChecksRead /\ [Next]_vars => ChecksRead'
<1> SUFFICES ASSUME Types, Shape, ChecksRead, [Next]_vars PROVE ChecksRead'
  OBVIOUS
<1> USE DEF InLoop
<1>0. "chk" \in File
  BY DEF File
<1>1. CASE QuietAction
  <2>1. /\ UNCHANGED <<ver, there, used, check_files, sys_files, lmod, slipped>>
        /\ \/ pc' = pc
           \/ pc' \notin InLoop
           \/ pc \in {"loop", "run", "sleep"} /\ pc' \in {"loop", "load", "run", "sleep"}
    BY <1>1, Quiet DEF QuietStep
  <2>2. Sys' = Sys
    BY <2>1, SameList
  <2> QED
    BY <2>1, <2>2 DEF ChecksRead
<1>2. CASE Boot \/ Record0 \/ Record \/ GetConfig
  <2>1. pc' \notin InLoop
    BY <1>2 DEF Boot, Record0, Record, GetConfig, Fail
  <2> QED
    BY <2>1 DEF ChecksRead
<1>3. CASE Choose
  <2>1. /\ lmod' = [lmod EXCEPT !["chk"] = 0] /\ pc' \in {"loop", "handler"}
    BY <1>3 DEF Choose, Fail
  <2>2. lmod'["chk"] = 0
    BY <1>0, <2>1 DEF Types
  <2> QED
    BY <2>1, <2>2 DEF ChecksRead
<1>4. CASE Load
  <2>1. /\ used' = [used EXCEPT !["chk"] = IF "chk" \in there THEN ver["chk"] ELSE 0]
        /\ pc = "load" /\ pc' \in {"stat", "statbad", "statshort"}
        /\ UNCHANGED <<ver, there, check_files, sys_files, lmod>>
    BY <1>4 DEF Load, StatPlace, env, files, list
  <2>2. "chk" \in there => used'["chk"] = ver["chk"]
    BY <1>0, <2>1 DEF Types
  <2>3. Sys' = Sys
    BY <2>1, SameList
  <2> QED
    BY <2>1, <2>2, <2>3 DEF ChecksRead
<1>5. CASE Stat
  <2>1. /\ UNCHANGED <<ver, there, used, check_files, sys_files, slipped>>
        /\ pc \in {"stat", "statbad", "statshort"} /\ pc' \in {"run", "handler"}
        /\ pc' = "run" => /\ Checks \subseteq there
                          /\ lmod' = [g \in File |-> IF g \in Checks THEN ver[g] ELSE lmod[g]]
    BY <1>5 DEF Stat, env, files, mem, Ghosts, Fail
  <2>2. Sys' = Sys
    BY <2>1, SameList
  <2>3. CASE pc' = "handler"
    BY <2>3 DEF ChecksRead
  <2>4. CASE pc' = "run" /\ "chk" \in Checks
    <3>1. lmod'["chk"] = ver["chk"] /\ "chk" \in there /\ "chk" \notin Sys
      BY <1>0, <2>1, <2>4, LookedAt
    <3> QED
      BY <2>1, <2>2, <2>4, <3>1 DEF ChecksRead
  <2>5. CASE pc' = "run" /\ "chk" \notin Checks
    <3>1. "chk" \in Sys
      BY <2>1, <2>5 DEF Shape, Sys, Checks
    <3>2. lmod'["chk"] = lmod["chk"]
      BY <1>0, <2>1, <2>5
    <3> QED
      BY <2>1, <2>2, <2>5, <3>1, <3>2 DEF ChecksRead
  <2> QED
    BY <2>1, <2>3, <2>4, <2>5
<1>6. ASSUME NEW g \in File, Edit(g) PROVE ChecksRead'
  <2>1. /\ ver' = [ver EXCEPT ![g] = @ + 1] /\ there' = there \cup {g}
        /\ slipped' = IF Window(g) THEN slipped \cup {g} ELSE slipped
        /\ UNCHANGED <<pc, used, check_files, sys_files, lmod>>
    BY <1>6 DEF Edit, mem, list
  <2>2. Sys' = Sys
    BY <2>1, SameList
  <2>3. CASE g = "chk"
    BY <2>1, <2>2, <2>3 DEF ChecksRead, Window
  <2>4. CASE g # "chk"
    <3>1. ver'["chk"] = ver["chk"]
      BY <1>0, <2>1, <2>4 DEF Types
    <3> QED
      BY <2>1, <2>2, <2>4, <3>1 DEF ChecksRead
  <2> QED
    BY <2>3, <2>4
<1>7. ASSUME NEW g \in File, RemoveFile(g) PROVE ChecksRead'
  <2>1. /\ UNCHANGED <<pc, ver, used, check_files, sys_files, lmod, slipped>>
        /\ there' = there \ {g}
    BY <1>7 DEF RemoveFile, mem, list, Ghosts
  <2>2. Sys' = Sys
    BY <2>1, SameList
  <2> QED
    BY <2>1, <2>2 DEF ChecksRead
<1> QED
  BY <1>1, <1>2, <1>3, <1>4, <1>5, <1>6, <1>7, Steps

(* The exception that is handled is one of those db_errorcode is asked about.*)
LEMMA ErrStep == err \in Exceptions /\ [Next]_vars => err' \in Exceptions
<1> SUFFICES ASSUME err \in Exceptions, [Next]_vars PROVE err' \in Exceptions
  OBVIOUS
<1> USE DEF Fail
<1>0. {"lost", "value", "os", "login", "option"} \subseteq Exceptions /\ QueryErrors \subseteq Exceptions
  BY QueryErrorsAssumption DEF Exceptions, Own, Builtin
<1>1. CASE Start \/ Boot \/ Record0 \/ Record \/ GetConfig \/ Connect \/ Choose
  BY <1>0, <1>1 DEF Start, Boot, Record0, Record, GetConfig, Connect, Choose
<1>2. CASE Top
  BY <1>0, <1>2 DEF Top, Quit, SessionOver, Look, Exec
<1>3. CASE Handler \/ Nap \/ Load \/ Stat \/ Sleep
  BY <1>0, <1>3 DEF Handler, Nap, Load, StatPlace, Stat, MinutesError, Sleep, SessionOver
<1>4. CASE Loop
  BY <1>0, <1>4 DEF Loop, Quit, SessionOver, Exec
<1>5. CASE Run
  <2>1. ASSUME NEW e \in Exceptions, QueryFails(e) PROVE err' \in Exceptions
    BY <1>0, <2>1 DEF QueryFails
  <2> QED
    BY <1>0, <1>5, <2>1 DEF Run
<1>6. CASE Environment \/ UNCHANGED vars
  BY <1>6 DEF Environment, Edit, RemoveFile, DbChanges, vars
<1> QED
  BY <1>1, <1>2, <1>3, <1>4, <1>5, <1>6 DEF Next, Process

(* BlindRounds *)
LEMMA BlindRoundsStep == BlindRounds /\ [Next]_vars => BlindRounds'
<1> SUFFICES ASSUME BlindRounds, [Next]_vars PROVE BlindRounds'
  OBVIOUS
<1> USE DEF Fail
<1>0. /\ con \in Nat /\ blind \in Nat /\ con < Minutes /\ blind < Minutes
      /\ Minutes \in Nat /\ Minutes > 0
      /\ alive => blind = 0
  BY MinutesAssumption DEF BlindRounds
<1>1. CASE con' = 0 /\ blind' = 0
  BY <1>0, <1>1 DEF BlindRounds
<1>2. CASE Start \/ Boot \/ Record0 \/ Record \/ GetConfig \/ Nap
  <2>1. UNCHANGED <<con, blind, alive>> /\ pc' \notin InLoop
    BY <1>2 DEF Start, Boot, Record0, Record, GetConfig, Nap, Session, Ghosts, InLoop
  <2> QED
    BY <2>1 DEF BlindRounds, InLoop
<1>3. CASE Top
  <2>1. \/ con' = 0 /\ blind' = 0
        \/ UNCHANGED <<con, blind, alive>> /\ pc' \in {"record", "handler"}
    BY <1>3 DEF Top, Quit, Look, Exec, SessionOver, Session, Ghosts
  <2> QED
    BY <1>1, <2>1 DEF BlindRounds
<1>4. CASE Connect
  <2>1. con' = con /\ pc' \in {"choose", "handler"}
        /\ (blind' = 0 \/ UNCHANGED <<blind, alive>>)
    BY <1>4 DEF Connect
  <2> QED
    BY <1>0, <2>1 DEF BlindRounds
<1>5. CASE Choose
  <2>1. /\ UNCHANGED <<blind, alive>>
        /\ \/ pc' = "loop" /\ con' = 0
           \/ pc' = "handler" /\ con' = con
    BY <1>5 DEF Choose, Ghosts
  <2> QED
    BY <1>0, <2>1 DEF BlindRounds
<1>6. CASE Handler
  BY <1>1, <1>6 DEF Handler, SessionOver
<1>7. CASE Loop
  <2>1. \/ con' = 0 /\ blind' = 0
        \/ UNCHANGED <<con, blind, alive>> /\ pc = "loop" /\ pc' \in {"load", "run", "handler"}
    BY <1>7 DEF Loop, Quit, Exec, SessionOver, Session, Ghosts
  <2> QED
    BY <1>1, <2>1 DEF BlindRounds
<1>8. CASE Load \/ Stat
  <2>1. /\ UNCHANGED <<con, blind, alive>> /\ pc \in {"load", "stat", "statbad", "statshort"}
        /\ pc' \in {"stat", "statbad", "statshort", "run", "handler"}
    BY <1>8 DEF Load, StatPlace, Stat, Session, Ghosts
  <2> QED
    BY <2>1 DEF BlindRounds
<1>9. CASE Run
  <2>1. pc = "run" /\ con' = con /\ alive' = alive /\ pc' \in {"sleep", "handler"}
    <3>1. ASSUME NEW e, QueryFails(e) PROVE pc' \in {"sleep", "handler"}
      BY <3>1 DEF QueryFails
    <3> QED
      BY <1>9, <3>1 DEF Run, Session
  <2>2. blind = 0 \/ con = 0 \/ blind < con
    BY <2>1 DEF BlindRounds
  <2>3. CASE ~secs
    <3>1. blind' = 0
      BY <1>9, <2>3 DEF Run
    <3> QED
      BY <1>0, <2>1, <3>1 DEF BlindRounds
  <2>4. CASE secs /\ pc' = "sleep" /\ ~alive
    <3>1. con # 0
      <4>1. ~QueryFails("lost")
        BY <2>4 DEF QueryFails
      <4> QED
        BY <1>9, <2>4, <4>1 DEF Run, Due
    <3>2. blind' \in {blind, blind + 1}
      BY <1>9, <2>4 DEF Run
    <3>3. blind' \in Nat /\ blind' <= con
      BY <1>0, <2>2, <3>1, <3>2
    <3> QED
      BY <1>0, <2>1, <2>4, <3>3 DEF BlindRounds
  <2>5. CASE secs /\ ~(pc' = "sleep" /\ ~alive)
    <3>1. blind' = blind
      BY <1>9, <2>5 DEF Run
    <3> QED
      BY <1>0, <2>1, <2>5, <3>1 DEF BlindRounds
  <2> QED
    BY <2>3, <2>4, <2>5
<1>10. CASE Sleep
  <2>1. /\ pc = "sleep" /\ pc' = "loop" /\ con' = (con + 1) % Minutes
        /\ UNCHANGED <<blind, alive>> /\ blind <= con
    BY <1>10 DEF Sleep, Ghosts, BlindRounds
  <2>2. con' = IF con + 1 = Minutes THEN 0 ELSE con + 1
    BY <1>0, <2>1
  <2> QED
    BY <1>0, <2>1, <2>2 DEF BlindRounds
<1>11. CASE Environment
  <2>1. UNCHANGED <<pc, con, blind>> /\ (alive' => alive)
    BY <1>11 DEF Environment, Edit, RemoveFile, DbChanges, Session, Ghosts
  <2> QED
    BY <2>1 DEF BlindRounds
<1>12. CASE UNCHANGED vars
  BY <1>12 DEF vars, Session, Ghosts, BlindRounds
<1> QED
  BY <1>2, <1>3, <1>4, <1>5, <1>6, <1>7, <1>8, <1>9, <1>10, <1>11, <1>12 DEF Next, Process
-----------------------------------------------------------------------------
(* Type correctness *)

(* The program itself gives a file a newer time only for an edit: a plain    *)
(* password it encrypts, a keysdir that was removed.                         *)
Owed(f) == IF (f = "cfg" /\ plain) \/ (f = "keys" /\ f \notin there) THEN 1 ELSE 0
Times ==
    /\ edits \in Nat /\ edits <= MaxEdits
    /\ \A f \in File : ver[f] + Owed(f) <= 2 * edits + 2
    /\ modOf <= ver["cfg"]

(* The list has at most the four files of the process itself and the checks. *)
Lengths ==
    /\ sys_files <= 4 /\ Len(check_files) <= 5
    /\ pc \in {"getcfg", "connect", "choose"} => Len(check_files) <= 4

(* The rest of TypeOK, which no other part rests on. *)
Rest ==
    /\ {plain, hasLog, secs, dbUp, alive, badPw} \subseteq BOOLEAN
    /\ text \in Texts
    /\ {dbRole, role} \subseteq {"primary", "slave"}
    /\ driver \in UsedDrivers

(* Where the process can be. *)
Place ==
    pc \in {"off", "boot", "record0", "top", "record", "getcfg", "handler", "nap"}
           \cup Connecting

(* Times *)
LEMMA TimesStep == Types /\ Times /\ [Next]_vars => Times'
<1> SUFFICES ASSUME Types, Times, [Next]_vars PROVE Times'
  OBVIOUS
<1>0. /\ edits \in Nat /\ MaxEdits \in Nat /\ edits <= MaxEdits
      /\ \A f \in File : ver[f] \in Nat /\ ver[f] <= 2 * edits + 2
      /\ "cfg" \in File /\ "keys" \in File /\ modOf \in Nat /\ modOf <= ver["cfg"]
  BY MaxEditsAssumption DEF Types, Times, Owed, File
<1>1. CASE UNCHANGED <<ver, edits, plain, there, modOf>>
  BY <1>1 DEF Times, Owed
<1>2. ASSUME ver' = Configured, there' = there \cup {"keys"}, plain' = FALSE, edits' = edits,
             modOf' \in {modOf, Configured["cfg"]}
      PROVE  Times'
  <2>1. \A f \in File : /\ ver'[f] = ver[f] + Owed(f)
                        /\ Owed(f)' = 0 /\ Owed(f) \in {0, 1}
    BY <1>0, <1>2 DEF Configured, Owed
  <2>2. \A f \in File : ver[f] + Owed(f) <= 2 * edits + 2
    BY DEF Times
  <2>3. \A f \in File : ver'[f] + Owed(f)' <= 2 * edits' + 2
    BY <1>0, <1>2, <2>1, <2>2
  <2>4. modOf' <= ver'["cfg"]
    BY <1>0, <1>2, <2>1
  <2> QED
    BY <1>0, <1>2, <2>3, <2>4 DEF Times
<1>3. CASE Boot \/ GetConfig
  BY <1>1, <1>2, <1>3 DEF Boot, GetConfig, mem
<1>4. ASSUME NEW g \in File, Edit(g) PROVE Times'
  <2>1. /\ ver' = [ver EXCEPT ![g] = @ + 1] /\ edits' = edits + 1 /\ edits < MaxEdits
        /\ there' = there \cup {g} /\ (g # "cfg" => plain' = plain) /\ modOf' = modOf
    BY <1>4 DEF Edit, mem
  <2>2. ASSUME NEW f \in File
        PROVE  ver[f] <= ver'[f] /\ ver'[f] + Owed(f)' <= 2 * edits' + 2
    <3>1. Owed(f)' \in {0, 1} /\ Owed(f) \in {0, 1} /\ (f # g => Owed(f)' = Owed(f))
      BY <2>1 DEF Owed
    <3>2. ver'[f] = IF f = g THEN ver[f] + 1 ELSE ver[f]
      BY <2>1 DEF Types
    <3>3. ver[f] + Owed(f) <= 2 * edits + 2
      BY DEF Times
    <3> QED
      BY <1>0, <2>1, <3>1, <3>2, <3>3
  <2>3. ver'["cfg"] \in Nat
    BY <1>0, <2>1 DEF Types
  <2> QED
    BY <1>0, <2>1, <2>2, <2>3 DEF Times
<1>5. ASSUME NEW g \in File, RemoveFile(g) PROVE Times'
  <2>1. UNCHANGED <<ver, plain, modOf>> /\ edits' = edits + 1 /\ edits < MaxEdits
    BY <1>5 DEF RemoveFile, mem
  <2>2. \A f \in File : Owed(f)' \in {0, 1}
    BY DEF Owed
  <2>3. \A f \in File : ver'[f] + Owed(f)' <= 2 * edits' + 2
    BY <1>0, <2>1, <2>2
  <2> QED
    BY <1>0, <2>1, <2>3 DEF Times
<1>6. CASE \/ Start \/ Record0 \/ Top \/ Record \/ Connect \/ Choose \/ Handler \/ Nap
           \/ Loop \/ Load \/ Stat \/ Run \/ Sleep \/ DbChanges \/ UNCHANGED vars
  <2>1. UNCHANGED <<ver, edits, plain, there, modOf>>
    BY <1>6 DEF Start, Record0, Top, Record, Connect, Choose, Handler, Nap, Loop, Load, StatPlace, Stat,
                Run, Sleep, DbChanges, vars, env, files, mem, Quit, Look, Exec
  <2> QED
    BY <1>1, <2>1
<1> QED
  BY <1>3, <1>4, <1>5, <1>6 DEF Next, Process, Environment

(* Lengths *)
LEMMA LengthsStep == Types /\ Shape /\ Lengths /\ [Next]_vars => Lengths'
<1> SUFFICES ASSUME Types, Shape, Lengths, [Next]_vars PROVE Lengths'
  OBVIOUS
<1>1. CASE QuietAction
  BY <1>1, Quiet DEF QuietStep, Before, Lengths
<1>2. CASE Boot
  BY <1>2 DEF Boot, Lengths
<1>3. CASE Record0 \/ Record
  <2>1. Len(OwnFiles) \in 2..4
    BY OwnListed
  <2>2. CASE Listed
    <3>1. check_files' = OwnFiles /\ sys_files' \in {sys_files, Len(OwnFiles)}
      BY <1>3, <2>2 DEF Record0, Record, Listed, list
    <3>2. Len(check_files') = Len(OwnFiles)
      BY <3>1
    <3>3. Len(check_files') <= 4 /\ Len(check_files') <= 5
      BY <2>1, <3>2
    <3>4. sys_files' <= 4
      <4>1. CASE sys_files' = sys_files
        BY <4>1 DEF Lengths
      <4>2. CASE sys_files' = Len(OwnFiles)
        BY <2>1, <4>2
      <4> QED
        BY <3>1, <4>1, <4>2
    <3> QED
      BY <3>3, <3>4 DEF Lengths
  <2>3. CASE UNCHANGED list
    <3>1. CASE pc' \in {"off", "handler"}
      BY <2>3, <3>1 DEF Lengths, list
    <3>2. CASE pc' \notin {"off", "handler"}
      BY <1>3, <2>2, <3>2 DEF Record0, Record, Fail
    <3> QED
      BY <3>1, <3>2
  <2> QED
    BY <1>3, <2>2, <2>3 DEF Record0, Record
<1>4. CASE GetConfig \/ Load \/ Stat
  BY <1>4 DEF GetConfig, Load, StatPlace, Stat, Lengths, list, Fail
<1>5. CASE Choose
  <2>1. /\ pc = "choose" /\ check_files' = Append(check_files, "chk")
        /\ pc' \in {"loop", "handler"} /\ sys_files' = sys_files
    BY <1>5 DEF Choose, Fail
  <2>2. Len(check_files') = Len(check_files) + 1
    BY <2>1, Appended DEF Types, Shape
  <2>3. Len(check_files) \in Nat
    BY DEF Types
  <2> QED
    BY <2>1, <2>2, <2>3 DEF Lengths
<1>6. ASSUME NEW f \in File, Edit(f) \/ RemoveFile(f) PROVE Lengths'
  BY <1>6 DEF Edit, RemoveFile, Lengths, list
<1> QED
  BY <1>1, <1>2, <1>3, <1>4, <1>5, <1>6, Steps

(* The process stays at the places of its program. *)
LEMMA PlaceStep == Place /\ [Next]_vars => Place'
<1> SUFFICES ASSUME Place, [Next]_vars PROVE Place'
  OBVIOUS
<1> USE DEF Fail, SessionOver, Quit, Exec, Place, Connecting, InLoop
<1>1. CASE Start \/ Boot \/ Record0 \/ Record \/ GetConfig \/ Connect \/ Choose
  BY <1>1 DEF Start, Boot, Record0, Record, GetConfig, Connect, Choose
<1>2. CASE Top
  BY <1>2 DEF Top, Look
<1>3. CASE Handler \/ Nap \/ Load \/ Stat \/ Sleep
  BY <1>3 DEF Handler, Nap, Load, StatPlace, Stat, Sleep
<1>4. CASE Loop
  BY <1>4 DEF Loop
<1>5. CASE Run
  <2>1. ASSUME NEW e, QueryFails(e) PROVE pc' \in {"sleep", "handler"}
    BY <2>1 DEF QueryFails
  <2> QED
    BY <1>5, <2>1 DEF Run
<1>6. CASE Environment \/ UNCHANGED vars
  <2>1. pc' = pc
    BY <1>6 DEF Environment, Edit, RemoveFile, DbChanges, vars
  <2> QED
    BY <2>1
<1> QED
  BY <1>1, <1>2, <1>3, <1>4, <1>5, <1>6 DEF Next, Process

(* Rest *)
LEMMA RestStep == Rest /\ [Next]_vars => Rest'
<1> SUFFICES ASSUME Rest, [Next]_vars PROVE Rest'
  OBVIOUS
<1> USE DEF Next, Process, Environment, Start, Boot, Record0, Top, Look, Record, GetConfig,
            Connect, Answer, Choose, Handler, Nap, Loop, Load, StatPlace, Stat, Run, Sleep, Edit,
            RemoveFile, DbChanges, vars, env, files, mem, list, Session, Ghosts, Fail,
            SessionOver, Quit, Exec
<1>1. /\ {plain, hasLog, secs, dbUp, alive, badPw} \subseteq BOOLEAN
      /\ text \in Texts /\ {dbRole, role} \subseteq {"primary", "slave"}
      /\ driver \in UsedDrivers
  BY DEF Rest
<1>2. UNCHANGED driver
  OBVIOUS
<1>3. text' \in Texts
  BY <1>1
<1>4. dbRole' \in {"primary", "slave"} /\ dbUp' \in BOOLEAN
  BY <1>1
<1>5. role' \in {"primary", "slave"} /\ alive' \in BOOLEAN
  BY <1>1
<1>6. plain' \in BOOLEAN /\ hasLog' \in BOOLEAN /\ secs' \in BOOLEAN /\ badPw' \in BOOLEAN
  <2>1. plain \in BOOLEAN /\ hasLog \in BOOLEAN /\ secs \in BOOLEAN /\ badPw \in BOOLEAN
    BY <1>1
  <2>2. plain' \in BOOLEAN
    BY <2>1
  <2>3. hasLog' \in BOOLEAN
    <3>1. CASE Boot
      <4>1. CASE "cfg" \in there
        <5>1. hasLog' = ("log" \in there)
          BY <3>1, <4>1, Zenon DEF Boot
        <5> QED
          BY <5>1
      <4>2. CASE "cfg" \notin there
        BY <2>1, <3>1, <4>2 DEF Boot
      <4> QED
        BY <4>1, <4>2
    <3>2. CASE ~Boot
      <4>1. UNCHANGED hasLog
        BY <3>2
      <4> QED
        BY <2>1, <4>1
    <3> QED
      BY <3>1, <3>2
  <2>4. secs' \in BOOLEAN
    <3>1. CASE Load
      <4>1. secs' = ("chk" \in there /\ text # "empty")
        BY <3>1 DEF Load, StatPlace
      <4> QED
        BY <4>1, Zenon
    <3>2. CASE ~Load
      BY <2>1, <3>2
    <3> QED
      BY <3>1, <3>2
  <2>5. badPw' \in BOOLEAN
    BY <2>1
  <2> QED
    BY <2>2, <2>3, <2>4, <2>5
<1>7. {plain', hasLog', secs', dbUp', alive', badPw'} \subseteq BOOLEAN
  BY <1>4, <1>5, <1>6, Zenon
<1>8. {dbRole', role'} \subseteq {"primary", "slave"} /\ driver' \in UsedDrivers
  BY <1>1, <1>2, <1>4, <1>5
<1> QED
  BY <1>3, <1>7, <1>8, Zenon DEF Rest
-----------------------------------------------------------------------------
(* The theorems *)

(* The invariant holds in every reachable state. *)
LEMMA MInvHolds == Spec => []MInv
<1>1. MInv /\ [Next]_vars => MInv'
  BY TypesStep, ShapeStep, ModulesReadStep, ModulesChosenStep, ConfigReadStep,
     ChecksReadStep, BlindRoundsStep, ErrStep DEF MInv
<1> QED
  BY MInvInit, <1>1, PTL DEF Spec

(* A session never goes on with a cfg or keys older than the files, unless   *)
(* the next look at them restarts the program: the times are taken before    *)
(* the files are read (894-911).                                             *)
THEOREM ConfigIsNeverStale == Spec => []ConfigNeverStale
<1>1. MInv => ConfigNeverStale
  BY DEF MInv, ConfigRead, ConfigNeverStale
<1> QED
  BY MInvHolds, <1>1, PTL

(* Whatever else is used when it is old was edited between the reading and   *)
(* the recording of its time, or while nothing looked at it: that is the     *)
(* only gap (765-847, 883-894, 480-498).                                     *)
THEOREM StaleWasSlipped == Spec => []StaleOnlyIfSlipped
<1>1. MInv => StaleOnlyIfSlipped
  <2> SUFFICES ASSUME MInv PROVE StaleOnlyIfSlipped
    OBVIOUS
  <2>1. ASSUME pc \in {"top", "getcfg"} \cup Connecting, NEW f \in {"mod", "log"} \cap Sys
        PROVE  ~SilentlyStale(f) \/ f \in slipped
    BY <2>1 DEF MInv, ModulesRead, Read, SilentlyStale, Connecting, InLoop
  <2>2. ASSUME pc \in Connecting
        PROVE  modOf = used["cfg"] \/ "cfg" \in slipped \/ lmod["cfg"] # ver["cfg"]
    <3>1. "cfg" \in Sys
      BY <2>2, LookedAt DEF MInv, Connecting, InLoop, Before
    <3> QED
      BY <2>2, <3>1 DEF MInv, ModulesChosen, ConfigRead, Connecting, InLoop
  <2>3. ASSUME pc \in {"run", "sleep", "loop"}
        PROVE  ~SilentlyStale("chk") \/ "chk" \in slipped
    <3>1. ver["chk"] # 0
      BY DEF MInv, Types, File
    <3> QED
      BY <2>3, <3>1 DEF MInv, ChecksRead, SilentlyStale
  <2> QED
    BY <2>1, <2>2, <2>3 DEF StaleOnlyIfSlipped
<1> QED
  BY MInvHolds, <1>1, PTL

(* A lost session is found out before "minutes" rounds with checks reported  *)
(* that all is well, for any interval (567-568, 738).                        *)
THEOREM BlindIsBounded == Spec => []BlindBounded
<1>1. MInv => BlindBounded
  BY MinutesAssumption DEF MInv, BlindRounds, BlindBounded
<1> QED
  BY MInvHolds, <1>1, PTL

(* The program ends by itself only without its cfg, when its LOG_CONF went   *)
(* while it started, or by an exception that db_errorcode raises on.         *)
THEOREM StopHasCause == Spec => StopsWithCause
<1>1. ASSUME MInv, [Next]_vars, pc # "off", pc' = "off"
      PROVE  \/ "cfg" \notin there
             \/ pc = "record0" /\ "log" \notin there
             \/ pc = "handler" /\ err \in {e \in Exceptions : db_errorcode(driver, e) = Raises}
  <2> USE <1>1 DEF Fail
  <2>1. CASE Start \/ Boot \/ Record0 \/ Record \/ GetConfig \/ Connect \/ Choose
    BY <2>1 DEF Start, Boot, Record0, NoTime, Record, Listed, GetConfig, Connect, Choose
  <2>2. CASE Top
    BY <2>2 DEF Top, Quit, Look, Exec
  <2>3. CASE Handler
    BY <2>3 DEF Handler, MInv
  <2>4. CASE Nap \/ Load \/ Stat \/ Sleep
    BY <2>4 DEF Nap, Load, StatPlace, Stat, Sleep
  <2>5. CASE Loop
    BY <2>5 DEF Loop, Quit, Exec
  <2>6. CASE Run
    <3>1. ASSUME NEW e, QueryFails(e) PROVE pc' # "off"
      BY <3>1 DEF QueryFails
    <3> QED
      BY <2>6, <3>1 DEF Run
  <2>7. CASE Environment \/ UNCHANGED vars
    BY <2>7 DEF Environment, Edit, RemoveFile, DbChanges, vars
  <2> QED
    BY <2>1, <2>2, <2>3, <2>4, <2>5, <2>6, <2>7 DEF Next, Process
<1>2. MInv /\ [Next]_vars =>
        [pc # "off" /\ pc' = "off" =>
           \/ "cfg" \notin there
           \/ pc = "record0" /\ "log" \notin there
           \/ pc = "handler" /\ err \in {e \in Exceptions : db_errorcode(driver, e) = Raises}]_vars
  BY <1>1
<1> QED
  BY MInvHolds, <1>2, PTL DEF Spec, StopsWithCause

(* Each variable keeps the type its use implies; no file gets more times than*)
(* its edits and what get_config makes of them (262-290).                    *)
THEOREM TypesAreKept == Spec => []TypeOK
<1>1. Init => Times /\ Lengths /\ Place /\ Rest
  <2> SUFFICES ASSUME Init PROVE Times /\ Lengths /\ Place /\ Rest
    OBVIOUS
  <2>1. Times
    BY MaxEditsAssumption DEF Init, Times, Owed, File
  <2>2. Lengths
    BY DEF Init, Lengths
  <2>3. Place /\ Rest
    BY DEF Init, Place, Rest, Texts
  <2> QED
    BY <2>1, <2>2, <2>3
<1>2. MInv /\ Times /\ Lengths /\ Place /\ Rest /\ [Next]_vars => (Times /\ Lengths /\ Place /\ Rest)'
  BY TimesStep, LengthsStep, PlaceStep, RestStep DEF MInv
<1>3. MInv /\ Times /\ Lengths /\ Place /\ Rest => TypeOK
  <2> SUFFICES ASSUME MInv, Times, Lengths, Place, Rest PROVE TypeOK
    OBVIOUS
  <2>1. /\ MaxEdits \in Nat /\ edits \in Nat /\ edits <= MaxEdits /\ "cfg" \in File
        /\ \A f \in File : /\ ver[f] \in Nat /\ used[f] \in Nat /\ lmod[f] \in Nat
                           /\ used[f] <= ver[f] /\ lmod[f] <= ver[f]
                           /\ ver[f] <= 2 * edits + 2
        /\ modOf \in Nat /\ modOf <= ver["cfg"]
    BY MaxEditsAssumption DEF MInv, Types, Past, Times, Owed, File
  <2>2. /\ \A f \in File : ver[f] \in Versions /\ used[f] \in Versions /\ lmod[f] \in Versions
        /\ modOf \in Versions
    BY <2>1 DEF Versions
  <2>3. {ver, used, lmod} \subseteq [File -> Versions]
    BY <2>2 DEF MInv, Types
  <2>4. con \in 0..(Minutes - 1) /\ blind \in 0..Minutes /\ err \in Exceptions
    BY MinutesAssumption DEF MInv, BlindRounds
  <2>5. /\ check_files \in Seq(File) /\ Len(check_files) <= 5 /\ sys_files \in 0..4
        /\ {there, slipped} \subseteq SUBSET File /\ edits \in 0..MaxEdits
    BY <2>1 DEF MInv, Types, Lengths
  <2> QED
    BY <2>2, <2>3, <2>4, <2>5, Zenon DEF TypeOK, Place, Rest
<1> QED
  BY MInvHolds, <1>1, <1>2, <1>3, PTL DEF Spec
=============================================================================
