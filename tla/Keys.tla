-------------------------------- MODULE Keys --------------------------------
(* The password in a cfg and the keys in its keysdir.  get_config reads the  *)
(* cfg, decrypts password_enc with the keys (or, the old way, with base64),  *)
(* and rewrites the file when it found a plain password or had to use        *)
(* another key than the newest.  The monitor of the cfg does this at its     *)
(* start and before every connect; "zbxdb.py -p" and "zbxdb.py -g" do it at  *)
(* the same time on the same file.  Nothing is locked.                       *)
EXTENDS FiniteSetsExt, Naturals

CONSTANTS
    Monitor,        \* the zbxdb.py process of the cfg
    Clis,           \* other zbxdb.py processes, started by hand with -p or -g
    Passwords,      \* what a user sets as password
    Long,           \* those of them with more than 72 bytes
    FirstKeys,      \* keys that exist at the start
    MaxKeys,        \* bound: keys ever made
    MaxEdits,       \* bound: passwords set by the user
    KeysHere,       \* is "keys" in the working directory the keysdir
    Deletes,        \* are old keys deleted: "never", "idle" (while no process
                    \* works with keys) or "any" time
    Crashes         \* may a process die anywhere

NoPw == ""
Garbage == "garbage"

ASSUME PasswordsAssumption ==
    Long \subseteq Passwords /\ NoPw \notin Passwords /\ Garbage \notin Passwords
ASSUME ProcAssumption == Monitor \notin Clis
ASSUME BoundsAssumption ==
    FirstKeys \in Nat /\ MaxKeys \in Nat /\ FirstKeys <= MaxKeys /\ MaxEdits \in Nat
ASSUME KeysSwitchesAssumption ==
    KeysHere \in BOOLEAN /\ Deletes \in {"never", "idle", "any"} /\ Crashes \in BOOLEAN

Procs == Clis \cup {Monitor}
Text == Passwords \cup {NoPw, Garbage}

(* A password_enc: what was encrypted, and by which key; 0 is base64.  Keys  *)
(* are numbered as their files sort, which is in order of time.              *)
Enc == [by : 0..MaxKeys, of : Text]
Base64(t) == [by |-> 0, of |-> t]
NoCfg == [pw |-> NoPw, enc |-> Base64(NoPw)]

VARIABLES
    file,       \* the cfg: "whole", "empty" (truncated) or "mixed" (of two writes
                \* that leave nothing that can be read)
    cfg,        \* its password and password_enc, when whole
    keys,       \* the keys in keysdir
    blank,      \* those of them whose files are still empty
    made,       \* keys made so far
    wanted,     \* the password the user set last
    edits,      \* times it was set
    pc, at,     \* where a process is, and for whom it runs get_config
    mem,        \* the cfg it read
    listed,     \* the key files os.scandir gave it
    tok,        \* what it is about to write
    got,        \* the password the monitor connects with
    changed,    \* of "cfg" and "keys": changed since the monitor took their times
    overtaken,  \* processes whose copy of the cfg is older than a user's edit
    undone,     \* was the user's last edit overwritten by such a process
    hurt,       \* did a process die between truncating and writing, since the
                \* last write
    collided    \* was the cfg open in two processes at a time, since it was last
                \* opened by one alone

disk == <<file, cfg, keys, blank, made>>
ghosts == <<overtaken, undone, hurt, collided>>
vars == <<disk, wanted, edits, pc, at, mem, listed, tok, got, changed, ghosts>>

Init ==
    /\ \E p \in Passwords : wanted = p /\ cfg = [pw |-> p, enc |-> Base64(NoPw)]
    /\ file = "whole" /\ keys = 1..FirstKeys /\ blank = {} /\ made = FirstKeys /\ edits = 0
    /\ pc = [p \in Procs |-> "off"] /\ at = [p \in Procs |-> "main"]
    /\ mem = [p \in Procs |-> NoCfg]
    /\ listed = [p \in Procs |-> {}]
    /\ tok = [p \in Procs |-> Base64(NoPw)]
    /\ got = NoPw /\ changed = {}
    /\ overtaken = {} /\ undone = FALSE /\ hurt = FALSE /\ collided = FALSE

Goto(p, where) == pc' = [pc EXCEPT ![p] = where]
(* The exception gets out of main(), or is handled by the connect loop.      *)
Raise(p) ==
    \/ Goto(p, "off")
    \/ at[p] = "loop" /\ Goto(p, "top")

-----------------------------------------------------------------------------
(* The keys *)

(* The names are listed first; a file that is gone when its turn comes ends  *)
(* the loop, and the keys read so far are returned.                          *)
load_keys(p) == {k \in listed[p] : \A j \in listed[p] : j <= k => j \in keys}

Newest(ks) == Max(ks)

Listed(p, ks) == listed' = [listed EXCEPT ![p] = ks]

ListKeys(p, from, to) ==
    /\ pc[p] = from /\ Goto(p, to)
    /\ Listed(p, keys)
    /\ UNCHANGED <<disk, wanted, edits, at, mem, tok, got, changed, ghosts>>

Plain(t, rekey) == [ok |-> TRUE, t |-> t, rekey |-> rekey]
NotDecryptable == [ok |-> FALSE, t |-> NoPw, rekey |-> FALSE]

(* The keys tried: the newest, then all in their order up to the one that    *)
(* fits.  Fernet refuses an empty key, with an exception nobody expects.     *)
Tried(enc, ks) ==
    {Newest(ks)} \cup {k \in ks : enc.by # Newest(ks) /\ (enc.by \in ks => k <= enc.by)}
Refused(enc, ks) == ks # {} /\ Tried(enc, ks) \cap blank # {}

(* A bug: the older keys are not tried. *)
decryptedNewest(enc, ks) ==
    CASE enc.of = NoPw -> {Plain(NoPw, FALSE)}
      [] enc.of # NoPw /\ ks = {} -> {Plain(enc.of, FALSE)}
      [] enc.of # NoPw /\ ks # {} /\ (enc.by = Newest(ks) \/ enc.by = 0) ->
            {Plain(enc.of, enc.by = 0)}
      [] OTHER -> {Plain(Garbage, TRUE), NotDecryptable}

(* Without a key that fits, the token is taken for base64: that gives what   *)
(* was encoded if it is, and else garbage, or an exception from b64decode.   *)
(* Without any keys a long text is refused.  An empty one stays empty.       *)
decrypted(enc, ks) ==
    CASE Refused(enc, ks) -> {NotDecryptable}
      [] ~Refused(enc, ks) /\ enc.of = NoPw -> {Plain(NoPw, FALSE)}
      [] enc.of # NoPw /\ ks = {} ->
            IF enc.by = 0 /\ enc.of \notin Long THEN {Plain(enc.of, FALSE)}
            ELSE {NotDecryptable}
      [] ~Refused(enc, ks) /\ enc.of # NoPw /\ ks # {} /\ (enc.by \in ks \/ enc.by = 0) ->
            {Plain(enc.of, enc.by # Newest(ks))}
      [] OTHER -> {Plain(Garbage, TRUE), NotDecryptable}

encrypted(t, ks) == IF ks = {} THEN Base64(t) ELSE [by |-> Newest(ks), of |-> t]

-----------------------------------------------------------------------------
(* get_config *)

(* Where the caller goes on: genkey, or the decryption for its own use.      *)
AfterConfig(p) == IF at[p] = "gen" THEN "genkey" ELSE "list3"

(* An empty cfg has no section: the exception is not caught.                 *)
ReadCfg(p) ==
    /\ pc[p] = "read"
    /\ IF file = "whole"
       THEN /\ mem' = [mem EXCEPT ![p] = cfg]
            /\ Goto(p, IF cfg.pw = NoPw THEN "list1" ELSE "list2")
       ELSE Raise(p) /\ mem' = mem
    /\ overtaken' = overtaken \ {p}
    /\ UNCHANGED <<disk, wanted, edits, at, listed, tok, got, changed, undone, hurt,
                   collided>>

Decrypt(p) ==
    /\ pc[p] = "decrypt"
    /\ \E r \in decrypted(mem[p].enc, load_keys(p)) :
         /\ IF ~r.ok THEN Raise(p)
            ELSE Goto(p, IF r.rekey THEN "list2" ELSE AfterConfig(p))
         /\ mem' = IF r.rekey THEN [mem EXCEPT ![p].pw = r.t] ELSE mem
    /\ Listed(p, {})
    /\ UNCHANGED <<disk, wanted, edits, at, tok, got, changed, ghosts>>

(* A bug: the file is opened before the password is encrypted. *)
EncryptOpened(p) ==
    /\ pc[p] = "encrypt" /\ Goto(p, "open")
    /\ tok' = [tok EXCEPT ![p] = encrypted(mem[p].pw, load_keys(p))]
    /\ file' = "empty" /\ changed' = changed \cup {"cfg"}
    /\ UNCHANGED <<cfg, keys, blank, made, wanted, edits, at, mem, listed, got, ghosts>>

Encrypt(p) ==
    /\ pc[p] = "encrypt"
    /\ LET ks == load_keys(p)
       IN  IF ks # {} /\ Newest(ks) \in blank
           THEN Raise(p) /\ tok' = tok
           ELSE Goto(p, "open") /\ tok' = [tok EXCEPT ![p] = encrypted(mem[p].pw, ks)]
    /\ Listed(p, {}) /\ mem' = [mem EXCEPT ![p].pw = NoPw]
    /\ UNCHANGED <<disk, wanted, edits, at, got, changed, ghosts>>

(* open(filename, 'w') *)
Open(p) ==
    /\ pc[p] = "open" /\ Goto(p, "write")
    /\ file' = "empty" /\ changed' = changed \cup {"cfg"}
    /\ collided' = (\E q \in Procs \ {p} : pc[q] = "write")
    /\ UNCHANGED <<cfg, keys, blank, made, wanted, edits, at, mem, listed, tok, got,
                   overtaken, undone, hurt>>

(* A text written over another leaves the end of that one behind it if it is *)
(* the shorter one.  The two differ in password_enc: for one password base64 *)
(* is shorter than a Fernet token, and two tokens are equally long.          *)
Shorter(new, old) == new.of # old.of \/ (new.by = 0 /\ old.by # 0)

(* The text is written when the file is closed.  If another process wrote    *)
(* since the open, there is a text to write over; what is left of it can make*)
(* the file one that configparser cannot read.                               *)
Write(p) ==
    /\ pc[p] = "write" /\ Goto(p, AfterConfig(p))
    /\ file' \in IF file = "mixed" \/ (file = "whole" /\ Shorter(tok[p], cfg.enc))
                 THEN {"whole", "mixed"} ELSE {"whole"}
    /\ cfg' = [pw |-> NoPw, enc |-> tok[p]]
    /\ changed' = changed \cup {"cfg"}
    /\ undone' = (undone \/ p \in overtaken) /\ hurt' = FALSE
    /\ tok' = [tok EXCEPT ![p] = Base64(NoPw)]
    /\ UNCHANGED <<keys, blank, made, wanted, edits, at, mem, listed, got,
                   overtaken, collided>>

get_config(p) ==
    \/ ReadCfg(p) \/ ListKeys(p, "list1", "decrypt") \/ Decrypt(p)
    \/ ListKeys(p, "list2", "encrypt") \/ Encrypt(p) \/ Open(p) \/ Write(p)

-----------------------------------------------------------------------------
(* The callers *)

(* A bug: the times of the files are taken after the cfg was read. *)
UsePasswordLate(p) ==
    /\ pc[p] = "use"
    /\ \E r \in decrypted(mem[p].enc, load_keys(p)) :
         /\ CASE ~r.ok -> Raise(p)
              [] r.ok -> Goto(p, CASE at[p] = "main" -> "record0"
                                   [] at[p] = "loop" -> "connected"
                                   [] OTHER -> "off")
         /\ got' = IF r.ok /\ at[p] = "loop" THEN r.t ELSE got
         /\ changed' = IF at[p] = "loop" THEN {} ELSE changed
    /\ UNCHANGED <<disk, wanted, edits, at, mem, listed, tok, ghosts>>

(* decrypted(_config), of the password_enc that was read: for the log at the *)
(* start (831), for the connection (912), for the user (770).                *)
UsePassword(p) ==
    /\ pc[p] = "use"
    /\ \E r \in decrypted(mem[p].enc, load_keys(p)) :
         /\ CASE ~r.ok -> Raise(p)
              [] r.ok -> Goto(p, CASE at[p] = "main" -> "record0"
                                   [] at[p] = "loop" -> "connected"
                                   [] OTHER -> "off")
         /\ got' = IF r.ok /\ at[p] = "loop" THEN r.t ELSE got
    /\ Listed(p, {}) /\ mem' = [mem EXCEPT ![p] = NoCfg]
    /\ UNCHANGED <<disk, wanted, edits, at, tok, changed, ghosts>>

(* zbxdb.py -g opens a new key file in "keys" in the working directory ...   *)
Genkey(p) ==
    LET here == IF KeysHere THEN {made + 1} ELSE {}
    IN  /\ pc[p] = "genkey" /\ Goto(p, "writekey")
        /\ made' = made + 1
        /\ keys' = keys \cup here /\ blank' = blank \cup here
        /\ changed' = IF KeysHere THEN changed \cup {"keys"} ELSE changed
        /\ UNCHANGED <<file, cfg, wanted, edits, at, mem, listed, tok, got, ghosts>>

(* ... and the key gets there when it is closed.  That is no change of the   *)
(* directory.                                                                *)
WriteKey(p) ==
    /\ pc[p] = "writekey" /\ Goto(p, "off")
    /\ blank' = blank \ {made}
    /\ UNCHANGED <<file, cfg, keys, made, wanted, edits, at, mem, listed, tok, got,
                   changed, ghosts>>

Call(p, who) ==
    /\ Goto(p, "read") /\ at' = [at EXCEPT ![p] = who]
    /\ UNCHANGED <<disk, wanted, edits, mem, listed, tok, got, ghosts>>

RunCli(p) ==
    /\ pc[p] = "off" /\ changed' = changed
    /\ \/ Call(p, "show")
       \/ Call(p, "gen") /\ made < MaxKeys /\ \A c \in Clis : pc[c] # "off" => at[c] # "gen"

(* The monitor: start, times, connect loop. *)
Start == pc[Monitor] = "off" /\ Call(Monitor, "main") /\ changed' = changed

Record0 ==
    /\ pc[Monitor] = "record0" /\ Goto(Monitor, "top")
    /\ changed' = {}
    /\ UNCHANGED <<disk, wanted, edits, at, mem, listed, tok, got, ghosts>>

(* Changed files restart the program; else the times are taken and the cfg   *)
(* is read again for the next connection.                                    *)
Top ==
    /\ pc[Monitor] = "top"
    /\ IF changed # {} THEN Call(Monitor, "main") /\ changed' = changed
       ELSE Call(Monitor, "loop") /\ changed' = {}

(* A bug: the keysdir is not watched. *)
WatchCfg ==
    /\ pc[Monitor] = "connected"
    /\ \/ "cfg" \in changed /\ Call(Monitor, "main") /\ changed' = changed
       \/ /\ got # wanted /\ Goto(Monitor, "top")
          /\ UNCHANGED <<disk, wanted, edits, at, mem, listed, tok, got, changed, ghosts>>

(* connection_loop looks at the times every minute, and restarts; or there   *)
(* is no connection, as the database knows another password.                 *)
Watch ==
    /\ pc[Monitor] = "connected"
    /\ \/ changed # {} /\ Call(Monitor, "main") /\ changed' = changed
       \/ /\ got # wanted /\ Goto(Monitor, "top")
          /\ UNCHANGED <<disk, wanted, edits, at, mem, listed, tok, got, changed, ghosts>>

MonitorSteps ==
    \/ Start \/ Record0 \/ Top \/ Watch
    \/ get_config(Monitor) \/ ListKeys(Monitor, "list3", "use") \/ UsePassword(Monitor)

CliSteps(p) ==
    get_config(p) \/ ListKeys(p, "list3", "use") \/ UsePassword(p) \/ Genkey(p) \/ WriteKey(p)

-----------------------------------------------------------------------------
(* Around it *)

HasOldCopy(p) == pc[p] \in {"list1", "decrypt", "list2", "encrypt", "open"}

(* The user sets a plain password; not in the instant another process has    *)
(* the file open.                                                            *)
SetPassword ==
    /\ edits < MaxEdits /\ file = "whole" /\ \A p \in Procs : pc[p] # "write"
    /\ \E w \in Passwords : wanted' = w /\ cfg' = [cfg EXCEPT !.pw = w]
    /\ edits' = edits + 1
    /\ changed' = changed \cup {"cfg"}
    /\ overtaken' = overtaken \cup {p \in Procs : HasOldCopy(p)}
    /\ undone' = FALSE
    /\ UNCHANGED <<file, keys, blank, made, pc, at, mem, listed, tok, got, hurt,
                   collided>>

Idle(p) == pc[p] \in {"off", "top", "connected"}

(* An old key is deleted once the cfg is seen to use another.                *)
DeleteKey(k) ==
    /\ Deletes = "any" \/ (Deletes = "idle" /\ \A p \in Procs : Idle(p))
    /\ k \in keys /\ k # Newest(keys)
    /\ file = "whole" /\ cfg.pw = NoPw /\ cfg.enc.by = Newest(keys)
    /\ keys' = keys \ {k} /\ changed' = changed \cup {"keys"}
    /\ UNCHANGED <<file, cfg, blank, made, wanted, edits, pc, at, mem, listed, tok, got, ghosts>>

(* The session is lost: the connect loop goes round. *)
Lost ==
    /\ pc[Monitor] = "connected" /\ Goto(Monitor, "top")
    /\ UNCHANGED <<disk, wanted, edits, at, mem, listed, tok, got, changed, ghosts>>

Crash(p) ==
    /\ Crashes /\ pc[p] # "off" /\ Goto(p, "off")
    /\ hurt' = (hurt \/ pc[p] = "write")
    /\ Listed(p, {}) /\ mem' = [mem EXCEPT ![p] = NoCfg]
    /\ tok' = [tok EXCEPT ![p] = Base64(NoPw)]
    /\ UNCHANGED <<disk, wanted, edits, at, got, changed, overtaken, undone,
                   collided>>

Next ==
    \/ MonitorSteps
    \/ \E p \in Clis : RunCli(p) \/ CliSteps(p)
    \/ SetPassword \/ Lost \/ \E k \in keys : DeleteKey(k)
    \/ \E p \in Procs : Crash(p)

Spec == Init /\ [][Next]_vars

(* A started process keeps going, and the starter starts the monitor; nobody *)
(* has to use the command line, to lose a session or to set a password.      *)
FairSpec == Spec /\ WF_vars(MonitorSteps) /\ \A p \in Clis : WF_vars(CliSteps(p))

-----------------------------------------------------------------------------
(* Each variable stays in the set its use in the program implies. *)
TypeOK ==
    /\ file \in {"whole", "empty", "mixed"}
    /\ cfg \in [pw : Text, enc : Enc]
    /\ keys \in SUBSET (1..made) /\ blank \in SUBSET (1..made) /\ made \in 0..MaxKeys
    /\ wanted \in Passwords /\ edits \in 0..MaxEdits
    /\ pc \in [Procs -> {"off", "read", "list1", "decrypt", "list2", "encrypt",
                         "open", "write", "list3", "use", "genkey", "writekey",
                         "record0", "top", "connected"}]
    /\ at \in [Procs -> {"main", "loop", "show", "gen"}]
    /\ mem \in [Procs -> [pw : Text, enc : Enc]]
    /\ listed \in [Procs -> SUBSET (1..made)]
    /\ tok \in [Procs -> Enc] /\ got \in Text
    /\ changed \in SUBSET {"cfg", "keys"} /\ overtaken \in SUBSET Procs
    /\ {undone, hurt, collided} \subseteq BOOLEAN

Meant == IF cfg.pw # NoPw THEN cfg.pw ELSE cfg.enc.of
Decryptable ==
    \/ cfg.pw # NoPw \/ cfg.enc.by \in keys \ blank
    \/ cfg.enc.by = 0 /\ (keys # {} \/ cfg.enc.of \notin Long)

(* What breaks the cfg: it is empty while somebody has it open, or because   *)
(* somebody died who had; it cannot be read because two had it open at once. *)
Excused ==
    \/ file = "empty" /\ (hurt \/ \E p \in Procs : pc[p] = "write")
    \/ file = "mixed" /\ collided

(* Nothing else breaks it: whoever finds no password in the cfg has come in  *)
(* the moment of a rewrite, after a death in one, or after two at a time.    *)
BrokenWithCause == file # "whole" => Excused

(* The cfg holds the password the user set last, in a form the program can   *)
(* read back, through any interleaving of monitor, -p, -g and rekeying;      *)
(* unless a process that had read the cfg earlier overwrote the user's edit, *)
(* or the cfg is broken, with one of these causes.                           *)
PasswordKept ==
    undone \/ Excused \/ (file = "whole" /\ Meant = wanted /\ Decryptable)

(* doc/encryption.md:5-17: the program encrypts by itself, at any start and  *)
(* any connect, and -g may be run at any time: the cfg stays one it can read.*)
(* It does not hold: README, section 5.                                      *)
CfgReadable == file # "mixed"

(* The monitor does not settle on a password that is not the user's: when it *)
(* has another one, the times it recorded make it restart.                   *)
SettlesRight ==
    pc[Monitor] = "connected" => got = wanted \/ changed # {} \/ undone

(* doc/encryption.md:22: without keys a base64 password_enc is decoded.      *)
(* It does not hold: README, section 5.                                      *)
Base64Decodable == file = "whole" /\ cfg.pw = NoPw /\ cfg.enc.by = 0 => Decryptable

(* README.md:14-15: a generated key is in the keysdir.                       *)
(* It does not hold: README, section 5.                                      *)
KeysArrive == Deletes = "never" => keys = 1..made

(* A key file is only empty while -g is about to write it.                   *)
(* It does not hold: README, section 5.                                      *)
KeysWhole == blank # {} => \E p \in Clis : pc[p] = "writekey"

(* In the end the cfg is encrypted with the newest key, whenever that was    *)
(* made (doc/encryption.md:7-8, 15-17), or encoded as long as there is none; *)
(* unless two rewrites at a time left one that nobody can read.              *)
Current == cfg.pw = NoPw /\ cfg.enc.by = IF keys = {} THEN 0 ELSE Newest(keys)
Rekeyed == <>[](file = "mixed" \/ (file = "whole" /\ Current))

(* And the monitor connects with the user's password and stays connected     *)
(* when the session is not lost.                                             *)
EndsRight ==
    <>[][~Lost]_vars =>
        <>[](undone \/ file = "mixed" \/ (pc[Monitor] = "connected" /\ got = wanted))
=============================================================================
