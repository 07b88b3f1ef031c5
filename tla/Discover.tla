------------------------------- MODULE Discover -------------------------------
(* zbx_discover_oradbs.py.  A run rewrites its csv when it finds plain       *)
(* passwords, through a temporary file; reads the csv again; asks the        *)
(* listeners of every row for their instances; and has zabbix_sender send    *)
(* the array of databases if there was no error.  Runs may overlap, and the  *)
(* user edits the csv.  Nothing is locked.                                   *)
EXTENDS Naturals

CONSTANTS
    Runs,       \* processes
    NRows,      \* rows of the csv that are not comments
    Protocol,   \* "ssh", "psr", "winRS" or another, of each row
    Members,    \* and its machines
    Database,   \* the database each machine runs an instance of, by the name
                \* that 291-301 derive
    Passwords,  \* what the user sets
    MaxEdits    \* bound: passwords set

Row == 1..NRows
Machine == UNION {Members[r] : r \in Row}
NoPw == ""

ASSUME RowsAssumption ==
    /\ NRows \in Nat /\ DOMAIN Protocol = Row /\ DOMAIN Members = Row
    /\ Machine \subseteq DOMAIN Database
ASSUME MaxEditsAssumption == MaxEdits \in Nat /\ NoPw \notin Passwords

VARIABLES
    sameFs,     \* is the temporary directory on the file system of the csv
    csv,        \* password and password_enc of each row
    whole,      \* is that in the file (else it is empty)
    wanted,     \* the password the user set last
    edits,      \* times one was set
    lld,        \* what is in the file for zabbix_sender, which runs share
    pc,         \* where a run is
    copy,       \* its temporary file, then the rows it read again
    row,        \* the row it is at
    failed,     \* errors # 0
    found,      \* databases found
    unheard,    \* machines that gave nothing, and no error either
    behind,     \* rows of its copy that are older than the user's last edit
    undone,     \* rows whose last edit was overwritten by such a copy
    hurt        \* did a run die while it copied

files == <<sameFs, csv, whole, wanted, edits>>
work == <<row, failed, found, unheard>>
ghosts == <<behind, undone, hurt>>
vars == <<files, lld, pc, copy, work, ghosts>>

NoRows == [r \in Row |-> [pw |-> NoPw, enc |-> NoPw]]
NoArray == [dbs |-> {}, unheard |-> {}]
HasPassword(r) == Protocol[r] # "ssh"

Init ==
    /\ sameFs \in BOOLEAN /\ whole = TRUE /\ edits = 0
    /\ wanted \in {w \in [Row -> Passwords \cup {NoPw}] :
                     \A r \in Row : w[r] = NoPw <=> ~HasPassword(r)}
    /\ csv = [r \in Row |-> [pw |-> wanted[r], enc |-> NoPw]]
    /\ lld = NoArray
    /\ pc = [p \in Runs |-> "off"] /\ copy = [p \in Runs |-> NoRows]
    /\ row = [p \in Runs |-> 1] /\ failed = [p \in Runs |-> FALSE]
    /\ found = [p \in Runs |-> {}] /\ unheard = [p \in Runs |-> {}]
    /\ behind = [p \in Runs |-> {}] /\ undone = {} /\ hurt = FALSE

Goto(p, where) == pc' = [pc EXCEPT ![p] = where]
-----------------------------------------------------------------------------
(* get_config *)

(* A bug: a row that was encoded before keeps what it has. *)
EncryptedOnce(r) ==
    IF r.pw = NoPw THEN r ELSE [pw |-> NoPw, enc |-> IF r.enc # NoPw THEN r.enc ELSE r.pw]

Encrypted(r) == IF r.pw = NoPw THEN r ELSE [pw |-> NoPw, enc |-> r.pw]

(* All rows are read and written to the temporary file (63-82); an empty csv *)
(* has no header, an exception that nobody catches.                          *)
Read(p) ==
    /\ pc[p] = "off" /\ whole
    /\ copy' = [copy EXCEPT ![p] = [r \in Row |-> Encrypted(csv[r])]]
    /\ Goto(p, IF \E r \in Row : csv[r].pw # NoPw THEN "move" ELSE "reread")
    /\ behind' = [behind EXCEPT ![p] = undone]
    /\ UNCHANGED <<files, lld, work, undone, hurt>>

Replaced(p) ==
    /\ csv' = copy[p] /\ whole' = TRUE /\ Goto(p, "reread")
    /\ undone' = behind[p]
    /\ UNCHANGED <<sameFs, wanted, edits, lld, copy, work, behind, hurt>>

(* shutil.move renames the file if it can, *)
Rename(p) == pc[p] = "move" /\ sameFs /\ Replaced(p)

(* and else opens the csv, which empties it, and copies.                     *)
OpenCsv(p) ==
    /\ pc[p] = "move" /\ ~sameFs /\ Goto(p, "copy") /\ whole' = FALSE
    /\ UNCHANGED <<sameFs, csv, wanted, edits, lld, copy, work, ghosts>>

Copy(p) == pc[p] = "copy" /\ Replaced(p)

(* The second reading (89-99): an empty csv gives no rows now, and no error. *)
Reread(p) ==
    /\ pc[p] = "reread" /\ Goto(p, "ask")
    /\ copy' = [copy EXCEPT ![p] = csv]
    /\ row' = [row EXCEPT ![p] = IF whole THEN 1 ELSE NRows + 1]
    /\ unheard' = [unheard EXCEPT ![p] = IF whole THEN {} ELSE Machine]
    /\ UNCHANGED <<files, lld, failed, found, ghosts>>
-----------------------------------------------------------------------------
(* main *)

(* password_enc wins over a plain password next to it (96-98). *)
Used(r) == IF r.enc # NoPw THEN r.enc ELSE r.pw

(* What one machine may give: its instances; a text on stderr, perhaps with  *)
(* some of them; an exception; nothing at all (ssh -q tells of no failure,   *)
(* lsnrctl tells of its own on stdout).  An unknown protocol is an error.    *)
Answers(p, r) ==
    CASE Protocol[r] = "ssh" -> {"ok", "stderr", "nothing"}
      [] Protocol[r] \in {"psr", "winRS"} /\ Used(copy[p][r]) = wanted[r] ->
            {"ok", "stderr", "raises", "nothing"}
      [] OTHER -> {"raises"}

(* A bug: only the errors of the last row count. *)
CountedLast(before, new) == new

Counted(before, new) == before \/ new

(* get_ssh, get_psr or get_winRS for a row, and what main() makes of it.     *)
Ask(p) ==
    LET r == row[p]
        gave(answer, kinds) == {m \in Members[r] : answer[m] \in kinds}
    IN  /\ pc[p] = "ask" /\ r <= NRows /\ row' = [row EXCEPT ![p] = r + 1]
        /\ \E answer \in [Members[r] -> Answers(p, r)] :
             /\ failed' = [failed EXCEPT ![p] =
                             Counted(@, gave(answer, {"stderr", "raises"}) # {})]
             /\ found' = [found EXCEPT ![p] =
                            @ \cup {Database[m] : m \in gave(answer, {"ok"})}]
             /\ unheard' = [unheard EXCEPT ![p] = @ \cup gave(answer, {"nothing"})]
        /\ UNCHANGED <<files, lld, pc, copy, ghosts>>

(* What a run that is over knew is gone. *)
Over(p) ==
    /\ Goto(p, "off") /\ copy' = [copy EXCEPT ![p] = NoRows]
    /\ row' = [row EXCEPT ![p] = 1] /\ failed' = [failed EXCEPT ![p] = FALSE]
    /\ found' = [found EXCEPT ![p] = {}] /\ unheard' = [unheard EXCEPT ![p] = {}]

(* The array is written to a file (325); or there were errors.               *)
WriteLld(p) ==
    /\ pc[p] = "ask" /\ row[p] > NRows
    /\ IF failed[p] THEN Over(p) /\ lld' = lld
       ELSE /\ lld' = [dbs |-> found[p], unheard |-> unheard[p]] /\ Goto(p, "send")
            /\ UNCHANGED <<copy, work>>
    /\ UNCHANGED <<files, ghosts>>

(* zabbix_sender sends what is in that file by now.                          *)
Send(p) ==
    /\ pc[p] = "send" /\ Over(p)
    /\ lld' = IF \E o \in Runs \ {p} : pc[o] = "send" THEN lld ELSE NoArray
    /\ UNCHANGED <<files, ghosts>>

Killed(p) ==
    /\ pc[p] # "off" /\ Over(p) /\ hurt' = (hurt \/ pc[p] = "copy")
    /\ UNCHANGED <<files, lld, behind, undone>>

(* The user sets a password. *)
SetPassword(r) ==
    /\ HasPassword(r) /\ whole /\ edits < MaxEdits /\ edits' = edits + 1
    /\ \E w \in Passwords : wanted' = [wanted EXCEPT ![r] = w]
                            /\ csv' = [csv EXCEPT ![r].pw = w]
    /\ behind' = [p \in Runs |-> IF pc[p] \in {"move", "copy"}
                                THEN behind[p] \cup {r} ELSE behind[p]]
    /\ undone' = undone \ {r}
    /\ UNCHANGED <<sameFs, whole, lld, pc, copy, work, hurt>>

Next ==
    \/ \E p \in Runs : \/ Read(p) \/ Rename(p) \/ OpenCsv(p) \/ Copy(p) \/ Reread(p)
                       \/ Ask(p) \/ WriteLld(p) \/ Send(p) \/ Killed(p)
    \/ \E r \in Row : SetPassword(r)

Spec == Init /\ [][Next]_vars
-----------------------------------------------------------------------------
(* Every row keeps the password the user set last, plain or encoded, unless  *)
(* a copy made before that edit replaced it, or a copy of a csv to which that*)
(* had happened.  The csv is only empty where it cannot be replaced by a     *)
(* rename, while a run copies or after one died copying.                     *)
PasswordKept ==
    IF whole
    THEN \A r \in Row \ undone : Used(csv[r]) = wanted[r] \/ csv[r].pw = wanted[r]
    ELSE ~sameFs /\ (hurt \/ \E p \in Runs : pc[p] = "copy")

(* What is sent lacks a database only if the run did not hear of any of its  *)
(* machines, and nobody reported an error (321: a run with errors sends      *)
(* nothing), whatever runs overlap and edits are made.  Zabbix would take a  *)
(* database that is not in the array for removed.                            *)
SentWhole ==
    \A p \in Runs, m \in Machine : pc[p] = "send" =>
        Database[m] \in lld.dbs \/ m \in lld.unheard

(* Nothing is sent with a machine missing.                                   *)
(* It does not hold: README, section 5.                                      *)
SentComplete == \A p \in Runs : pc[p] = "send" => lld.unheard = {}
=============================================================================
