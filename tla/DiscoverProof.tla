---------------------------- MODULE DiscoverProof ----------------------------
(* What the discovery does to the passwords in its csv, and to the array it  *)
(* sends, for any number of runs, rows, machines and edits.                  *)
EXTENDS Discover, TLAPS

Text == Passwords \cup {NoPw}
Places == {"off", "move", "copy", "reread", "ask", "send"}

(* The variables the parts below speak of keep their types. *)
Types ==
    /\ csv \in [Row -> [pw : Text, enc : Text]]
    /\ wanted \in [Row -> Text]
    /\ pc \in [Runs -> Places]
    /\ copy \in [Runs -> [Row -> [pw : Text, enc : Text]]]
    /\ row \in [Runs -> Nat \ {0}]
    /\ failed \in [Runs -> BOOLEAN]
    /\ found \in [Runs -> SUBSET {Database[m] : m \in Machine}]
    /\ unheard \in [Runs -> SUBSET Machine]
    /\ behind \in [Runs -> SUBSET Row] /\ undone \in SUBSET Row

(* A row says w: plain, or encoded without anything plain that would win at  *)
(* the next rewriting.                                                       *)
Says(r, w) == IF r.pw # NoPw THEN r.pw = w ELSE r.enc = w

(* The csv says what the user wants, but for the rows that were undone.      *)
CsvRight == \A r \in Row \ undone : Says(csv[r], wanted[r])

(* So does each copy that may still replace it, but for the rows that are    *)
(* behind.                                                                   *)
CopyRight ==
    \A p \in Runs : pc[p] \in {"move", "copy"} =>
        \A r \in Row \ behind[p] : copy[p][r].pw = NoPw /\ copy[p][r].enc = wanted[r]

(* An empty csv is being copied to, or was when a run died. *)
Emptied ==
    /\ ~whole => ~sameFs /\ (hurt \/ \E p \in Runs : pc[p] = "copy")
    /\ \A p \in Runs : pc[p] = "copy" => ~sameFs

(* A run without errors found the database of each machine it asked, or got  *)
(* nothing from it.                                                          *)
Heard(p, m) == Database[m] \in found[p] \/ m \in unheard[p]
Asked ==
    \A p \in Runs : pc[p] = "ask" /\ ~failed[p] =>
        \A r \in Row : r < row[p] => \A m \in Members[r] : Heard(p, m)

DInv == Types /\ CsvRight /\ CopyRight /\ Emptied /\ Asked /\ SentWhole
-----------------------------------------------------------------------------
(* Types *)
LEMMA TypesInit == Init => Types
<1> SUFFICES ASSUME Init PROVE Types
  OBVIOUS
<1>1. wanted \in [Row -> Text]
  BY DEF Init, Text
<1>2. csv \in [Row -> [pw : Text, enc : Text]]
  BY <1>1 DEF Init, Text
<1>3. copy \in [Runs -> [Row -> [pw : Text, enc : Text]]]
  BY DEF Init, NoRows, Text
<1> QED
  BY <1>1, <1>2, <1>3 DEF Init, Types, Places

(* What Over and the other steps of a run leave of the types. *)
LEMMA TypesStep == Types /\ [Next]_vars => Types'
<1> SUFFICES ASSUME Types, [Next]_vars PROVE Types'
  OBVIOUS
<1> USE DEF Types
<1>0. \A r \in Row : Encrypted(csv[r]) \in [pw : Text, enc : Text]
  BY DEF Encrypted, Text
<1>1. ASSUME NEW p \in Runs, Read(p) PROVE Types'
  <2>1. [r \in Row |-> Encrypted(csv[r])] \in [Row -> [pw : Text, enc : Text]]
    BY <1>0
  <2>2. /\ copy' = [copy EXCEPT ![p] = [r \in Row |-> Encrypted(csv[r])]]
        /\ behind' = [behind EXCEPT ![p] = undone]
        /\ pc' \in [Runs -> Places]
        /\ UNCHANGED <<csv, wanted, row, failed, found, unheard, undone>>
    BY <1>1 DEF Read, Goto, files, work, Places
  <2> QED
    BY <2>1, <2>2
<1>2. ASSUME NEW p \in Runs, Replaced(p) PROVE Types'
  BY <1>2 DEF Replaced, Goto, work, Places
<1>3. ASSUME NEW p \in Runs, OpenCsv(p) PROVE Types'
  BY <1>3 DEF OpenCsv, Goto, work, ghosts, Places
<1>4. ASSUME NEW p \in Runs, Reread(p) PROVE Types'
  <2>1. NRows + 1 \in Nat \ {0}
    BY RowsAssumption
  <2> QED
    BY <1>4, <2>1 DEF Reread, Goto, files, ghosts, Places
<1>5. ASSUME NEW p \in Runs, Ask(p) PROVE Types'
  <2>1. row[p] \in Row
    BY <1>5, RowsAssumption DEF Ask, Row
  <2>2. PICK answer \in [Members[row[p]] -> Answers(p, row[p])] :
          /\ failed' = [failed EXCEPT ![p] = Counted(@,
                {m \in Members[row[p]] : answer[m] \in {"stderr", "raises"}} # {})]
          /\ found' = [found EXCEPT ![p] = @ \cup
                {Database[m] : m \in {n \in Members[row[p]] : answer[n] \in {"ok"}}}]
          /\ unheard' = [unheard EXCEPT ![p] = @ \cup
                {m \in Members[row[p]] : answer[m] \in {"nothing"}}]
    BY <1>5 DEF Ask
  <2>3. Members[row[p]] \subseteq Machine
    BY <2>1 DEF Machine
  <2>4. failed' \in [Runs -> BOOLEAN]
    BY <2>2 DEF Counted
  <2>5. found' \in [Runs -> SUBSET {Database[m] : m \in Machine}]
    BY <2>2, <2>3
  <2>6. unheard' \in [Runs -> SUBSET Machine]
    BY <2>2, <2>3
  <2>7. /\ row' = [row EXCEPT ![p] = row[p] + 1]
        /\ UNCHANGED <<csv, wanted, pc, copy, behind, undone>>
    BY <1>5 DEF Ask, files, ghosts
  <2> QED
    BY <2>4, <2>5, <2>6, <2>7
<1>6. ASSUME NEW p \in Runs, Over(p), UNCHANGED <<csv, wanted, behind, undone>> PROVE Types'
  <2>1. NoRows \in [Row -> [pw : Text, enc : Text]]
    BY DEF NoRows, Text
  <2> QED
    BY <1>6, <2>1 DEF Over, Goto, Places
<1>7. ASSUME NEW p \in Runs, WriteLld(p) PROVE Types'
  BY <1>6, <1>7 DEF WriteLld, Goto, files, ghosts, work, Places
<1>8. ASSUME NEW p \in Runs, Send(p) \/ Killed(p) PROVE Types'
  BY <1>6, <1>8 DEF Send, Killed, files, ghosts
<1>9. ASSUME NEW r \in Row, SetPassword(r) PROVE Types'
  <2>1. PICK w \in Passwords : wanted' = [wanted EXCEPT ![r] = w]
                               /\ csv' = [csv EXCEPT ![r].pw = w]
    BY <1>9 DEF SetPassword
  <2>2. wanted' \in [Row -> Text]
    BY <2>1 DEF Text
  <2>3. [csv[r] EXCEPT !.pw = w] \in [pw : Text, enc : Text]
    <3>1. csv[r] \in [pw : Text, enc : Text] /\ w \in Text
      BY DEF Text
    <3> QED
      BY <3>1
  <2>4. csv' = [csv EXCEPT ![r] = [csv[r] EXCEPT !.pw = w]]
    BY <2>1
  <2>5. csv' \in [Row -> [pw : Text, enc : Text]]
    BY <2>3, <2>4
  <2> QED
    BY <1>9, <2>2, <2>5 DEF SetPassword, work
<1>10. CASE UNCHANGED vars
  BY <1>10 DEF vars, files, work, ghosts
<1> QED
  BY <1>1, <1>2, <1>3, <1>4, <1>5, <1>7, <1>8, <1>9, <1>10 DEF Next, Rename, Copy
-----------------------------------------------------------------------------
(* The csv and its copies *)

(* The steps that leave csv, passwords and copies that count alone. *)
LEMMA RightStep ==
    Types /\ CsvRight /\ CopyRight /\ [Next]_vars => CsvRight' /\ CopyRight'
<1> SUFFICES ASSUME Types, CsvRight, CopyRight, [Next]_vars PROVE CsvRight' /\ CopyRight'
  OBVIOUS
<1>1. ASSUME NEW p \in Runs, Read(p) PROVE CsvRight' /\ CopyRight'
  <2>1. /\ UNCHANGED <<csv, wanted, undone>>
        /\ copy' = [copy EXCEPT ![p] = [r \in Row |-> Encrypted(csv[r])]]
        /\ behind' = [behind EXCEPT ![p] = undone]
        /\ \A q \in Runs \ {p} : pc'[q] = pc[q]
    BY <1>1 DEF Read, Goto, files, Types
  <2>2. \A r \in Row \ undone :
            Encrypted(csv[r]).pw = NoPw /\ Encrypted(csv[r]).enc = wanted[r]
    BY DEF CsvRight, Says, Encrypted
  <2>3. \A r \in Row : copy'[p][r] = Encrypted(csv[r])
    BY <2>1 DEF Types
  <2>4. behind'[p] = undone
    BY <2>1 DEF Types
  <2>5. \A q \in Runs \ {p} : copy'[q] = copy[q] /\ behind'[q] = behind[q]
    BY <2>1 DEF Types
  <2>6. CopyRight'
    BY <2>1, <2>2, <2>3, <2>4, <2>5 DEF CopyRight
  <2> QED
    BY <2>1, <2>6 DEF CsvRight
<1>2. ASSUME NEW p \in Runs, Replaced(p), pc[p] \in {"move", "copy"}
      PROVE  CsvRight' /\ CopyRight'
  <2>1. /\ csv' = copy[p] /\ undone' = behind[p] /\ UNCHANGED <<wanted, copy, behind>>
        /\ pc' = [pc EXCEPT ![p] = "reread"]
    BY <1>2 DEF Replaced, Goto
  <2>2. CsvRight'
    BY <1>2, <2>1 DEF CsvRight, CopyRight, Says
  <2>3. \A q \in Runs : pc'[q] \in {"move", "copy"} => pc[q] \in {"move", "copy"}
    BY <2>1 DEF Types
  <2> QED
    BY <2>1, <2>2, <2>3 DEF CopyRight
<1>3. ASSUME NEW r \in Row, SetPassword(r) PROVE CsvRight' /\ CopyRight'
  <2>1. PICK w \in Passwords : wanted' = [wanted EXCEPT ![r] = w]
                               /\ csv' = [csv EXCEPT ![r].pw = w]
    BY <1>3 DEF SetPassword
  <2>2. /\ undone' = undone \ {r} /\ UNCHANGED <<pc, copy>>
        /\ behind' = [p \in Runs |-> IF pc[p] \in {"move", "copy"}
                                     THEN behind[p] \cup {r} ELSE behind[p]]
    BY <1>3 DEF SetPassword
  <2>3. w # NoPw
    BY MaxEditsAssumption
  <2>4. csv'[r].pw = w /\ wanted'[r] = w
    BY <2>1 DEF Types
  <2>5. \A s \in Row \ {r} : csv'[s] = csv[s] /\ wanted'[s] = wanted[s]
    BY <2>1 DEF Types
  <2>6. CsvRight'
    BY <2>2, <2>3, <2>4, <2>5 DEF CsvRight, Says
  <2>7. CopyRight'
    BY <2>2, <2>5 DEF CopyRight
  <2> QED
    BY <2>6, <2>7
<1>4. ASSUME UNCHANGED <<csv, wanted, undone, behind>>,
             \A q \in Runs : pc'[q] \in {"move", "copy"} =>
                 pc[q] \in {"move", "copy"} /\ copy'[q] = copy[q]
      PROVE  CsvRight' /\ CopyRight'
  <2>1. CsvRight'
    BY <1>4 DEF CsvRight
  <2>2. CopyRight'
    BY <1>4 DEF CopyRight
  <2> QED
    BY <2>1, <2>2
<1>5. ASSUME NEW p \in Runs, OpenCsv(p) \/ Ask(p) PROVE CsvRight' /\ CopyRight'
  BY <1>4, <1>5 DEF OpenCsv, Ask, Goto, files, ghosts, Types
<1>6. ASSUME NEW p \in Runs, Reread(p) PROVE CsvRight' /\ CopyRight'
  BY <1>4, <1>6 DEF Reread, Goto, files, ghosts, Types
<1>7. ASSUME NEW p \in Runs, Over(p), UNCHANGED <<csv, wanted, undone, behind>>
      PROVE  CsvRight' /\ CopyRight'
  BY <1>4, <1>7 DEF Over, Goto, Types
<1>8. ASSUME NEW p \in Runs, WriteLld(p) PROVE CsvRight' /\ CopyRight'
  <2>1. UNCHANGED <<csv, wanted, undone, behind>>
    BY <1>8 DEF WriteLld, files, ghosts
  <2>2. Over(p) \/ (Goto(p, "send") /\ UNCHANGED copy)
    BY <1>8 DEF WriteLld
  <2> QED
    BY <1>4, <1>7, <2>1, <2>2 DEF Goto, Types
<1>9. ASSUME NEW p \in Runs, Send(p) \/ Killed(p) PROVE CsvRight' /\ CopyRight'
  BY <1>7, <1>9 DEF Send, Killed, files, ghosts
<1>10. CASE UNCHANGED vars
  BY <1>4, <1>10 DEF vars, files, ghosts
<1> QED
  BY <1>1, <1>2, <1>3, <1>5, <1>6, <1>8, <1>9, <1>10 DEF Next, Rename, Copy

(* Emptied *)
LEMMA EmptiedStep == Types /\ Emptied /\ [Next]_vars => Emptied'
<1> SUFFICES ASSUME Types, Emptied, [Next]_vars PROVE Emptied'
  OBVIOUS
<1>1. ASSUME NEW p \in Runs, OpenCsv(p) PROVE Emptied'
  <2>1. ~sameFs /\ UNCHANGED sameFs /\ pc' = [pc EXCEPT ![p] = "copy"]
    BY <1>1 DEF OpenCsv, Goto
  <2>2. pc'[p] = "copy"
    BY <2>1 DEF Types
  <2> QED
    BY <2>1, <2>2 DEF Emptied
<1>2. ASSUME NEW p \in Runs, Replaced(p) PROVE Emptied'
  BY <1>2 DEF Replaced, Goto, Emptied, Types
<1>3. ASSUME NEW p \in Runs, Killed(p) PROVE Emptied'
  <2>1. /\ pc' = [pc EXCEPT ![p] = "off"] /\ hurt' = (hurt \/ pc[p] = "copy")
        /\ UNCHANGED <<sameFs, whole>>
    BY <1>3 DEF Killed, Over, Goto, files
  <2>2. \A q \in Runs : pc'[q] = IF q = p THEN "off" ELSE pc[q]
    BY <2>1 DEF Types
  <2>3. hurt' \/ (\E q \in Runs : pc'[q] = "copy") <=> hurt \/ (\E q \in Runs : pc[q] = "copy")
    <3>1. hurt' <=> hurt \/ pc[p] = "copy"
      BY <2>1
    <3> QED
      BY <2>2, <3>1
  <2> QED
    BY <2>1, <2>2, <2>3 DEF Emptied
<1>4. ASSUME UNCHANGED <<sameFs, whole, hurt>>,
             \A q \in Runs : pc'[q] = "copy" <=> pc[q] = "copy"
      PROVE  Emptied'
  BY <1>4 DEF Emptied
<1>5. ASSUME NEW p \in Runs, Read(p) \/ Reread(p) \/ Ask(p) \/ WriteLld(p) \/ Send(p)
      PROVE  Emptied'
  BY <1>4, <1>5 DEF Read, Reread, Ask, WriteLld, Send, Over, Goto, files, ghosts, Types
<1>6. ASSUME NEW r \in Row, SetPassword(r) PROVE Emptied'
  BY <1>4, <1>6 DEF SetPassword
<1>7. CASE UNCHANGED vars
  BY <1>4, <1>7 DEF vars, files, ghosts
<1> QED
  BY <1>1, <1>2, <1>3, <1>5, <1>6, <1>7 DEF Next, Rename, Copy
-----------------------------------------------------------------------------
(* The array *)

(* Asked *)
LEMMA AskedStep == Types /\ Asked /\ [Next]_vars => Asked'
<1> SUFFICES ASSUME Types, Asked, [Next]_vars PROVE Asked'
  OBVIOUS
<1>1. ASSUME NEW p \in Runs, Reread(p) PROVE Asked'
  <2>1. /\ row' = [row EXCEPT ![p] = IF whole THEN 1 ELSE NRows + 1]
        /\ unheard' = [unheard EXCEPT ![p] = IF whole THEN {} ELSE Machine]
        /\ UNCHANGED <<failed, found>> /\ pc' = [pc EXCEPT ![p] = "ask"]
    BY <1>1 DEF Reread, Goto
  <2>2. ASSUME NEW r \in Row, r < row'[p], NEW m \in Members[r] PROVE m \in unheard'[p]
    <3>1. CASE whole
      <4>1. row'[p] = 1
        BY <2>1, <3>1 DEF Types
      <4> QED
        BY <2>2, <4>1 DEF Row
    <3>2. CASE ~whole
      BY <2>1, <3>2 DEF Types, Machine
    <3> QED
      BY <3>1, <3>2
  <2>3. \A q \in Runs \ {p} : row'[q] = row[q] /\ unheard'[q] = unheard[q] /\ pc'[q] = pc[q]
    BY <2>1 DEF Types
  <2> QED
    BY <2>1, <2>2, <2>3 DEF Asked, Heard
<1>2. ASSUME NEW p \in Runs, Ask(p) PROVE Asked'
  <2>1. /\ row[p] \in Row /\ pc' = pc
        /\ row' = [row EXCEPT ![p] = row[p] + 1] /\ pc[p] = "ask"
    BY <1>2, RowsAssumption DEF Ask, Row, Types
  <2>2. PICK answer \in [Members[row[p]] -> Answers(p, row[p])] :
          /\ failed' = [failed EXCEPT ![p] = Counted(@,
                {m \in Members[row[p]] : answer[m] \in {"stderr", "raises"}} # {})]
          /\ found' = [found EXCEPT ![p] = @ \cup
                {Database[m] : m \in {n \in Members[row[p]] : answer[n] \in {"ok"}}}]
          /\ unheard' = [unheard EXCEPT ![p] = @ \cup
                {m \in Members[row[p]] : answer[m] \in {"nothing"}}]
    BY <1>2 DEF Ask
  <2>3. \A q \in Runs \ {p} : /\ row'[q] = row[q] /\ failed'[q] = failed[q]
                              /\ found'[q] = found[q] /\ unheard'[q] = unheard[q]
    BY <2>1, <2>2 DEF Types
  <2>4. ASSUME ~failed'[p], NEW r \in Row, r < row'[p], NEW m \in Members[r]
        PROVE  Heard(p, m)'
    <3>1. /\ ~failed[p]
          /\ {n \in Members[row[p]] : answer[n] \in {"stderr", "raises"}} = {}
      BY <2>2, <2>4 DEF Types, Counted
    <3>2. /\ found'[p] = found[p] \cup
                {Database[n] : n \in {k \in Members[row[p]] : answer[k] \in {"ok"}}}
          /\ unheard'[p] = unheard[p] \cup {n \in Members[row[p]] : answer[n] \in {"nothing"}}
      BY <2>2 DEF Types
    <3>3. CASE r = row[p]
      <4>1. answer[m] \in {"ok", "stderr", "raises", "nothing"}
        BY <2>2, <3>3 DEF Answers
      <4>2. answer[m] \in {"ok", "nothing"}
        BY <3>1, <3>3, <4>1
      <4> QED
        BY <3>2, <3>3, <4>2 DEF Heard
    <3>4. CASE r # row[p]
      <4>1. r < row[p]
        BY <2>1, <2>4, <3>4, RowsAssumption DEF Types, Row
      <4>2. Heard(p, m)
        BY <2>1, <3>1, <4>1 DEF Asked
      <4> QED
        BY <3>2, <4>2 DEF Heard
    <3> QED
      BY <3>3, <3>4
  <2> QED
    BY <2>1, <2>3, <2>4 DEF Asked, Heard
<1>3. ASSUME NEW p \in Runs, Over(p) PROVE Asked'
  <2>1. \A q \in Runs \ {p} : /\ row'[q] = row[q] /\ failed'[q] = failed[q] /\ pc'[q] = pc[q]
                              /\ found'[q] = found[q] /\ unheard'[q] = unheard[q]
    BY <1>3 DEF Over, Goto, Types
  <2>2. pc'[p] = "off"
    BY <1>3 DEF Over, Goto, Types
  <2> QED
    BY <2>1, <2>2 DEF Asked, Heard
<1>4. ASSUME UNCHANGED work, \A q \in Runs : pc'[q] = "ask" => pc[q] = "ask" PROVE Asked'
  BY <1>4 DEF work, Asked, Heard
<1>5. ASSUME NEW p \in Runs, Read(p) \/ Replaced(p) \/ OpenCsv(p) PROVE Asked'
  BY <1>4, <1>5 DEF Read, Replaced, OpenCsv, Goto, Types
<1>6. ASSUME NEW p \in Runs, WriteLld(p) \/ Send(p) \/ Killed(p) PROVE Asked'
  BY <1>3, <1>4, <1>6 DEF WriteLld, Send, Killed, Goto, Types
<1>7. ASSUME NEW r \in Row, SetPassword(r) PROVE Asked'
  BY <1>4, <1>7 DEF SetPassword
<1>8. CASE UNCHANGED vars
  BY <1>4, <1>8 DEF vars
<1> QED
  BY <1>1, <1>2, <1>5, <1>6, <1>7, <1>8 DEF Next, Rename, Copy

(* SentWhole *)
LEMMA SentStep == Types /\ Asked /\ SentWhole /\ [Next]_vars => SentWhole'
<1> SUFFICES ASSUME Types, Asked, SentWhole, [Next]_vars PROVE SentWhole'
  OBVIOUS
<1>1. ASSUME NEW p \in Runs, WriteLld(p), ~failed[p] PROVE SentWhole'
  <2>1. lld' = [dbs |-> found[p], unheard |-> unheard[p]]
    BY <1>1 DEF WriteLld
  <2>2. ASSUME NEW m \in Machine PROVE Heard(p, m)
    <3>1. PICK r \in Row : m \in Members[r]
      BY DEF Machine
    <3>2. r < row[p] /\ pc[p] = "ask"
      BY <1>1, RowsAssumption DEF WriteLld, Row, Types
    <3> QED
      BY <1>1, <3>1, <3>2 DEF Asked
  <2> QED
    BY <2>1, <2>2 DEF SentWhole, Heard
<1>2. ASSUME NEW p \in Runs, Send(p) PROVE SentWhole'
  <2>1. pc' = [pc EXCEPT ![p] = "off"]
        /\ lld' = IF \E o \in Runs \ {p} : pc[o] = "send" THEN lld ELSE NoArray
    BY <1>2 DEF Send, Over, Goto
  <2> QED
    BY <2>1 DEF SentWhole, Types
<1>3. ASSUME UNCHANGED lld, \A q \in Runs : pc'[q] = "send" => pc[q] = "send"
      PROVE  SentWhole'
  BY <1>3 DEF SentWhole
<1>4. ASSUME NEW p \in Runs, Read(p) \/ Replaced(p) \/ OpenCsv(p) \/ Reread(p) \/ Ask(p)
                             \/ Killed(p)
      PROVE  SentWhole'
  BY <1>3, <1>4 DEF Read, Replaced, OpenCsv, Reread, Ask, Killed, Over, Goto, Types
<1>5. ASSUME NEW p \in Runs, WriteLld(p), failed[p] PROVE SentWhole'
  BY <1>3, <1>5 DEF WriteLld, Over, Goto, Types
<1>6. ASSUME NEW r \in Row, SetPassword(r) PROVE SentWhole'
  BY <1>3, <1>6 DEF SetPassword
<1>7. CASE UNCHANGED vars
  BY <1>3, <1>7 DEF vars
<1> QED
  BY <1>1, <1>2, <1>4, <1>5, <1>6, <1>7 DEF Next, Rename, Copy
-----------------------------------------------------------------------------
(* The theorems *)

(* The invariant holds in every reachable state. *)
LEMMA DInvHolds == Spec => []DInv
<1>1. Init => DInv
  <2> SUFFICES ASSUME Init PROVE DInv
    OBVIOUS
  <2>1. CsvRight
    BY DEF Init, CsvRight, Says
  <2>2. \A p \in Runs : pc[p] = "off"
    BY DEF Init
  <2>3. CopyRight /\ Asked /\ SentWhole /\ Emptied
    BY <2>2 DEF Init, CopyRight, Asked, SentWhole, Emptied
  <2> QED
    BY TypesInit, <2>1, <2>3 DEF DInv
<1>2. DInv /\ [Next]_vars => DInv'
  BY TypesStep, RightStep, EmptiedStep, AskedStep, SentStep DEF DInv
<1> QED
  BY <1>1, <1>2, PTL DEF Spec

(* However many runs rewrite the csv while the user edits it, and wherever   *)
(* they die: a password is only lost to a copy older than its edit, and the  *)
(* csv is only empty while it is copied, or after a death in the copying     *)
(* (63-86).                                                                  *)
THEOREM PasswordIsKept == Spec => []PasswordKept
<1>1. DInv => PasswordKept
  BY DEF DInv, CsvRight, Says, Used, Emptied, PasswordKept
<1> QED
  BY DInvHolds, <1>1, PTL

(* A database is missing from what is sent only when nothing at all was heard*)
(* of its machines, whichever run wrote the file that is sent (321-330).     *)
THEOREM SentIsWhole == Spec => []SentWhole
<1>1. DInv => SentWhole
  BY DEF DInv
<1> QED
  BY DInvHolds, <1>1, PTL
=============================================================================
