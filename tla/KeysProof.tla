------------------------------ MODULE KeysProof ------------------------------
(* The cfg, its password and its keys, for any number of keys, passwords,    *)
(* edits and command-line processes that die anywhere.                       *)
EXTENDS Keys, WellFoundedInduction, TLAPS

(* One -g at a time makes a key, and only while there may be another. *)
Making(p) == at[p] = "gen" /\ pc[p] # "off"
OneGen ==
    /\ at[Monitor] \in {"main", "loop"} /\ \A p \in Clis : at[p] # "loop"
    /\ \A p \in Procs : pc[p] \in {"genkey", "writekey"} => Making(p)
    /\ \A p, q \in Clis : Making(p) /\ Making(q) => p = q
    /\ \A p \in Clis : Making(p) /\ pc[p] # "writekey" => made < MaxKeys

(* Keys do not go while somebody has a list of them. *)
Listings ==
    \A p \in Procs : pc[p] \in {"decrypt", "encrypt", "use"} => listed[p] \subseteq keys

(* What is encrypted with a whole key of the keysdir, or encoded. *)
Readable(enc) == enc.by = 0 \/ enc.by \in keys \ blank

(* A process that is not behind the user has what the user wants in hand, and*)
(* will be able to read it.                                                  *)
HasEnc(p) == mem[p].enc.of = wanted /\ Readable(mem[p].enc)
HasKey(p) == mem[p].enc.by \in listed[p] \cup {0}
CopyOf(p) ==
    p \notin overtaken /\ ~undone =>
        /\ pc[p] \in {"list1", "decrypt"} => HasEnc(p)
        /\ pc[p] = "decrypt" => HasKey(p)
        /\ pc[p] \in {"list2", "encrypt"} => mem[p].pw = wanted
        /\ pc[p] \in {"open", "write"} => tok[p].of = wanted
CopyRight == \A p \in Procs : CopyOf(p)

(* Whatever is about to be written can be read back. *)
TokenReadable == \A p \in Procs : pc[p] \in {"open", "write"} => Readable(tok[p])

(* While nothing changed since the monitor took its times, what it connects  *)
(* with is what the user wants.                                              *)
LoopRight ==
    /\ pc[Monitor] = "connected" => at[Monitor] = "loop"
    /\ at[Monitor] = "loop" /\ changed = {} /\ ~undone =>
         /\ pc[Monitor] \in {"list1", "decrypt", "list3", "use"} => HasEnc(Monitor)
         /\ pc[Monitor] \in {"decrypt", "use"} => HasKey(Monitor)
         /\ pc[Monitor] = "connected" => got = wanted

(* A cfg that is whole holds what the user wants, unless that was overwritten.*)
Kept == file = "whole" /\ ~undone => Meant = wanted /\ Decryptable

KInv == Listings /\ TokenReadable /\ CopyRight /\ Kept /\ LoopRight
-----------------------------------------------------------------------------
(* The keys *)

(* What Newest gives. *)
LEMMA NewestIsIn ==
    ASSUME NEW n \in Nat, NEW S \in SUBSET (0..n), S # {}
    PROVE  Newest(S) \in S /\ \A x \in S : x <= Newest(S)
<1> DEFINE Above == {m \in Nat : \A x \in S : x <= m}
<1>1. n \in Above
  OBVIOUS
<1>2. ASSUME NEW k \in Nat, NEW m \in Nat, k < m
      PROVE  <<k, m>> \in OpToRel(<, Nat)
  <2> DEFINE ss == <<k, m>>
  <2>1. ss \in Nat \X Nat /\ ss[1] = k /\ ss[2] = m
    OBVIOUS
  <2>2. ss[1] < ss[2]
    BY <2>1, <1>2
  <2> HIDE DEF ss
  <2>3. ss \in OpToRel(<, Nat)
    BY <2>1, <2>2 DEF OpToRel
  <2> QED
    BY <2>3 DEF ss
<1>3. PICK m \in Above : \A k \in Above : ~ (<<k, m>> \in OpToRel(<, Nat))
  <2>1. Above \subseteq Nat /\ Above # {}
    BY <1>1
  <2> HIDE DEF Above
  <2> QED
    BY <2>1, NatLessThanWellFounded, WFMin, Zenon
<1>4. m \in S
  <2>1. SUFFICES ASSUME m \notin S PROVE FALSE
    OBVIOUS
  <2>2. PICK x \in S : TRUE
    OBVIOUS
  <2>3. \A y \in S : y \in Nat /\ y <= m /\ y # m
    BY <2>1
  <2>4. x \in Nat /\ x <= m /\ x # m /\ m \in Nat
    BY <2>3
  <2>5. m - 1 \in Nat /\ m - 1 < m
    BY <2>4
  <2>6. \A y \in S : y <= m - 1
    BY <2>3, <2>4
  <2>7. m - 1 \in Above
    BY <2>5, <2>6
  <2> QED
    BY <1>2, <1>3, <2>4, <2>5, <2>7
<1>5. \E y \in S : \A x \in S : y >= x
  BY <1>4
<1>6. Newest(S) \in S /\ \A x \in S : Newest(S) >= x
  BY <1>5 DEF Newest, Max
<1> QED
  BY <1>6

(* Lists of keys have keys only, and are complete while nothing is deleted.  *)
LEMMA LoadedKeys ==
    ASSUME TypeOK, NEW p \in Procs
    PROVE  /\ load_keys(p) \in SUBSET (1..made) /\ load_keys(p) \in SUBSET (0..MaxKeys)
           /\ load_keys(p) \subseteq listed[p]
           /\ listed[p] \subseteq keys => load_keys(p) = listed[p]
<1>1. listed[p] \in SUBSET (1..made) /\ made \in 0..MaxKeys
  BY DEF TypeOK
<1>2. load_keys(p) \subseteq listed[p]
  BY DEF load_keys
<1>3. ASSUME listed[p] \subseteq keys PROVE load_keys(p) = listed[p]
  BY <1>3 DEF load_keys
<1>4. 1..made \subseteq 0..MaxKeys
  BY <1>1, BoundsAssumption
<1> QED
  BY <1>1, <1>2, <1>3, <1>4

(* What decrypted returns, in general ...                                    *)
LEMMA DecryptedType ==
    ASSUME NEW enc \in Enc, NEW ks
    PROVE  \A r \in decrypted(enc, ks) :
              r.ok \in BOOLEAN /\ r.t \in Text /\ r.rekey \in BOOLEAN
<1> DEFINE Out == [ok : BOOLEAN, t : Text, rekey : BOOLEAN]
<1>1. enc.of \in Text /\ NoPw \in Text /\ Garbage \in Text
  BY DEF Enc, Text
<1>2. NotDecryptable \in Out /\ \A t \in Text, b \in BOOLEAN : Plain(t, b) \in Out
  BY <1>1 DEF NotDecryptable, Plain
<1>3. /\ (enc.by = 0 /\ enc.of \notin Long) \in BOOLEAN
      /\ (enc.by # Newest(ks)) \in BOOLEAN
  OBVIOUS
<1> HIDE DEF Out
<1>4. decrypted(enc, ks) \subseteq Out
  BY <1>1, <1>2, <1>3 DEF decrypted
<1> QED
  BY <1>4 DEF Out

(* ... and for a text that is not empty, from a key that is there.           *)
LEMMA DecryptedRight ==
    ASSUME Long = {}, NEW enc \in Enc, NEW ks, enc.of # NoPw, enc.by \in ks \cup {0}
    PROVE  \A r \in decrypted(enc, ks) : r.ok => r.t = enc.of
  BY DEF decrypted, Plain, NotDecryptable

(* What encrypted returns. *)
LEMMA EncryptedType ==
    ASSUME NEW t \in Text, NEW ks \in SUBSET (0..MaxKeys)
    PROVE  /\ encrypted(t, ks) \in Enc /\ encrypted(t, ks).of = t
           /\ IF ks = {} THEN encrypted(t, ks).by = 0
              ELSE encrypted(t, ks).by = Newest(ks) /\ Newest(ks) \in ks
<1>1. CASE ks = {}
  BY <1>1, BoundsAssumption DEF encrypted, Base64, Enc
<1>2. CASE ks # {}
  <2>1. Newest(ks) \in ks
    BY <1>2, NewestIsIn, BoundsAssumption
  <2> QED
    BY <1>2, <2>1 DEF encrypted, Enc
<1> QED
  BY <1>1, <1>2
-----------------------------------------------------------------------------
(* Types *)

Places == {"off", "read", "list1", "decrypt", "list2", "encrypt", "open", "write",
           "list3", "use", "genkey", "writekey", "record0", "top", "connected"}

(* What a step of a process leaves of the types when it goes somewhere. *)
LEMMA GotoTypes ==
    ASSUME TypeOK, NEW p \in Procs, NEW where \in Places, Goto(p, where)
    PROVE  pc' \in [Procs -> Places]
  BY DEF TypeOK, Goto, Places

LEMMA RaiseTypes ==
    ASSUME TypeOK, NEW p \in Procs, Raise(p)
    PROVE  pc' \in [Procs -> Places]
  BY DEF TypeOK, Raise, Goto, Places

(* The variables of one process. *)
WorkTypes ==
    /\ pc \in [Procs -> Places]
    /\ at \in [Procs -> {"main", "loop", "show", "gen"}]
    /\ mem \in [Procs -> [pw : Text, enc : Enc]]
    /\ listed \in [Procs -> SUBSET (1..made)]
    /\ tok \in [Procs -> Enc]
(* The files, and what is known of them. *)
FileTypes ==
    /\ file \in {"whole", "empty", "mixed"}
    /\ cfg \in [pw : Text, enc : Enc]
    /\ keys \in SUBSET (1..made) /\ blank \in SUBSET (1..made) /\ made \in 0..MaxKeys
    /\ wanted \in Passwords /\ edits \in 0..MaxEdits /\ got \in Text
    /\ changed \in SUBSET {"cfg", "keys"} /\ overtaken \in SUBSET Procs
    /\ {undone, hurt, collided} \subseteq BOOLEAN

Typed == WorkTypes /\ FileTypes

LEMMA TypesAre == TypeOK <=> Typed
  BY DEF TypeOK, Typed, WorkTypes, FileTypes, Places

LEMMA TypesInit == Init => Typed /\ OneGen
<1> SUFFICES ASSUME Init PROVE Typed /\ OneGen
  OBVIOUS
<1>1. Base64(NoPw) \in Enc /\ NoPw \in Text
  BY BoundsAssumption DEF Base64, Enc, Text
<1>2. NoCfg \in [pw : Text, enc : Enc]
  BY <1>1 DEF NoCfg
<1>3. PICK w \in Passwords : wanted = w /\ cfg = [pw |-> w, enc |-> Base64(NoPw)]
  BY DEF Init
<1>4. cfg \in [pw : Text, enc : Enc]
  BY <1>1, <1>3 DEF Text
<1>5. keys = 1..made /\ made \in 0..MaxKeys
  BY BoundsAssumption DEF Init
<1>6. Typed
  <2>1. WorkTypes
    BY <1>1, <1>2 DEF Init, WorkTypes, Places
  <2>2. /\ file = "whole" /\ blank = {} /\ got = NoPw /\ changed = {} /\ overtaken = {}
        /\ undone = FALSE /\ hurt = FALSE /\ collided = FALSE /\ edits = 0
    BY DEF Init
  <2>3. edits \in 0..MaxEdits
    BY <2>2, BoundsAssumption
  <2>4. FileTypes
    BY <1>1, <1>3, <1>4, <1>5, <2>2, <2>3 DEF FileTypes
  <2> QED
    BY <2>1, <2>4 DEF Typed
<1>7. OneGen
  BY DEF Init, OneGen, Making, Procs
<1> QED
  BY <1>6, <1>7

(* The steps of get_config. *)
LEMMA GetConfigTypes ==
    ASSUME Typed, NEW p \in Procs, get_config(p)
    PROVE  Typed'
<1> USE TypesAre DEF Typed, WorkTypes, FileTypes
<1>1. AfterConfig(p) \in Places /\ Base64(NoPw) \in Enc /\ NoPw \in Text
  BY BoundsAssumption DEF AfterConfig, Places, Base64, Enc, Text
<1>2. CASE ReadCfg(p)
  <2>1. pc' \in [Procs -> Places]
    BY <1>2, GotoTypes, RaiseTypes DEF ReadCfg, Places
  <2>2. /\ mem' = [mem EXCEPT ![p] = cfg] \/ mem' = mem
        /\ overtaken' = overtaken \ {p}
        /\ UNCHANGED <<disk, wanted, edits, at, listed, tok, got, changed, undone, hurt,
                       collided>>
    BY <1>2 DEF ReadCfg
  <2> QED
    BY <2>1, <2>2 DEF disk
<1>3. ASSUME NEW from, NEW to \in Places, ListKeys(p, from, to) PROVE Typed'
  <2>1. pc' \in [Procs -> Places]
    BY <1>3, GotoTypes DEF ListKeys
  <2> QED
    BY <1>3, <2>1 DEF ListKeys, Listed, disk, ghosts
<1>4. CASE Decrypt(p)
  <2>1. PICK r \in decrypted(mem[p].enc, load_keys(p)) :
            /\ IF ~r.ok THEN Raise(p)
               ELSE Goto(p, IF r.rekey THEN "list2" ELSE AfterConfig(p))
            /\ mem' = IF r.rekey THEN [mem EXCEPT ![p].pw = r.t] ELSE mem
    BY <1>4 DEF Decrypt
  <2>2. mem[p].enc \in Enc /\ mem[p] \in [pw : Text, enc : Enc]
    OBVIOUS
  <2>3. r.t \in Text
    BY <2>2, DecryptedType
  <2>4. (IF r.rekey THEN "list2" ELSE AfterConfig(p)) \in Places
    BY <1>1 DEF Places
  <2>5. pc' \in [Procs -> Places]
    BY <2>1, <2>4, GotoTypes, RaiseTypes
  <2>6. mem' \in [Procs -> [pw : Text, enc : Enc]]
    BY <2>1, <2>2, <2>3
  <2>7. /\ listed' = [listed EXCEPT ![p] = {}]
        /\ UNCHANGED <<disk, wanted, edits, at, tok, got, changed, ghosts>>
    BY <1>4 DEF Decrypt, Listed
  <2> QED
    BY <2>5, <2>6, <2>7 DEF disk, ghosts
<1>5. CASE Encrypt(p)
  <2>1. pc' \in [Procs -> Places]
    BY <1>5, GotoTypes, RaiseTypes DEF Encrypt, Places
  <2>2. load_keys(p) \in SUBSET (0..MaxKeys)
    BY LoadedKeys
  <2>3. mem[p].pw \in Text
    OBVIOUS
  <2>4. encrypted(mem[p].pw, load_keys(p)) \in Enc
    BY <2>2, <2>3, EncryptedType
  <2>5. tok' \in [Procs -> Enc]
    BY <1>5, <2>4 DEF Encrypt
  <2>6. mem' \in [Procs -> [pw : Text, enc : Enc]]
    BY <1>1, <1>5 DEF Encrypt
  <2>7. /\ listed' = [listed EXCEPT ![p] = {}]
        /\ UNCHANGED <<disk, wanted, edits, at, got, changed, ghosts>>
    BY <1>5 DEF Encrypt, Listed
  <2> QED
    BY <2>1, <2>5, <2>6, <2>7 DEF disk, ghosts
<1>6. CASE Open(p)
  <2>1. pc' \in [Procs -> Places]
    BY <1>6, GotoTypes DEF Open, Places
  <2>2. collided' \in BOOLEAN
    BY <1>6 DEF Open
  <2> QED
    BY <1>6, <2>1, <2>2 DEF Open
<1>7. CASE Write(p)
  <2>1. pc' \in [Procs -> Places]
    BY <1>1, <1>7, GotoTypes DEF Write
  <2>2. file' \in {"whole", "empty", "mixed"} /\ cfg' \in [pw : Text, enc : Enc]
    BY <1>1, <1>7 DEF Write
  <2>3. /\ {undone', hurt'} \subseteq BOOLEAN /\ tok' \in [Procs -> Enc]
        /\ changed' \in SUBSET {"cfg", "keys"}
    BY <1>1, <1>7 DEF Write
  <2>4. UNCHANGED <<keys, blank, made, wanted, edits, at, mem, listed, got, overtaken,
                    collided>>
    BY <1>7 DEF Write
  <2> QED
    BY <2>1, <2>2, <2>3, <2>4
<1> QED
  BY <1>2, <1>3, <1>4, <1>5, <1>6, <1>7 DEF get_config, Places

(* The other steps of a process. *)
LEMMA OwnTypes ==
    ASSUME Typed, OneGen, NEW p \in Procs,
           UsePassword(p) \/ Genkey(p) \/ WriteKey(p)
    PROVE  Typed'
<1> USE TypesAre DEF Typed, WorkTypes, FileTypes
<1>1. CASE UsePassword(p)
  <2>1. PICK r \in decrypted(mem[p].enc, load_keys(p)) :
            /\ CASE ~r.ok -> Raise(p)
                 [] r.ok -> Goto(p, CASE at[p] = "main" -> "record0"
                                      [] at[p] = "loop" -> "connected"
                                      [] OTHER -> "off")
            /\ got' = IF r.ok /\ at[p] = "loop" THEN r.t ELSE got
    BY <1>1 DEF UsePassword
  <2>2. r.ok \in BOOLEAN /\ r.t \in Text
    BY DecryptedType
  <2>3. pc' \in [Procs -> Places]
    <3>1. (CASE at[p] = "main" -> "record0" [] at[p] = "loop" -> "connected"
             [] OTHER -> "off") \in Places
      BY DEF Places
    <3> QED
      BY <2>1, <2>2, <3>1, GotoTypes, RaiseTypes
  <2>4. got' \in Text
    BY <2>1, <2>2
  <2>5. NoCfg \in [pw : Text, enc : Enc]
    BY BoundsAssumption DEF NoCfg, Base64, Enc, Text
  <2>6. /\ listed' = [listed EXCEPT ![p] = {}] /\ mem' = [mem EXCEPT ![p] = NoCfg]
        /\ UNCHANGED <<disk, wanted, edits, at, tok, changed, ghosts>>
    BY <1>1 DEF UsePassword, Listed
  <2> QED
    BY <2>3, <2>4, <2>5, <2>6 DEF disk, ghosts
<1>2. CASE Genkey(p)
  <2>1. pc' \in [Procs -> Places]
    BY <1>2, GotoTypes DEF Genkey, Places
  <2>2. made < MaxKeys
    BY <1>2 DEF Genkey, OneGen, Making, Procs
  <2>3. made' = made + 1 /\ made' \in 0..MaxKeys /\ 1..made \subseteq 1..made'
    BY <1>2, <2>2, BoundsAssumption DEF Genkey
  <2>4. made + 1 \in 1..made'
    BY <2>3
  <2>5. keys' \in SUBSET (1..made') /\ blank' \in SUBSET (1..made')
    BY <1>2, <2>3, <2>4 DEF Genkey
  <2>6. listed' \in [Procs -> SUBSET (1..made')]
    BY <1>2, <2>3 DEF Genkey
  <2>7. /\ changed' \in SUBSET {"cfg", "keys"}
        /\ UNCHANGED <<file, cfg, wanted, edits, at, mem, tok, got, ghosts>>
    BY <1>2 DEF Genkey
  <2> QED
    BY <2>1, <2>3, <2>5, <2>6, <2>7 DEF ghosts
<1>3. CASE WriteKey(p)
  <2>1. pc' \in [Procs -> Places]
    BY <1>3, GotoTypes DEF WriteKey, Places
  <2> QED
    BY <1>3, <2>1 DEF WriteKey, ghosts
<1> QED
  BY <1>1, <1>2, <1>3

(* And what happens around them. *)
LEMMA AroundTypes ==
    ASSUME Typed,
           \/ Start \/ Record0 \/ Top \/ Watch \/ Lost \/ SetPassword
           \/ \E p \in Clis : RunCli(p)
           \/ \E k \in keys : DeleteKey(k)
           \/ \E p \in Procs : Crash(p)
           \/ UNCHANGED vars
    PROVE  Typed'
<1> USE TypesAre DEF Typed, WorkTypes, FileTypes
<1>1. Monitor \in Procs
  BY DEF Procs
<1>2. ASSUME NEW p \in Procs, NEW who \in {"main", "loop", "show", "gen"}, Call(p, who),
             changed' \in SUBSET {"cfg", "keys"}
      PROVE  Typed'
  <2>1. pc' \in [Procs -> Places]
    BY <1>2, GotoTypes DEF Call, Places
  <2> QED
    BY <1>2, <2>1 DEF Call, disk, ghosts
<1>3. CASE Start \/ Top \/ \E p \in Clis : RunCli(p)
  BY <1>1, <1>2, <1>3 DEF Start, Top, RunCli, Procs
<1>4. CASE Record0
  <2>1. pc' \in [Procs -> Places]
    BY <1>1, <1>4, GotoTypes DEF Record0, Places
  <2> QED
    BY <1>4, <2>1 DEF Record0, disk, ghosts
<1>5. ASSUME Goto(Monitor, "top"),
             UNCHANGED <<disk, wanted, edits, at, mem, listed, tok, got, changed, ghosts>>
      PROVE  Typed'
  <2>1. pc' \in [Procs -> Places]
    BY <1>1, <1>5, GotoTypes DEF Places
  <2> QED
    BY <1>5, <2>1 DEF disk, ghosts
<1>6. CASE Watch \/ Lost
  BY <1>1, <1>2, <1>5, <1>6 DEF Watch, Lost
<1>7. CASE SetPassword
  <2>1. PICK w \in Passwords : wanted' = w /\ cfg' = [cfg EXCEPT !.pw = w]
    BY <1>7 DEF SetPassword
  <2>2. cfg' \in [pw : Text, enc : Enc]
    BY <2>1 DEF Text
  <2>3. edits' \in 0..MaxEdits
    BY <1>7, BoundsAssumption DEF SetPassword
  <2>4. /\ changed' \in SUBSET {"cfg", "keys"} /\ overtaken' \in SUBSET Procs
        /\ undone' \in BOOLEAN
        /\ UNCHANGED <<file, keys, blank, made, pc, at, mem, listed, tok, got, hurt,
                       collided>>
    BY <1>7 DEF SetPassword
  <2> QED
    BY <2>1, <2>2, <2>3, <2>4
<1>8. ASSUME NEW k \in keys, DeleteKey(k) PROVE Typed'
  BY <1>8 DEF DeleteKey, ghosts
<1>9. ASSUME NEW p \in Procs, Crash(p) PROVE Typed'
  <2>1. pc' \in [Procs -> Places]
    BY <1>9, GotoTypes DEF Crash, Places
  <2>2. NoCfg \in [pw : Text, enc : Enc] /\ Base64(NoPw) \in Enc
    BY BoundsAssumption DEF NoCfg, Base64, Enc, Text
  <2>3. /\ listed' = [listed EXCEPT ![p] = {}] /\ mem' = [mem EXCEPT ![p] = NoCfg]
        /\ tok' = [tok EXCEPT ![p] = Base64(NoPw)]
        /\ UNCHANGED <<disk, wanted, edits, at, got, changed, overtaken, undone,
                       collided>>
    BY <1>9 DEF Crash, Listed
  <2>4. hurt' \in BOOLEAN
    BY <1>9 DEF Crash
  <2> QED
    BY <2>1, <2>2, <2>3, <2>4 DEF disk
<1>10. CASE UNCHANGED vars
  BY <1>10 DEF vars, disk, ghosts
<1> QED
  BY <1>3, <1>4, <1>6, <1>7, <1>8, <1>9, <1>10

(* No step of get_config or of the decryption after it starts a -g, or ends  *)
(* the making of a key.                                                      *)
Inside(p) ==
    /\ at' = at /\ made' = made
    /\ pc[p] \notin {"off", "writekey"}
    /\ \E where \in Places \ {"writekey"} :
         Goto(p, where) /\ (where = "genkey" => at[p] = "gen")

LEMMA RaiseIsInside ==
    ASSUME NEW p \in Procs, Raise(p)
    PROVE  \E where \in Places \ {"writekey", "genkey"} : Goto(p, where)
  BY DEF Raise, Places

LEMMA UseGoes ==
    ASSUME Typed, NEW p \in Procs, UsePassword(p)
    PROVE  Raise(p) \/ \E where \in {"record0", "connected", "off"} : Goto(p, where)
<1>1. PICK r \in decrypted(mem[p].enc, load_keys(p)) :
          CASE ~r.ok -> Raise(p)
            [] r.ok -> Goto(p, CASE at[p] = "main" -> "record0"
                                 [] at[p] = "loop" -> "connected"
                                 [] OTHER -> "off")
  BY DEF UsePassword
<1>2. mem[p].enc \in Enc
  BY DEF Typed, WorkTypes
<1>3. r.ok \in BOOLEAN
  BY <1>2, DecryptedType
<1>4. (CASE at[p] = "main" -> "record0" [] at[p] = "loop" -> "connected"
         [] OTHER -> "off") \in {"record0", "connected", "off"}
  OBVIOUS
<1> QED
  BY <1>1, <1>3, <1>4

LEMMA GetConfigInside ==
    ASSUME Typed, NEW p \in Procs,
           get_config(p) \/ ListKeys(p, "list3", "use") \/ UsePassword(p)
    PROVE  Inside(p)
<1> USE DEF Places
<1>1. AfterConfig(p) \in Places \ {"writekey"} /\ (AfterConfig(p) = "genkey" => at[p] = "gen")
  BY DEF AfterConfig
<1>2. CASE ReadCfg(p)
  BY <1>2, RaiseIsInside DEF ReadCfg, Inside, disk
<1>3. CASE \/ ListKeys(p, "list1", "decrypt") \/ ListKeys(p, "list2", "encrypt")
           \/ ListKeys(p, "list3", "use")
  BY <1>3 DEF ListKeys, Inside, disk
<1>4. CASE Decrypt(p)
  <2>1. PICK r \in decrypted(mem[p].enc, load_keys(p)) :
            IF ~r.ok THEN Raise(p)
            ELSE Goto(p, IF r.rekey THEN "list2" ELSE AfterConfig(p))
    BY <1>4 DEF Decrypt
  <2>2. pc[p] = "decrypt" /\ at' = at /\ made' = made
    BY <1>4 DEF Decrypt, disk
  <2> QED
    BY <1>1, <2>1, <2>2, RaiseIsInside DEF Inside
<1>5. CASE Encrypt(p)
  BY <1>5, RaiseIsInside DEF Encrypt, Inside, disk
<1>6. CASE Open(p)
  BY <1>6 DEF Open, Inside
<1>7. CASE Write(p)
  BY <1>1, <1>7 DEF Write, Inside
<1>8. CASE UsePassword(p)
  <2>1. Raise(p) \/ \E where \in {"record0", "connected", "off"} : Goto(p, where)
    BY <1>8, UseGoes
  <2>2. pc[p] = "use" /\ at' = at /\ made' = made
    BY <1>8 DEF UsePassword, disk
  <2> QED
    BY <2>1, <2>2, RaiseIsInside DEF Inside
<1> QED
  BY <1>2, <1>3, <1>4, <1>5, <1>6, <1>7, <1>8 DEF get_config

LEMMA OneGenStep == Typed /\ OneGen /\ [Next]_vars => OneGen'
<1> SUFFICES ASSUME Typed, OneGen, [Next]_vars PROVE OneGen'
  OBVIOUS
<1> USE DEF OneGen, Making
<1>0. /\ pc \in [Procs -> Places] /\ at \in [Procs -> {"main", "loop", "show", "gen"}]
      /\ made \in 0..MaxKeys /\ Monitor \in Procs /\ Clis \subseteq Procs /\ Monitor \notin Clis
  BY ProcAssumption DEF Typed, WorkTypes, FileTypes, Procs
<1>1. ASSUME NEW p \in Procs, Inside(p) PROVE OneGen'
  BY <1>0, <1>1 DEF Inside, Goto
<1>2. ASSUME NEW p \in Procs, Genkey(p) PROVE OneGen'
  <2>1. pc[p] = "genkey" /\ p \in Clis /\ pc' = [pc EXCEPT ![p] = "writekey"] /\ at' = at
    BY <1>0, <1>2 DEF Genkey, Goto, Procs
  <2>2. \A q \in Clis : Making(q) => q = p
    BY <1>0, <2>1
  <2> QED
    BY <1>0, <2>1, <2>2
<1>3. ASSUME NEW p \in Procs, WriteKey(p) PROVE OneGen'
  BY <1>0, <1>3 DEF WriteKey, Goto
<1>4. ASSUME NEW p \in Clis, RunCli(p) PROVE OneGen'
  <2>1. pc[p] = "off" /\ made' = made /\ pc' = [pc EXCEPT ![p] = "read"]
    BY <1>4 DEF RunCli, Call, Goto, disk
  <2>2. CASE at' = [at EXCEPT ![p] = "show"]
    BY <1>0, <2>1, <2>2
  <2>3. CASE /\ at' = [at EXCEPT ![p] = "gen"] /\ made < MaxKeys
             /\ \A c \in Clis : pc[c] # "off" => at[c] # "gen"
    BY <1>0, <2>1, <2>3
  <2> QED
    BY <1>4, <2>2, <2>3 DEF RunCli, Call
<1>5. CASE Start \/ Record0 \/ Top \/ Watch \/ Lost
  BY <1>0, <1>5 DEF Start, Record0, Top, Watch, Lost, Call, Goto, disk
<1>6. CASE SetPassword \/ (\E k \in keys : DeleteKey(k)) \/ UNCHANGED vars
  BY <1>6 DEF SetPassword, DeleteKey, vars, disk
<1>7. ASSUME NEW p \in Procs, Crash(p) PROVE OneGen'
  BY <1>0, <1>7 DEF Crash, Goto, disk
<1> QED
  BY <1>0, <1>1, <1>2, <1>3, <1>4, <1>5, <1>6, <1>7, GetConfigInside
     DEF Next, MonitorSteps, CliSteps

LEMMA TypesStep == Typed /\ OneGen /\ [Next]_vars => Typed'
<1> SUFFICES ASSUME Typed, OneGen, [Next]_vars PROVE Typed'
  OBVIOUS
<1>1. Monitor \in Procs /\ Clis \subseteq Procs
  BY DEF Procs
<1>2. ASSUME NEW p \in Procs, ListKeys(p, "list3", "use") PROVE Typed'
  <2>1. pc' \in [Procs -> Places]
    BY <1>2, TypesAre, GotoTypes DEF ListKeys, Places
  <2> QED
    BY <1>2, <2>1 DEF ListKeys, Listed, disk, ghosts, Typed, WorkTypes, FileTypes
<1> QED
  BY <1>1, <1>2, GetConfigTypes, OwnTypes, AroundTypes
     DEF Next, MonitorSteps, CliSteps
-----------------------------------------------------------------------------
(* What broke the cfg *)

(* Who opened the cfg alone has it empty until the write. *)
OpenedAlone ==
    \A p \in Procs : pc[p] = "write" /\ ~collided =>
        file = "empty" /\ \A q \in Procs : pc[q] = "write" => q = p

BInv == BrokenWithCause /\ OpenedAlone

LEMMA BrokenStep == Typed /\ BInv /\ [Next]_vars => BInv'
<1> SUFFICES ASSUME Typed, BInv, [Next]_vars PROVE BInv'
  OBVIOUS
<1> USE DEF BInv, BrokenWithCause, Excused, OpenedAlone
<1>0. /\ pc \in [Procs -> Places] /\ Monitor \in Procs /\ Clis \subseteq Procs
      /\ file \in {"whole", "empty", "mixed"} /\ {undone, hurt, collided} \subseteq BOOLEAN
  BY DEF Typed, WorkTypes, FileTypes, Procs
<1>1. ASSUME NEW p \in Procs, Open(p) PROVE BInv'
  <2>1. /\ file' = "empty" /\ pc' = [pc EXCEPT ![p] = "write"]
        /\ collided' = \E q \in Procs \ {p} : pc[q] = "write"
    BY <1>1 DEF Open, Goto
  <2> QED
    BY <1>0, <2>1
<1>2. ASSUME NEW p \in Procs, Write(p) PROVE BInv'
  <2>1. /\ pc[p] = "write" /\ file' \in {"whole", "mixed"} /\ collided' = collided
        /\ file' = "mixed" => file \in {"whole", "mixed"}
    BY <1>2 DEF Write
  <2>2. pc' = [pc EXCEPT ![p] = AfterConfig(p)] /\ AfterConfig(p) # "write"
    BY <1>2 DEF Write, Goto, AfterConfig
  <2>3. file' = "mixed" => collided'
    BY <1>0, <2>1
  <2>4. OpenedAlone'
    BY <1>0, <2>1, <2>2
  <2> QED
    BY <2>1, <2>3, <2>4
<1>3. ASSUME NEW p \in Procs, Crash(p) PROVE BInv'
  <2>1. /\ file' = file /\ hurt' = (hurt \/ pc[p] = "write") /\ collided' = collided
        /\ pc' = [pc EXCEPT ![p] = "off"]
    BY <1>3 DEF Crash, Goto, disk
  <2> QED
    BY <1>0, <2>1
<1>4. ASSUME NEW p \in Procs, pc[p] # "write", UNCHANGED <<file, hurt, collided>>,
             Raise(p) \/ \E where : where # "write" /\ Goto(p, where)
      PROVE  BInv'
  <2>1. \A q \in Procs : pc'[q] = "write" <=> pc[q] = "write"
    BY <1>0, <1>4 DEF Raise, Goto
  <2> QED
    BY <1>0, <1>4, <2>1
<1>5. ASSUME NEW p \in Procs,
             ReadCfg(p) \/ Encrypt(p) \/ Genkey(p) \/ WriteKey(p)
             \/ ListKeys(p, "list1", "decrypt") \/ ListKeys(p, "list2", "encrypt")
             \/ ListKeys(p, "list3", "use")
      PROVE  BInv'
  BY <1>4, <1>5 DEF ReadCfg, Encrypt, Genkey, WriteKey, ListKeys, disk, ghosts
<1>6. ASSUME NEW p \in Procs, Decrypt(p) \/ UsePassword(p) PROVE BInv'
  <2>1. Raise(p) \/ \E where : where # "write" /\ Goto(p, where)
    <3>1. CASE Decrypt(p)
      BY <3>1 DEF Decrypt, AfterConfig
    <3>2. CASE UsePassword(p)
      BY <3>2, UseGoes
    <3> QED
      BY <1>6, <3>1, <3>2
  <2>2. pc[p] # "write" /\ UNCHANGED <<file, hurt, collided>>
    BY <1>6 DEF Decrypt, UsePassword, disk, ghosts
  <2> QED
    BY <1>4, <2>1, <2>2
<1>7. CASE Start \/ Record0 \/ Top \/ Watch \/ Lost \/ \E p \in Clis : RunCli(p)
  BY <1>0, <1>4, <1>7 DEF Start, Record0, Top, Watch, Lost, RunCli, Call, disk, ghosts
<1>8. CASE SetPassword \/ (\E k \in keys : DeleteKey(k)) \/ UNCHANGED vars
  BY <1>8 DEF SetPassword, DeleteKey, vars, disk, ghosts
<1> QED
  BY <1>0, <1>1, <1>2, <1>3, <1>5, <1>6, <1>7, <1>8
     DEF Next, MonitorSteps, CliSteps, get_config
-----------------------------------------------------------------------------
(* Keys and lists of them *)

(* Keys are only deleted while nobody has anything in hand. *)
LEMMA DeletedIdle ==
    ASSUME Deletes # "any", NEW k, DeleteKey(k)
    PROVE  \A p \in Procs : pc[p] \in {"off", "top", "connected"}
  BY DEF DeleteKey, Idle

(* All else leaves the keys that can be used. *)
LEMMA KeysStay ==
    ASSUME Typed, [Next]_vars, ~(\E k \in keys : DeleteKey(k))
    PROVE  keys \subseteq keys' /\ keys \ blank \subseteq keys' \ blank'
<1>1. keys \in SUBSET (1..made) /\ made \in Nat
  BY BoundsAssumption DEF Typed, FileTypes
<1>2. ASSUME NEW p \in Procs, Genkey(p)
      PROVE  keys \subseteq keys' /\ keys \ blank \subseteq keys' \ blank'
  <2>1. \A k \in keys : k # made + 1
    BY <1>1
  <2> QED
    BY <1>2, <2>1 DEF Genkey
<1>3. ASSUME NEW p \in Procs, WriteKey(p)
      PROVE  keys \subseteq keys' /\ keys \ blank \subseteq keys' \ blank'
  BY <1>3 DEF WriteKey
<1>4. ASSUME NEW p \in Procs, get_config(p) \/ ListKeys(p, "list3", "use") \/ UsePassword(p)
      PROVE  UNCHANGED <<keys, blank>>
  BY <1>4 DEF get_config, ReadCfg, ListKeys, Decrypt, Encrypt, Open, Write, UsePassword, disk
<1>5. ASSUME \/ Start \/ Record0 \/ Top \/ Watch \/ Lost \/ SetPassword
             \/ \E p \in Clis : RunCli(p)
             \/ \E p \in Procs : Crash(p)
             \/ UNCHANGED vars
      PROVE  UNCHANGED <<keys, blank>>
  BY <1>5 DEF Start, Record0, Top, Watch, Lost, SetPassword, RunCli, Call, Crash, vars, disk
<1> QED
  BY <1>2, <1>3, <1>4, <1>5 DEF Next, MonitorSteps, CliSteps, Procs

LEMMA ReadableStays ==
    ASSUME Typed, [Next]_vars, ~(\E k \in keys : DeleteKey(k)), NEW enc, Readable(enc)
    PROVE  enc.by = 0 \/ enc.by \in keys' \ blank'
  BY KeysStay DEF Readable

LEMMA ListingsStep ==
    Deletes # "any" => (Typed /\ Listings /\ [Next]_vars => Listings')
<1> SUFFICES ASSUME Deletes # "any", Typed, Listings, [Next]_vars PROVE Listings'
  OBVIOUS
<1> USE DEF Listings
<1>0. /\ pc \in [Procs -> Places] /\ listed \in [Procs -> SUBSET (1..made)]
      /\ Monitor \in Procs /\ Clis \subseteq Procs
  BY DEF Typed, WorkTypes, Procs
<1>1. CASE \E k \in keys : DeleteKey(k)
  BY <1>1, DeletedIdle DEF DeleteKey
<1>2. CASE ~(\E k \in keys : DeleteKey(k))
  <2>0. keys \subseteq keys'
    BY <1>2, KeysStay
  <2>1. ASSUME NEW p \in Procs, NEW where,
               Goto(p, where), where \notin {"decrypt", "encrypt", "use"},
               listed' = listed \/ listed' = [listed EXCEPT ![p] = {}]
        PROVE  Listings'
    BY <1>0, <2>0, <2>1 DEF Goto
  <2>2. ASSUME NEW p \in Procs, Raise(p), listed' = listed \/ listed' = [listed EXCEPT ![p] = {}]
        PROVE  Listings'
    BY <2>1, <2>2 DEF Raise
  <2>3. ASSUME NEW p \in Procs, NEW from, NEW to, ListKeys(p, from, to) PROVE Listings'
    <3>1. /\ pc' = [pc EXCEPT ![p] = to] /\ listed' = [listed EXCEPT ![p] = keys]
          /\ keys' = keys
      BY <2>3 DEF ListKeys, Goto, Listed, disk
    <3> QED
      BY <1>0, <3>1
  <2>4. ASSUME NEW p \in Procs,
               ReadCfg(p) \/ Encrypt(p) \/ Open(p) \/ Write(p) \/ Genkey(p)
               \/ WriteKey(p) \/ Crash(p)
        PROVE  Listings'
    BY <2>1, <2>2, <2>4
       DEF ReadCfg, Encrypt, Open, Write, Genkey, WriteKey, Crash, Listed, AfterConfig
  <2>5. ASSUME NEW p \in Procs, Decrypt(p) PROVE Listings'
    <3>1. Raise(p) \/ Goto(p, "list2") \/ Goto(p, AfterConfig(p))
      BY <2>5 DEF Decrypt
    <3>2. listed' = [listed EXCEPT ![p] = {}]
      BY <2>5 DEF Decrypt, Listed
    <3> QED
      BY <2>1, <2>2, <3>1, <3>2 DEF AfterConfig
  <2>6. ASSUME NEW p \in Procs, UsePassword(p) PROVE Listings'
    <3>1. listed' = [listed EXCEPT ![p] = {}] /\ pc[p] = "use"
      BY <2>6 DEF UsePassword, Listed
    <3>2. PICK where \in Places : Goto(p, where)
      BY <2>6, GetConfigInside DEF Inside
    <3> QED
      BY <1>0, <2>0, <3>1, <3>2 DEF Goto
  <2>7. CASE Start \/ Record0 \/ Top \/ Watch \/ Lost \/ \E p \in Clis : RunCli(p)
    BY <1>0, <2>1, <2>7 DEF Start, Record0, Top, Watch, Lost, RunCli, Call
  <2>8. CASE SetPassword \/ UNCHANGED vars
    BY <2>0, <2>8 DEF SetPassword, vars
  <2> QED
    BY <1>0, <1>2, <2>3, <2>4, <2>5, <2>6, <2>7, <2>8
       DEF Next, MonitorSteps, CliSteps, get_config
<1> QED
  BY <1>1, <1>2
-----------------------------------------------------------------------------
(* Passwords *)

(* What encrypts leaves can be read, and is what was encrypted. *)
LEMMA EncryptGives ==
    ASSUME Typed, Listings, NEW p \in Procs, Encrypt(p)
    PROVE  \/ Raise(p)
           \/ /\ Goto(p, "open") /\ tok'[p].of = mem[p].pw
              /\ tok' = [tok EXCEPT ![p] = tok'[p]] /\ Readable(tok'[p])
<1> DEFINE ks == load_keys(p)
           new == encrypted(mem[p].pw, ks)
<1>1. /\ pc[p] = "encrypt" /\ mem[p].pw \in Text /\ tok \in [Procs -> Enc]
      /\ listed[p] \subseteq keys
  BY DEF Encrypt, Typed, WorkTypes, Listings
<1>2. ks \in SUBSET (0..MaxKeys) /\ ks \subseteq keys
  BY <1>1, TypesAre, LoadedKeys
<1>3. CASE ~(ks # {} /\ Newest(ks) \in blank)
  <2> HIDE DEF ks
  <2>1. /\ new \in Enc /\ new.of = mem[p].pw
        /\ IF ks = {} THEN new.by = 0 ELSE new.by = Newest(ks) /\ Newest(ks) \in ks
    BY <1>1, <1>2, EncryptedType
  <2>2. Readable(new)
    BY <1>2, <1>3, <2>1 DEF Readable
  <2>3. Goto(p, "open") /\ tok' = [tok EXCEPT ![p] = new]
    BY <1>3 DEF Encrypt, ks
  <2> HIDE DEF new
  <2>4. tok'[p] = new
    BY <1>1, <2>3
  <2> QED
    BY <2>1, <2>2, <2>3, <2>4
<1>4. CASE ks # {} /\ Newest(ks) \in blank
  BY <1>4 DEF Encrypt
<1> QED
  BY <1>3, <1>4

LEMMA TokenStep ==
    Deletes # "any" =>
        (Typed /\ Listings /\ TokenReadable /\ [Next]_vars => TokenReadable')
<1> SUFFICES ASSUME Deletes # "any", Typed, Listings, TokenReadable, [Next]_vars
             PROVE  TokenReadable'
  OBVIOUS
<1> USE DEF TokenReadable
<1>0. /\ pc \in [Procs -> Places] /\ tok \in [Procs -> Enc]
      /\ Monitor \in Procs /\ Clis \subseteq Procs
  BY DEF Typed, WorkTypes, Procs
<1>1. CASE \E k \in keys : DeleteKey(k)
  BY <1>1, DeletedIdle DEF DeleteKey
<1>2. CASE ~(\E k \in keys : DeleteKey(k))
  <2>1. ASSUME NEW p \in Procs, \A q \in Procs \ {p} : pc'[q] = pc[q] /\ tok'[q] = tok[q],
               pc'[p] \in {"open", "write"} => Readable(tok'[p])
        PROVE  TokenReadable'
    BY <1>2, <2>1, ReadableStays DEF Readable
  <2>2. ASSUME NEW p \in Procs, NEW where, Goto(p, where), tok' = tok,
               where \in {"open", "write"} => pc[p] \in {"open", "write"}
        PROVE  TokenReadable'
    BY <1>0, <2>1, <2>2 DEF Goto
  <2>3. ASSUME NEW p \in Procs, Raise(p), tok' = tok PROVE TokenReadable'
    BY <2>2, <2>3 DEF Raise
  <2>4. ASSUME NEW p \in Procs, Encrypt(p) PROVE TokenReadable'
    <3>1. CASE Raise(p)
      <4>1. \A q \in Procs \ {p} : pc'[q] = pc[q] /\ tok'[q] = tok[q]
        BY <1>0, <2>4, <3>1 DEF Encrypt, Raise, Goto
      <4>2. pc'[p] \notin {"open", "write"}
        BY <1>0, <3>1 DEF Raise, Goto
      <4> QED
        BY <2>1, <4>1, <4>2
    <3>2. CASE /\ Goto(p, "open") /\ tok' = [tok EXCEPT ![p] = tok'[p]]
               /\ Readable(tok'[p])
      BY <1>0, <2>1, <3>2 DEF Goto
    <3> QED
      BY <2>4, <3>1, <3>2, EncryptGives
  <2>5. ASSUME NEW p \in Procs, Write(p) \/ Crash(p) PROVE TokenReadable'
    <3>1. PICK where \in Places \ {"open", "write"} : Goto(p, where)
      BY <2>5 DEF Write, Crash, AfterConfig, Places
    <3>2. tok' = [tok EXCEPT ![p] = Base64(NoPw)]
      BY <2>5 DEF Write, Crash
    <3> QED
      BY <1>0, <2>1, <3>1, <3>2 DEF Goto
  <2>6. ASSUME NEW p \in Procs, Decrypt(p) PROVE TokenReadable'
    <3>1. Raise(p) \/ Goto(p, "list2") \/ Goto(p, AfterConfig(p))
      BY <2>6 DEF Decrypt
    <3>2. tok' = tok
      BY <2>6 DEF Decrypt
    <3> QED
      BY <2>2, <2>3, <3>1, <3>2 DEF AfterConfig
  <2>7. ASSUME NEW p \in Procs, UsePassword(p) PROVE TokenReadable'
    <3>1. tok' = tok
      BY <2>7 DEF UsePassword
    <3>2. Raise(p) \/ \E where \in {"record0", "connected", "off"} : Goto(p, where)
      BY <2>7, UseGoes
    <3> QED
      BY <2>2, <2>3, <3>1, <3>2
  <2>8. ASSUME NEW p \in Procs,
               \/ ReadCfg(p) \/ Open(p) \/ Genkey(p) \/ WriteKey(p)
               \/ ListKeys(p, "list1", "decrypt") \/ ListKeys(p, "list2", "encrypt")
               \/ ListKeys(p, "list3", "use")
        PROVE  TokenReadable'
    BY <2>2, <2>3, <2>8 DEF ReadCfg, Open, Genkey, WriteKey, ListKeys
  <2>9. CASE Start \/ Record0 \/ Top \/ Watch \/ Lost \/ \E p \in Clis : RunCli(p)
    BY <1>0, <2>2, <2>9 DEF Start, Record0, Top, Watch, Lost, RunCli, Call
  <2>10. CASE SetPassword \/ UNCHANGED vars
    <3>1. pc' = pc /\ tok' = tok
      BY <2>10 DEF SetPassword, vars
    <3> QED
      BY <1>0, <1>2, <3>1, ReadableStays DEF Readable
  <2> QED
    BY <1>0, <1>2, <2>4, <2>5, <2>6, <2>7, <2>8, <2>9, <2>10
       DEF Next, MonitorSteps, CliSteps, get_config
<1> QED
  BY <1>1, <1>2

(* Only an edit changes what is wanted, and only an edit clears "undone".    *)
LEMMA WantedStays ==
    ASSUME [Next]_vars, ~SetPassword
    PROVE  wanted' = wanted /\ (undone => undone')
<1>1. ASSUME NEW p \in Procs, Write(p)
      PROVE  wanted' = wanted /\ (undone => undone')
  <2>1. wanted' = wanted /\ undone' = (undone \/ p \in overtaken)
    BY <1>1 DEF Write
  <2> QED
    BY <2>1
<1>2. ASSUME NEW p \in Procs,
             \/ ReadCfg(p) \/ Decrypt(p) \/ Encrypt(p) \/ Open(p) \/ UsePassword(p)
             \/ ListKeys(p, "list1", "decrypt") \/ ListKeys(p, "list2", "encrypt")
             \/ ListKeys(p, "list3", "use") \/ Genkey(p) \/ WriteKey(p) \/ Crash(p)
      PROVE  UNCHANGED <<wanted, undone>>
  BY <1>2 DEF ReadCfg, Decrypt, Encrypt, Open, UsePassword, ListKeys, Genkey, WriteKey,
              Crash, ghosts
<1>3. ASSUME \/ Start \/ Record0 \/ Top \/ Watch \/ Lost
             \/ \E p \in Clis : RunCli(p)
             \/ \E k \in keys : DeleteKey(k)
             \/ UNCHANGED vars
      PROVE  UNCHANGED <<wanted, undone>>
  BY <1>3 DEF Start, Record0, Top, Watch, Lost, RunCli, Call, DeleteKey, vars, ghosts
<1> QED
  BY <1>1, <1>2, <1>3 DEF Next, MonitorSteps, CliSteps, get_config, Procs

LEMMA KeptStep ==
    Deletes # "any" /\ Long = {} =>
        (Typed /\ TokenReadable /\ CopyRight /\ Kept /\ [Next]_vars => Kept')
<1> SUFFICES ASSUME Deletes # "any", Long = {}, Typed, TokenReadable, CopyRight,
                    Kept, [Next]_vars
             PROVE  Kept'
  OBVIOUS
<1> USE DEF Kept
<1>1. ASSUME NEW p \in Procs, Open(p) PROVE Kept'
  BY <1>1 DEF Open
<1>2. ASSUME NEW p \in Procs, Write(p) PROVE Kept'
  <2>1. SUFFICES ASSUME ~undone' PROVE Meant' = wanted' /\ Decryptable'
    OBVIOUS
  <2>2. /\ pc[p] = "write" /\ cfg' = [pw |-> NoPw, enc |-> tok[p]]
        /\ undone' = (undone \/ p \in overtaken)
        /\ UNCHANGED <<keys, blank, wanted>>
    BY <1>2 DEF Write
  <2>3. tok[p].of = wanted
    BY <2>1, <2>2 DEF CopyRight, CopyOf
  <2>4. Readable(tok[p])
    BY <2>2 DEF TokenReadable
  <2>5. Meant' = wanted'
    BY <2>2, <2>3 DEF Meant
  <2>6. Decryptable'
    BY <2>2, <2>4 DEF Decryptable, Readable
  <2> QED
    BY <2>5, <2>6
<1>3. CASE SetPassword
  <2>1. wanted' \in Passwords /\ cfg' = [cfg EXCEPT !.pw = wanted'] /\ cfg \in [pw : Text, enc : Enc]
    BY <1>3 DEF SetPassword, Typed, FileTypes
  <2>2. cfg'.pw = wanted' /\ cfg'.pw # NoPw
    BY <2>1, PasswordsAssumption
  <2> QED
    BY <2>2 DEF Meant, Decryptable
<1>4. CASE \E k \in keys : DeleteKey(k)
  <2>1. PICK k \in keys : DeleteKey(k)
    BY <1>4
  <2>2. /\ UNCHANGED <<file, cfg, blank, wanted, undone>>
        /\ keys' = keys \ {k} /\ cfg.enc.by # k
    BY <2>1 DEF DeleteKey, ghosts
  <2>3. UNCHANGED Meant
    BY <2>2 DEF Meant
  <2>4. Decryptable => Decryptable'
    BY <2>2 DEF Decryptable
  <2> QED
    BY <2>2, <2>3, <2>4
<1>5. ASSUME UNCHANGED <<file, cfg, undone>>, ~(\E k \in keys : DeleteKey(k)), ~SetPassword
      PROVE  Kept'
  <2>1. keys \ blank \subseteq keys' \ blank'
    BY <1>5, KeysStay
  <2>2. wanted' = wanted
    BY <1>5, WantedStays
  <2>3. UNCHANGED Meant
    BY <1>5 DEF Meant
  <2>4. Decryptable => Decryptable'
    BY <1>5, <2>1 DEF Decryptable
  <2> QED
    BY <1>5, <2>2, <2>3, <2>4
<1>6. ASSUME NEW p \in Procs,
             \/ ReadCfg(p) \/ Decrypt(p) \/ Encrypt(p) \/ UsePassword(p)
             \/ ListKeys(p, "list1", "decrypt") \/ ListKeys(p, "list2", "encrypt")
             \/ ListKeys(p, "list3", "use") \/ Genkey(p) \/ WriteKey(p) \/ Crash(p)
      PROVE  UNCHANGED <<file, cfg, undone>>
  BY <1>6 DEF ReadCfg, Decrypt, Encrypt, UsePassword, ListKeys, Genkey, WriteKey, Crash,
              disk, ghosts
<1>7. ASSUME Start \/ Record0 \/ Top \/ Watch \/ Lost \/ (\E p \in Clis : RunCli(p))
             \/ UNCHANGED vars
      PROVE  UNCHANGED <<file, cfg, undone>>
  BY <1>7 DEF Start, Record0, Top, Watch, Lost, RunCli, Call, vars, disk, ghosts
<1> QED
  BY <1>1, <1>2, <1>3, <1>4, <1>5, <1>6, <1>7
     DEF Next, MonitorSteps, CliSteps, get_config, Procs

(* A process that reads the cfg has what the user wants in hand. *)
LEMMA ReadGives ==
    ASSUME Long = {}, Typed, Kept, NEW p \in Procs, ReadCfg(p), ~undone
    PROVE  \/ Raise(p)
           \/ Goto(p, "list1") /\ mem'[p].enc.of = wanted /\ Readable(mem'[p].enc)
           \/ Goto(p, "list2") /\ mem'[p].pw = wanted
<1>1. CASE file = "whole"
  <2>1. mem'[p] = cfg /\ Goto(p, IF cfg.pw = NoPw THEN "list1" ELSE "list2")
    BY <1>1 DEF ReadCfg, Typed, WorkTypes
  <2>2. Meant = wanted /\ Decryptable
    BY <1>1 DEF Kept
  <2>3. cfg.pw = NoPw => Readable(cfg.enc)
    BY <2>2 DEF Decryptable, Readable
  <2> QED
    BY <2>1, <2>2, <2>3 DEF Meant
<1>2. CASE file # "whole"
  BY <1>2 DEF ReadCfg
<1> QED
  BY <1>1, <1>2

(* A key that can be used is in the list that is made now. *)
LEMMA ListGives ==
    ASSUME Typed, NEW p \in Procs, NEW from, NEW to, ListKeys(p, from, to), HasEnc(p)
    PROVE  HasKey(p)'
<1>1. /\ listed' = [listed EXCEPT ![p] = keys] /\ mem' = mem
      /\ listed \in [Procs -> SUBSET (1..made)]
  BY DEF ListKeys, Listed, Typed, WorkTypes
<1>2. listed'[p] = keys /\ mem'[p].enc.by \in keys \cup {0}
  BY <1>1 DEF HasEnc, Readable
<1> QED
  BY <1>2 DEF HasKey

(* The password is decrypted with it. *)
LEMMA RightPassword ==
    ASSUME Long = {}, Typed, Listings, NEW p \in Procs, pc[p] \in {"decrypt", "use"},
           HasEnc(p), HasKey(p)
    PROVE  \A r \in decrypted(mem[p].enc, load_keys(p)) : r.ok => r.t = wanted
<1>1. listed[p] \subseteq keys /\ load_keys(p) = listed[p]
  BY TypesAre, LoadedKeys DEF Listings
<1>2. mem[p].enc \in Enc /\ wanted \in Passwords
  BY DEF Typed, WorkTypes, FileTypes
<1>3. mem[p].enc.of = wanted /\ wanted # NoPw /\ mem[p].enc.by \in load_keys(p) \cup {0}
  BY <1>1, <1>2, PasswordsAssumption DEF HasEnc, HasKey
<1> QED
  BY <1>2, <1>3, DecryptedRight

(* What leaves a process alone leaves what it has in hand right. *)
LEMMA CopyOthers ==
    ASSUME Typed, [Next]_vars, ~SetPassword, ~(\E k \in keys : DeleteKey(k)),
           NEW q, CopyOf(q), q \in overtaken => q \in overtaken',
           pc'[q] = pc[q], mem'[q] = mem[q], listed'[q] = listed[q], tok'[q] = tok[q]
    PROVE  CopyOf(q)'
<1>1. SUFFICES ASSUME q \notin overtaken', ~undone'
               PROVE  /\ pc'[q] \in {"list1", "decrypt"} => HasEnc(q)'
                      /\ pc'[q] = "decrypt" => HasKey(q)'
                      /\ pc'[q] \in {"list2", "encrypt"} => mem'[q].pw = wanted'
                      /\ pc'[q] \in {"open", "write"} => tok'[q].of = wanted'
  BY DEF CopyOf
<1>2. q \notin overtaken /\ ~undone /\ wanted' = wanted
  BY <1>1, WantedStays
<1>3. HasEnc(q) => HasEnc(q)'
  BY <1>2, ReadableStays DEF HasEnc, Readable
<1>4. HasKey(q) => HasKey(q)'
  BY DEF HasKey
<1> QED
  BY <1>2, <1>3, <1>4 DEF CopyOf

(* A process that reads the cfg, lists keys and goes on with what it found.  *)
LEMMA CopyOwn ==
    ASSUME Long = {}, Typed, Listings, CopyRight, Kept, NEW p \in Procs,
           get_config(p) \/ ListKeys(p, "list3", "use") \/ UsePassword(p)
    PROVE  CopyOf(p)'
<1> USE DEF CopyOf
<1>0. /\ pc \in [Procs -> Places] /\ mem \in [Procs -> [pw : Text, enc : Enc]]
      /\ CopyOf(p)
  BY DEF Typed, WorkTypes, CopyRight
<1>1. ASSUME Raise(p) PROVE CopyOf(p)'
  BY <1>0, <1>1 DEF Raise, Goto
<1>2. ASSUME NEW where, Goto(p, where),
             where \notin {"list1", "decrypt", "list2", "encrypt", "open", "write"}
      PROVE  CopyOf(p)'
  BY <1>0, <1>2 DEF Goto
<1>3. CASE ReadCfg(p)
  <2>1. SUFFICES ASSUME ~undone' PROVE CopyOf(p)'
    OBVIOUS
  <2>2. ~undone /\ UNCHANGED <<wanted, keys, blank>>
    BY <1>3, <2>1 DEF ReadCfg, disk
  <2>3. CASE Goto(p, "list1") /\ mem'[p].enc.of = wanted /\ Readable(mem'[p].enc)
    BY <1>0, <2>2, <2>3 DEF Goto, HasEnc, Readable
  <2>4. CASE Goto(p, "list2") /\ mem'[p].pw = wanted
    BY <1>0, <2>2, <2>4 DEF Goto
  <2> QED
    BY <1>1, <1>3, <2>2, <2>3, <2>4, ReadGives
<1>4. CASE ListKeys(p, "list1", "decrypt")
  <2>1. /\ pc[p] = "list1" /\ pc'[p] = "decrypt"
        /\ UNCHANGED <<keys, blank, mem, wanted, overtaken, undone>>
    BY <1>0, <1>4 DEF ListKeys, Goto, disk, ghosts
  <2>2. HasEnc(p) => HasKey(p)' /\ HasEnc(p)'
    BY <1>4, <2>1, ListGives DEF HasEnc, Readable
  <2> QED
    BY <1>0, <2>1, <2>2
<1>5. CASE ListKeys(p, "list2", "encrypt")
  <2>1. /\ pc[p] = "list2" /\ pc'[p] = "encrypt"
        /\ UNCHANGED <<mem, wanted, overtaken, undone>>
    BY <1>0, <1>5 DEF ListKeys, Goto, ghosts
  <2> QED
    BY <1>0, <2>1
<1>6. CASE ListKeys(p, "list3", "use")
  BY <1>2, <1>6 DEF ListKeys
<1>7. CASE Decrypt(p)
  <2>1. PICK r \in decrypted(mem[p].enc, load_keys(p)) :
            /\ IF ~r.ok THEN Raise(p)
               ELSE Goto(p, IF r.rekey THEN "list2" ELSE AfterConfig(p))
            /\ mem' = IF r.rekey THEN [mem EXCEPT ![p].pw = r.t] ELSE mem
    BY <1>7 DEF Decrypt
  <2>2. pc[p] = "decrypt" /\ UNCHANGED <<wanted, overtaken, undone>>
    BY <1>7 DEF Decrypt, ghosts
  <2>3. CASE ~r.ok
    BY <1>1, <2>1, <2>3
  <2>4. CASE r.ok /\ ~r.rekey
    BY <1>2, <2>1, <2>4 DEF AfterConfig
  <2>5. CASE r.ok /\ r.rekey
    <3>1. pc'[p] = "list2" /\ mem'[p].pw = r.t
      BY <1>0, <2>1, <2>5 DEF Goto
    <3>2. HasEnc(p) /\ HasKey(p) => r.t = wanted
      BY <2>2, <2>5, RightPassword
    <3> QED
      BY <1>0, <2>2, <3>1, <3>2
  <2> QED
    BY <2>3, <2>4, <2>5
<1>8. CASE Encrypt(p)
  <2>1. pc[p] = "encrypt" /\ UNCHANGED <<wanted, overtaken, undone>>
    BY <1>8 DEF Encrypt, ghosts
  <2>2. CASE Goto(p, "open") /\ tok'[p].of = mem[p].pw
    BY <1>0, <2>1, <2>2 DEF Goto
  <2> QED
    BY <1>1, <1>8, <2>2, EncryptGives
<1>9. CASE Open(p)
  <2>1. /\ pc[p] = "open" /\ pc'[p] = "write"
        /\ UNCHANGED <<tok, wanted, overtaken, undone>>
    BY <1>0, <1>9 DEF Open, Goto, ghosts
  <2> QED
    BY <1>0, <2>1
<1>10. CASE Write(p)
  BY <1>2, <1>10 DEF Write, AfterConfig
<1>11. CASE UsePassword(p)
  BY <1>1, <1>2, <1>11, UseGoes
<1> QED
  BY <1>3, <1>4, <1>5, <1>6, <1>7, <1>8, <1>9, <1>10, <1>11 DEF get_config

(* A step of a process is not one of another. *)
Alone(p) ==
    /\ \A q \in Procs \ {p} :
         pc'[q] = pc[q] /\ mem'[q] = mem[q] /\ listed'[q] = listed[q] /\ tok'[q] = tok[q]
    /\ overtaken \ {p} \subseteq overtaken'

LEMMA GetConfigAlone ==
    ASSUME Typed, NEW p \in Procs,
           get_config(p) \/ ListKeys(p, "list3", "use") \/ UsePassword(p)
    PROVE  Alone(p)
<1>0. /\ pc \in [Procs -> Places] /\ mem \in [Procs -> [pw : Text, enc : Enc]]
      /\ listed \in [Procs -> SUBSET (1..made)] /\ tok \in [Procs -> Enc]
  BY DEF Typed, WorkTypes
<1>1. PICK where : Goto(p, where)
  BY GetConfigInside DEF Inside
<1>2. \A q \in Procs \ {p} : pc'[q] = pc[q]
  BY <1>0, <1>1 DEF Goto
<1>3. overtaken' = overtaken \/ overtaken' = overtaken \ {p}
  BY DEF get_config, ReadCfg, ListKeys, Decrypt, Encrypt, Open, Write, UsePassword, ghosts
<1>4. listed' = listed \/ \E ks : listed' = [listed EXCEPT ![p] = ks]
  BY DEF get_config, ReadCfg, ListKeys, Listed, Decrypt, Encrypt, Open, Write, UsePassword
<1>5. tok' = tok \/ \E t : tok' = [tok EXCEPT ![p] = t]
  BY DEF get_config, ReadCfg, ListKeys, Decrypt, Encrypt, Open, Write, UsePassword
<1>6. \A q \in Procs \ {p} : mem'[q] = mem[q]
  <2>1. CASE Decrypt(p)
    <3>1. PICK r : mem' = IF r.rekey THEN [mem EXCEPT ![p].pw = r.t] ELSE mem
      BY <2>1 DEF Decrypt
    <3> QED
      BY <1>0, <3>1
  <2>2. CASE Encrypt(p)
    BY <1>0, <2>2 DEF Encrypt
  <2>3. CASE ReadCfg(p) \/ UsePassword(p)
    BY <1>0, <2>3 DEF ReadCfg, UsePassword
  <2>4. CASE \/ Open(p) \/ Write(p)
             \/ ListKeys(p, "list1", "decrypt") \/ ListKeys(p, "list2", "encrypt")
             \/ ListKeys(p, "list3", "use")
    BY <2>4 DEF Open, Write, ListKeys
  <2> QED
    BY <2>1, <2>2, <2>3, <2>4 DEF get_config
<1>7. \A q \in Procs \ {p} : listed'[q] = listed[q]
  BY <1>0, <1>4
<1>8. \A q \in Procs \ {p} : tok'[q] = tok[q]
  BY <1>0, <1>5
<1> QED
  BY <1>2, <1>3, <1>6, <1>7, <1>8 DEF Alone

(* The steps that put a process where it has nothing in hand. *)
Empty(p) == pc[p] \in {"off", "read", "writekey", "record0", "top"}

Outer(p) ==
    \/ Genkey(p) \/ WriteKey(p) \/ Crash(p)
    \/ p \in Clis /\ RunCli(p)
    \/ p = Monitor /\ (Start \/ Record0 \/ Top \/ Watch \/ Lost)

LEMMA OthersAlone ==
    ASSUME Typed, NEW p \in Procs, Outer(p)
    PROVE  Alone(p) /\ Empty(p)'
<1>0. /\ pc \in [Procs -> Places] /\ mem \in [Procs -> [pw : Text, enc : Enc]]
      /\ listed \in [Procs -> SUBSET (1..made)] /\ tok \in [Procs -> Enc]
  BY DEF Typed, WorkTypes
<1>1. PICK where \in {"off", "read", "writekey", "record0", "top"} : Goto(p, where)
  BY DEF Outer, Genkey, WriteKey, Crash, RunCli, Start, Record0, Top, Watch, Lost, Call
<1>2. Empty(p)' /\ \A q \in Procs \ {p} : pc'[q] = pc[q]
  BY <1>0, <1>1 DEF Goto, Empty
<1>3. overtaken' = overtaken
  BY DEF Outer, Genkey, WriteKey, Crash, RunCli, Start, Record0, Top, Watch, Lost, Call, ghosts
<1>4. CASE Crash(p)
  <2>1. /\ listed' = [listed EXCEPT ![p] = {}] /\ mem' = [mem EXCEPT ![p] = NoCfg]
        /\ tok' = [tok EXCEPT ![p] = Base64(NoPw)]
    BY <1>4 DEF Crash, Listed
  <2> QED
    BY <1>0, <1>2, <1>3, <2>1 DEF Alone
<1>5. CASE ~Crash(p)
  <2>1. UNCHANGED <<mem, listed, tok>>
    BY <1>5 DEF Outer, Genkey, WriteKey, RunCli, Start, Record0, Top, Watch, Lost, Call
  <2> QED
    BY <1>2, <1>3, <2>1 DEF Alone
<1> QED
  BY <1>4, <1>5

(* The steps, by who takes them. *)
LEMMA Steps ==
    ASSUME [Next]_vars
    PROVE  \/ \E p \in Procs : get_config(p) \/ ListKeys(p, "list3", "use") \/ UsePassword(p)
           \/ \E p \in Procs : Outer(p)
           \/ SetPassword \/ (\E k \in keys : DeleteKey(k)) \/ UNCHANGED vars
<1>1. Clis \subseteq Procs /\ Monitor \in Procs
  BY DEF Procs
<1>2. CASE MonitorSteps
  BY <1>1, <1>2 DEF MonitorSteps, Outer
<1>3. ASSUME NEW p \in Clis, RunCli(p) \/ CliSteps(p)
      PROVE  \/ get_config(p) \/ ListKeys(p, "list3", "use") \/ UsePassword(p)
             \/ Outer(p)
  BY <1>3 DEF CliSteps, Outer
<1>4. CASE Lost
  BY <1>1, <1>4 DEF Outer
<1>5. ASSUME NEW p \in Procs, Crash(p) PROVE Outer(p)
  BY <1>5 DEF Outer
<1> QED
  BY <1>1, <1>2, <1>3, <1>4, <1>5 DEF Next

LEMMA CopyStep ==
    Deletes # "any" /\ Long = {} =>
        (Typed /\ Listings /\ CopyRight /\ Kept /\ [Next]_vars => CopyRight')
<1> SUFFICES ASSUME Deletes # "any", Long = {}, Typed, Listings, CopyRight, Kept,
                    [Next]_vars
             PROVE  CopyRight'
  OBVIOUS
<1>0. /\ Monitor \in Procs /\ Clis \subseteq Procs
      /\ pc \in [Procs -> Places]
  BY DEF Typed, WorkTypes, Procs
<1>1. CASE SetPassword
  <2>1. /\ \A p \in Procs : pc[p] # "write"
        /\ overtaken' = overtaken \cup {p \in Procs : HasOldCopy(p)} /\ pc' = pc
    BY <1>1 DEF SetPassword
  <2> QED
    BY <2>1 DEF CopyRight, CopyOf, HasOldCopy
<1>2. CASE \E k \in keys : DeleteKey(k)
  <2>1. \A p \in Procs : pc[p] \in {"off", "top", "connected"} /\ pc'[p] = pc[p]
    BY <1>2, DeletedIdle DEF DeleteKey
  <2> QED
    BY <2>1 DEF CopyRight, CopyOf
<1>3. CASE ~SetPassword /\ ~(\E k \in keys : DeleteKey(k))
  <2>1. ASSUME NEW p \in Procs, Alone(p), CopyOf(p)' PROVE CopyRight'
    <3>1. ASSUME NEW q \in Procs \ {p} PROVE CopyOf(q)'
      <4>1. /\ pc'[q] = pc[q] /\ mem'[q] = mem[q] /\ listed'[q] = listed[q]
            /\ tok'[q] = tok[q] /\ (q \in overtaken => q \in overtaken')
        BY <2>1 DEF Alone
      <4> QED
        BY <1>3, <4>1, CopyOthers DEF CopyRight
    <3> QED
      BY <2>1, <3>1 DEF CopyRight
  <2>2. ASSUME NEW p \in Procs,
               get_config(p) \/ ListKeys(p, "list3", "use") \/ UsePassword(p)
        PROVE  CopyRight'
    BY <2>1, <2>2, CopyOwn, GetConfigAlone
  <2>3. ASSUME NEW p \in Procs, Outer(p) PROVE CopyRight'
    <3>1. Alone(p) /\ Empty(p)'
      BY <2>3, OthersAlone
    <3>2. CopyOf(p)'
      BY <3>1 DEF Empty, CopyOf
    <3> QED
      BY <2>1, <3>1, <3>2
  <2>4. CASE UNCHANGED vars
    <3>1. UNCHANGED <<pc, mem, listed, tok, overtaken>>
      BY <2>4 DEF vars, ghosts
    <3> QED
      BY <1>3, <3>1, CopyOthers DEF CopyRight
  <2> QED
    BY <1>0, <1>3, <2>2, <2>3, <2>4, Steps
<1> QED
  BY <1>1, <1>2, <1>3

(* The monitor in its loop. *)
LEMMA LoopOthers ==
    ASSUME Typed, [Next]_vars, ~SetPassword, ~(\E k \in keys : DeleteKey(k)), LoopRight,
           pc'[Monitor] = pc[Monitor], mem'[Monitor] = mem[Monitor],
           listed'[Monitor] = listed[Monitor], at'[Monitor] = at[Monitor],
           got' = got, changed \subseteq changed'
    PROVE  LoopRight'
<1>1. pc'[Monitor] = "connected" => at'[Monitor] = "loop"
  BY DEF LoopRight
<1>2. ASSUME at'[Monitor] = "loop", changed' = {}, ~undone'
      PROVE  /\ pc'[Monitor] \in {"list1", "decrypt", "list3", "use"} => HasEnc(Monitor)'
             /\ pc'[Monitor] \in {"decrypt", "use"} => HasKey(Monitor)'
             /\ pc'[Monitor] = "connected" => got' = wanted'
  <2>1. at[Monitor] = "loop" /\ changed = {} /\ ~undone /\ wanted' = wanted
    BY <1>2, WantedStays
  <2>2. HasEnc(Monitor) => HasEnc(Monitor)'
    BY <2>1, ReadableStays DEF HasEnc, Readable
  <2>3. HasKey(Monitor) => HasKey(Monitor)'
    BY DEF HasKey
  <2> QED
    BY <2>1, <2>2, <2>3 DEF LoopRight
<1> QED
  BY <1>1, <1>2 DEF LoopRight

LEMMA LoopOwn ==
    ASSUME Long = {}, Typed, Listings, Kept, LoopRight,
           \/ get_config(Monitor) \/ ListKeys(Monitor, "list3", "use") \/ UsePassword(Monitor)
    PROVE  LoopRight'
<1>0. /\ pc \in [Procs -> Places] /\ mem \in [Procs -> [pw : Text, enc : Enc]]
      /\ Monitor \in Procs
  BY DEF Typed, WorkTypes, Procs
<1>1. ASSUME NEW where \in Places \ {"list1", "decrypt", "list3", "use", "connected"},
             Goto(Monitor, where)
      PROVE  LoopRight'
  BY <1>0, <1>1 DEF Goto, LoopRight
<1>2. ASSUME Raise(Monitor) PROVE LoopRight'
  BY <1>1, <1>2 DEF Raise, Places
<1>3. CASE ReadCfg(Monitor)
  <2>1. pc'[Monitor] # "connected" /\ pc'[Monitor] \notin {"decrypt", "list3", "use"}
    BY <1>0, <1>3 DEF ReadCfg, Raise, Goto
  <2>2. SUFFICES ASSUME ~undone', pc'[Monitor] = "list1" PROVE HasEnc(Monitor)'
    BY <2>1 DEF LoopRight
  <2>3. ~undone /\ UNCHANGED <<wanted, keys, blank>>
    BY <1>3, <2>2 DEF ReadCfg, disk
  <2>4. mem'[Monitor].enc.of = wanted /\ Readable(mem'[Monitor].enc)
    BY <1>0, <1>3, <2>2, <2>3, ReadGives DEF Raise, Goto
  <2> QED
    BY <2>3, <2>4 DEF HasEnc, Readable
<1>4. ASSUME NEW from \in {"list1", "list3"}, NEW to \in {"decrypt", "use"},
             ListKeys(Monitor, from, to)
      PROVE  LoopRight'
  <2>1. /\ pc[Monitor] = from /\ pc'[Monitor] = to
        /\ UNCHANGED <<keys, blank, mem, wanted, at, got, changed, undone>>
    BY <1>0, <1>4 DEF ListKeys, Goto, disk, ghosts
  <2>2. HasEnc(Monitor) => HasKey(Monitor)' /\ HasEnc(Monitor)'
    BY <1>0, <1>4, <2>1, ListGives DEF HasEnc, Readable
  <2> QED
    BY <2>1, <2>2 DEF LoopRight
<1>5. CASE ListKeys(Monitor, "list2", "encrypt")
  BY <1>1, <1>5 DEF ListKeys, Places
<1>6. CASE Decrypt(Monitor)
  <2>1. PICK r \in decrypted(mem[Monitor].enc, load_keys(Monitor)) :
            /\ IF ~r.ok THEN Raise(Monitor)
               ELSE Goto(Monitor, IF r.rekey THEN "list2" ELSE AfterConfig(Monitor))
            /\ mem' = IF r.rekey THEN [mem EXCEPT ![Monitor].pw = r.t] ELSE mem
    BY <1>6 DEF Decrypt
  <2>2. /\ pc[Monitor] = "decrypt"
        /\ UNCHANGED <<keys, blank, wanted, at, changed, undone>>
    BY <1>6 DEF Decrypt, disk, ghosts
  <2>3. CASE ~r.ok
    BY <1>2, <2>1, <2>3
  <2>4. CASE r.ok /\ r.rekey
    BY <1>1, <2>1, <2>4 DEF Places
  <2>5. CASE r.ok /\ ~r.rekey
    <3>1. mem' = mem /\ pc'[Monitor] \in {"genkey", "list3"}
      BY <1>0, <2>1, <2>5 DEF Goto, AfterConfig
    <3>2. HasEnc(Monitor) => HasEnc(Monitor)'
      BY <2>2, <3>1 DEF HasEnc, Readable
    <3> QED
      BY <2>2, <3>1, <3>2 DEF LoopRight
  <2> QED
    BY <2>3, <2>4, <2>5
<1>7. CASE Encrypt(Monitor)
  <2>1. Raise(Monitor) \/ Goto(Monitor, "open")
    BY <1>7 DEF Encrypt
  <2> QED
    BY <1>1, <1>2, <2>1 DEF Places
<1>8. CASE Open(Monitor)
  BY <1>1, <1>8 DEF Open, Places
<1>9. CASE Write(Monitor)
  <2>1. changed' # {} /\ pc'[Monitor] \in {"genkey", "list3"}
    BY <1>0, <1>9 DEF Write, Goto, AfterConfig
  <2> QED
    BY <2>1 DEF LoopRight
<1>10. CASE UsePassword(Monitor)
  <2>1. PICK r \in decrypted(mem[Monitor].enc, load_keys(Monitor)) :
            /\ CASE ~r.ok -> Raise(Monitor)
                 [] r.ok -> Goto(Monitor, CASE at[Monitor] = "main" -> "record0"
                                            [] at[Monitor] = "loop" -> "connected"
                                            [] OTHER -> "off")
            /\ got' = IF r.ok /\ at[Monitor] = "loop" THEN r.t ELSE got
    BY <1>10 DEF UsePassword
  <2>2. pc[Monitor] = "use" /\ UNCHANGED <<wanted, at, changed, undone>>
    BY <1>10 DEF UsePassword, ghosts
  <2>3. r.ok \in BOOLEAN
    BY <1>0, DecryptedType
  <2>4. CASE ~r.ok
    BY <1>2, <2>1, <2>3, <2>4
  <2>5. CASE r.ok /\ at[Monitor] # "loop"
    <3>1. \E where \in {"record0", "off"} : Goto(Monitor, where)
      BY <2>1, <2>5
    <3> QED
      BY <1>1, <3>1 DEF Places
  <2>6. CASE r.ok /\ at[Monitor] = "loop"
    <3>1. Goto(Monitor, "connected") /\ got' = r.t
      BY <2>1, <2>6
    <3>2. pc'[Monitor] = "connected" /\ at'[Monitor] = "loop"
      BY <1>0, <2>2, <2>6, <3>1 DEF Goto
    <3>3. HasEnc(Monitor) /\ HasKey(Monitor) => r.t = wanted
      BY <1>0, <2>2, <2>6, RightPassword
    <3> QED
      BY <2>2, <2>6, <3>1, <3>2, <3>3 DEF LoopRight
  <2> QED
    BY <2>3, <2>4, <2>5, <2>6
<1> QED
  BY <1>3, <1>4, <1>5, <1>6, <1>7, <1>8, <1>9, <1>10 DEF get_config

LEMMA LoopStep ==
    Long = {} =>
        (Typed /\ OneGen /\ Listings /\ Kept /\ LoopRight /\ [Next]_vars => LoopRight')
<1> SUFFICES ASSUME Long = {}, Typed, OneGen, Listings, Kept, LoopRight, [Next]_vars
             PROVE  LoopRight'
  OBVIOUS
<1>0. /\ Monitor \in Procs /\ Monitor \notin Clis /\ Procs = Clis \cup {Monitor}
      /\ at \in [Procs -> {"main", "loop", "show", "gen"}]
  BY ProcAssumption DEF Typed, WorkTypes, Procs
<1>1. CASE SetPassword \/ \E k \in keys : DeleteKey(k)
  <2>1. changed' # {} /\ pc' = pc /\ at' = at
    BY <1>1 DEF SetPassword, DeleteKey
  <2> QED
    BY <2>1 DEF LoopRight
<1>2. CASE ~SetPassword /\ ~(\E k \in keys : DeleteKey(k))
  <2>1. CASE get_config(Monitor) \/ ListKeys(Monitor, "list3", "use") \/ UsePassword(Monitor)
    BY <2>1, LoopOwn
  <2>2. ASSUME Empty(Monitor)' PROVE LoopRight'
    BY <2>2 DEF Empty, LoopRight
  <2>3. CASE Outer(Monitor)
    BY <1>0, <2>2, <2>3, OthersAlone
  <2>4. ASSUME NEW p \in Clis, Alone(p), at'[Monitor] = at[Monitor], got' = got,
               changed \subseteq changed'
        PROVE  LoopRight'
    <3>1. Monitor \in Procs \ {p}
      BY <1>0
    <3> QED
      BY <1>2, <2>4, <3>1, LoopOthers DEF Alone
  <2>5. ASSUME NEW p \in Clis,
               get_config(p) \/ ListKeys(p, "list3", "use") \/ UsePassword(p)
        PROVE  LoopRight'
    <3>1. Alone(p) /\ at' = at
      BY <1>0, <2>5, GetConfigAlone, GetConfigInside DEF Inside
    <3>2. changed \subseteq changed'
      BY <2>5 DEF get_config, ReadCfg, ListKeys, Decrypt, Encrypt, Open, Write, UsePassword
    <3>3. CASE UsePassword(p)
      <4>1. PICK r : got' = IF r.ok /\ at[p] = "loop" THEN r.t ELSE got
        BY <3>3 DEF UsePassword
      <4>2. at[p] # "loop"
        BY DEF OneGen
      <4> QED
        BY <2>4, <3>1, <3>2, <4>1, <4>2
    <3>4. CASE get_config(p) \/ ListKeys(p, "list3", "use")
      <4>1. got' = got
        BY <3>4 DEF get_config, ReadCfg, ListKeys, Decrypt, Encrypt, Open, Write
      <4> QED
        BY <2>4, <3>1, <3>2, <4>1
    <3> QED
      BY <2>5, <3>3, <3>4
  <2>6. ASSUME NEW p \in Clis, Outer(p) PROVE LoopRight'
    <3>1. Alone(p)
      BY <1>0, <2>6, OthersAlone
    <3>2. got' = got /\ changed \subseteq changed'
      BY <1>0, <2>6 DEF Outer, Genkey, WriteKey, Crash, RunCli, Call
    <3>3. at' = at \/ \E who : at' = [at EXCEPT ![p] = who]
      BY <1>0, <2>6 DEF Outer, Genkey, WriteKey, Crash, RunCli, Call
    <3>4. at'[Monitor] = at[Monitor]
      BY <1>0, <3>3
    <3> QED
      BY <2>4, <3>1, <3>2, <3>4
  <2>7. CASE UNCHANGED vars
    <3>1. UNCHANGED <<pc, mem, listed, at, got, changed>>
      BY <2>7 DEF vars
    <3> QED
      BY <1>2, <3>1, LoopOthers
  <2> QED
    BY <1>0, <1>2, <2>1, <2>3, <2>5, <2>6, <2>7, Steps
<1> QED
  BY <1>1, <1>2
-----------------------------------------------------------------------------
(* The theorems *)

(* The types, with the one -g that bounds the keys by MaxKeys. *)
LEMMA KTypesHold == Spec => [](Typed /\ OneGen)
<1>1. Init => Typed /\ OneGen
  BY TypesInit
<1>2. Typed /\ OneGen /\ [Next]_vars => Typed' /\ OneGen'
  BY TypesStep, OneGenStep
<1> QED
  BY <1>1, <1>2, PTL DEF Spec

(* Every variable of the model keeps its type: no more keys are made than    *)
(* MaxKeys, and nobody holds a text that is not a password or garbage        *)
(* (123-291).                                                                *)
THEOREM TypesAreKept == Spec => []TypeOK
  BY KTypesHold, TypesAre, PTL

(* The cfg is broken only between open(filename, 'w') and the close (285), or*)
(* after a process died there, or after two of the processes that rewrite it,*)
(* however many those are, had it open at once (285-289).                    *)
THEOREM BreakHasCause == Spec => []BrokenWithCause
<1>1. Init => BInv
  BY DEF Init, BInv, BrokenWithCause, OpenedAlone
<1>2. BInv => BrokenWithCause
  BY DEF BInv
<1> QED
  BY <1>1, <1>2, BrokenStep, KTypesHold, PTL DEF Spec

(* The invariant holds when nobody deletes keys under a process that works   *)
(* with them and no password is too long for base64.                         *)
LEMMA KInvHolds == Deletes # "any" /\ Long = {} => (Spec => []KInv)
<1> SUFFICES ASSUME Deletes # "any", Long = {} PROVE Spec => []KInv
  OBVIOUS
<1>1. Init => KInv
  <2> SUFFICES ASSUME Init PROVE KInv
    OBVIOUS
  <2>1. \A p \in Procs : pc[p] = "off"
    BY DEF Init
  <2>2. Listings /\ TokenReadable /\ CopyRight /\ LoopRight
    BY <2>1 DEF Listings, TokenReadable, CopyRight, CopyOf, LoopRight, Procs
  <2>3. PICK w \in Passwords : wanted = w /\ cfg = [pw |-> w, enc |-> Base64(NoPw)]
    BY DEF Init
  <2>4. Kept
    BY <2>3, PasswordsAssumption DEF Kept, Meant, Decryptable
  <2> QED
    BY <2>2, <2>4 DEF KInv
<1>2. Typed /\ OneGen /\ KInv /\ [Next]_vars => KInv'
  BY ListingsStep, TokenStep, CopyStep, KeptStep, LoopStep DEF KInv
<1> QED
  BY <1>1, <1>2, KTypesHold, PTL DEF Spec

(* Through any interleaving of any number of monitors' starts, -p, -g and    *)
(* rekeyings that die anywhere, the cfg holds the password the user set last,*)
(* in a form some key of the keysdir reads; unless an older copy replaced the*)
(* user's edit, or the cfg is broken by a rewrite that is under way, by a    *)
(* death in one, or by two at once (240-291).                                *)
THEOREM PasswordIsKept ==
    Deletes # "any" /\ Long = {} => (Spec => []PasswordKept)
<1>1. Typed /\ KInv /\ BrokenWithCause => PasswordKept
  <2> SUFFICES ASSUME Typed, Kept, BrokenWithCause PROVE PasswordKept
    BY DEF KInv
  <2>1. undone \in BOOLEAN
    BY DEF Typed, FileTypes
  <2> QED
    BY <2>1 DEF PasswordKept, Kept, BrokenWithCause
<1> QED
  BY <1>1, KInvHolds, KTypesHold, BreakHasCause, PTL

(* And the monitor connects with it, or the times it recorded will make it   *)
(* restart (881-912).                                                        *)
THEOREM MonitorSettles ==
    Deletes # "any" /\ Long = {} => (Spec => []SettlesRight)
<1>1. KInv => SettlesRight
  BY DEF KInv, LoopRight, SettlesRight
<1> QED
  BY <1>1, KInvHolds, PTL
=============================================================================
