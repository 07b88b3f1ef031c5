---------------------------- MODULE DataPathProof ----------------------------
(* Proofs about DataPath, for every number of monitors, files, senders,      *)
(* servers and lines.                                                        *)
EXTENDS DataPathInv, TLAPS

(* The names the actions give to their tests are expanded everywhere. *)
USE DEF FirstStep, Truncates, LockFree, TmpinListing, Served

(* Initially every variable has its type. *)
LEMMA TypedInit == Init => Typed
<1> DEFINE first == CHOOSE f \in Files : TRUE
<1>1. first \in Files
  BY OutFileAssumption
<1>2. Init => cur = [s \in Senders |-> first]
  BY DEF Init
<1> HIDE DEF first
<1> SUFFICES ASSUME Init PROVE Typed
  OBVIOUS
<1>3. cur \in [Senders -> Files]
  BY <1>1, <1>2
<1>4. /\ count \in [Monitors -> 0..MaxLines]
      /\ handle \in [Monitors -> Where]
  BY MaxLinesAssumption DEF Init, Where
<1> QED
  BY <1>3, <1>4 DEF Init, Typed, TypeOK, Room

(* Every step of the monitor and of the sender keeps the types. *)
LEMMA TypedStep == Typed /\ [Next]_vars => Typed'
<1> SUFFICES ASSUME Typed, [Next]_vars PROVE Typed'
    OBVIOUS
<1> USE OutFileAssumption, MaxLinesAssumption DEF Typed, TypeOK, Room
<1>1. ASSUME NEW m \in Monitors, Check(m) PROVE Typed'
  BY <1>1 DEF Check, svars
<1>2. ASSUME NEW m \in Monitors, Open(m) PROVE Typed'
  BY <1>2 DEF Open, svars, Where
<1>3. ASSUME NEW m \in Monitors, Write(m) PROVE Typed'
  BY <1>3 DEF Write, svars, Line
<1>4. ASSUME NEW m \in Monitors, Forget(m) PROVE Typed'
  BY <1>4 DEF Forget, svars, Where
<1>5. ASSUME NEW s \in Senders, Start(s) PROVE Typed'
  BY <1>5 DEF Start, mvars
<1>6. ASSUME NEW s \in Senders, Acquire(s) PROVE Typed'
  BY <1>6 DEF Acquire, mvars
<1>7. ASSUME NEW s \in Senders, NEW f \in Files, Move(s, f) PROVE Typed'
  BY <1>7 DEF Move, Shifted, Where
<1>8. ASSUME NEW s \in Senders, ListTmpin(s) PROVE Typed'
  BY <1>8 DEF ListTmpin, mvars
<1>9. ASSUME NEW s \in Senders, NEW f \in Files, Take(s, f) PROVE Typed'
  BY <1>9 DEF Take, mvars
<1>10. ASSUME NEW s \in Senders, NEW v \in Servers, Send(s, v) PROVE Typed'
  BY <1>10 DEF Send, mvars
<1>11. ASSUME NEW s \in Senders, ZipWrite(s) PROVE Typed'
  BY <1>11 DEF ZipWrite, mvars
<1>12. ASSUME NEW s \in Senders, Remove(s) PROVE Typed'
  BY <1>12 DEF Remove, Where
<1>13. ASSUME NEW s \in Senders, Close(s) PROVE Typed'
  BY <1>13 DEF Close, mvars
<1>14. ASSUME NEW s \in Senders, Clean(s) PROVE Typed'
  BY <1>14 DEF Clean, mvars
<1>15. ASSUME NEW s \in Senders, Unlock(s) PROVE Typed'
  <2>1. archive' \in SUBSET SUBSET Line
    BY <1>15 DEF Unlock
  <2> QED
    BY <1>15, <2>1 DEF Unlock, mvars
<1>16. ASSUME NEW s \in Senders, NEW readable \in BOOLEAN, Die(s, readable) PROVE Typed'
  BY <1>16 DEF Die, mvars
<1>17. ASSUME OperatorUnlock PROVE Typed'
  BY <1>17 DEF OperatorUnlock, mvars
<1>18. ASSUME UNCHANGED vars PROVE Typed'
  BY <1>18 DEF vars, mvars, svars
<1> QED
  BY <1>1, <1>2, <1>3, <1>4, <1>5, <1>6, <1>7, <1>8, <1>9, <1>10, <1>11, <1>12,
     <1>13, <1>14, <1>15, <1>16, <1>17, <1>18
  DEF Next, Works, Runs, Raise, Kill

(* Initially no run exists. *)
LEMMA ExclusiveInit == Init => Exclusive
BY DEF Init, Exclusive, Active

(* No step lets a second run past the lock file (156-161). *)
LEMMA ExclusiveStep ==
  Typed /\ Exclusive /\ ~Overlap /\ [Next]_vars => Exclusive'
<1> SUFFICES ASSUME Typed, Exclusive, ~Overlap, [Next]_vars PROVE Exclusive'
    OBVIOUS
<1> USE DEF Typed, TypeOK, Exclusive, Active
<1>1. ASSUME NEW m \in Monitors, Check(m) PROVE Exclusive'
  BY <1>1 DEF Check, svars
<1>2. ASSUME NEW m \in Monitors, Open(m) PROVE Exclusive'
  BY <1>2 DEF Open, svars
<1>3. ASSUME NEW m \in Monitors, Write(m) PROVE Exclusive'
  BY <1>3 DEF Write, svars
<1>4. ASSUME NEW m \in Monitors, Forget(m) PROVE Exclusive'
  BY <1>4 DEF Forget, svars
<1>5. ASSUME NEW s \in Senders, Start(s) PROVE Exclusive'
  BY <1>5 DEF Start, mvars
<1>6. ASSUME NEW s \in Senders, Acquire(s) PROVE Exclusive'
  BY <1>6 DEF Acquire, mvars
<1>7. ASSUME NEW s \in Senders, NEW f \in Files, Move(s, f) PROVE Exclusive'
  BY <1>7 DEF Move
<1>8. ASSUME NEW s \in Senders, ListTmpin(s) PROVE Exclusive'
  BY <1>8 DEF ListTmpin, mvars
<1>9. ASSUME NEW s \in Senders, NEW f \in Files, Take(s, f) PROVE Exclusive'
  BY <1>9 DEF Take, mvars
<1>10. ASSUME NEW s \in Senders, NEW v \in Servers, Send(s, v) PROVE Exclusive'
  BY <1>10 DEF Send, mvars
<1>11. ASSUME NEW s \in Senders, ZipWrite(s) PROVE Exclusive'
  BY <1>11 DEF ZipWrite, mvars
<1>12. ASSUME NEW s \in Senders, Remove(s) PROVE Exclusive'
  BY <1>12 DEF Remove
<1>13. ASSUME NEW s \in Senders, Close(s) PROVE Exclusive'
  BY <1>13 DEF Close, mvars
<1>14. ASSUME NEW s \in Senders, Clean(s) PROVE Exclusive'
  BY <1>14 DEF Clean, mvars
<1>15. ASSUME NEW s \in Senders, Unlock(s) PROVE Exclusive'
  BY <1>15 DEF Unlock, mvars
<1>16. ASSUME NEW s \in Senders, Raise(s) PROVE Exclusive'
  BY <1>16 DEF Raise, Die, mvars, Trips
<1>17. ASSUME NEW s \in Senders, Kill(s) PROVE Exclusive'
  BY <1>17 DEF Kill, ZipOpen, Die, mvars
<1>18. ASSUME OperatorUnlock PROVE Exclusive'
  BY <1>18 DEF OperatorUnlock, mvars
<1>19. ASSUME UNCHANGED vars PROVE Exclusive'
  BY <1>19 DEF vars, mvars, svars
<1> QED
  BY <1>1, <1>2, <1>3, <1>4, <1>5, <1>6, <1>7, <1>8, <1>9, <1>10, <1>11, <1>12,
     <1>13, <1>14, <1>15, <1>16, <1>17, <1>18, <1>19
  DEF Next, Works, Runs

(* Initially no file is open. *)
LEMMA HandlesInit == Init => Handles
BY DEF Init, Handles

(* Open files and directory entries keep agreeing (91-99 against 168, 227). *)
LEMMA HandlesStep ==
  Sole /\ Sole' /\ Typed /\ Handles /\ [Next]_vars => Handles'
<1> SUFFICES ASSUME Sole, Sole', Typed, Handles, [Next]_vars PROVE Handles'
    OBVIOUS
<1> USE OutFileAssumption DEF Typed, TypeOK, Handles, Sole, Users, Where
<1>1. ASSUME NEW m \in Monitors, Check(m) PROVE Handles'
  BY <1>1 DEF Check, svars
<1>2. ASSUME NEW m \in Monitors, Open(m) PROVE Handles'
  BY <1>2 DEF Open, svars
<1>3. ASSUME NEW m \in Monitors, Write(m) PROVE Handles'
  BY <1>3 DEF Write, svars
<1>4. ASSUME NEW m \in Monitors, Forget(m) PROVE Handles'
  BY <1>4 DEF Forget, svars
<1>5. ASSUME NEW s \in Senders, Start(s) PROVE Handles'
  BY <1>5 DEF Start, mvars
<1>6. ASSUME NEW s \in Senders, Acquire(s) PROVE Handles'
  BY <1>6 DEF Acquire, mvars
<1>7. ASSUME NEW s \in Senders, NEW f \in Files, Move(s, f) PROVE Handles'
  BY <1>7 DEF Move, Shifted
<1>8. ASSUME NEW s \in Senders, ListTmpin(s) PROVE Handles'
  BY <1>8 DEF ListTmpin, mvars
<1>9. ASSUME NEW s \in Senders, NEW f \in Files, Take(s, f) PROVE Handles'
  BY <1>9 DEF Take, mvars
<1>10. ASSUME NEW s \in Senders, NEW v \in Servers, Send(s, v) PROVE Handles'
  BY <1>10 DEF Send, mvars
<1>11. ASSUME NEW s \in Senders, ZipWrite(s) PROVE Handles'
  BY <1>11 DEF ZipWrite, mvars
<1>12. ASSUME NEW s \in Senders, Remove(s) PROVE Handles'
  BY <1>12 DEF Remove
<1>13. ASSUME NEW s \in Senders, Close(s) PROVE Handles'
  BY <1>13 DEF Close, mvars
<1>14. ASSUME NEW s \in Senders, Clean(s) PROVE Handles'
  BY <1>14 DEF Clean, mvars
<1>15. ASSUME NEW s \in Senders, Unlock(s) PROVE Handles'
  BY <1>15 DEF Unlock, mvars
<1>16. ASSUME NEW s \in Senders, Raise(s) PROVE Handles'
  BY <1>16 DEF Raise, Die, mvars, Trips
<1>17. ASSUME NEW s \in Senders, Kill(s) PROVE Handles'
  BY <1>17 DEF Kill, ZipOpen, Die, mvars
<1>18. ASSUME OperatorUnlock PROVE Handles'
  BY <1>18 DEF OperatorUnlock, mvars
<1>19. ASSUME UNCHANGED vars PROVE Handles'
  BY <1>19 DEF vars, mvars, svars
<1> QED
  BY <1>1, <1>2, <1>3, <1>4, <1>5, <1>6, <1>7, <1>8, <1>9, <1>10, <1>11, <1>12,
     <1>13, <1>14, <1>15, <1>16, <1>17, <1>18, <1>19
  DEF Next, Works, Runs

(* Initially nothing is listed. *)
LEMMA ListingsInit == Init => Listings
BY DEF Init, Listings

(* What a run listed (162, 179) stays what is there until it handles it. *)
LEMMA ListingsStep ==
  Typed /\ Exclusive /\ Listings /\ [Next]_vars => Listings'
<1> SUFFICES ASSUME Typed, Exclusive, Listings, [Next]_vars PROVE Listings'
    OBVIOUS
<1> USE DEF Typed, TypeOK, Exclusive, Active, Listings
<1>1. ASSUME NEW m \in Monitors, Check(m) PROVE Listings'
  BY <1>1 DEF Check, svars
<1>2. ASSUME NEW m \in Monitors, Open(m) PROVE Listings'
  BY <1>2 DEF Open, svars
<1>3. ASSUME NEW m \in Monitors, Write(m) PROVE Listings'
  BY <1>3 DEF Write, svars
<1>4. ASSUME NEW m \in Monitors, Forget(m) PROVE Listings'
  BY <1>4 DEF Forget, svars
<1>5. ASSUME NEW s \in Senders, Start(s) PROVE Listings'
  BY <1>5 DEF Start, mvars
<1>6. ASSUME NEW s \in Senders, Acquire(s) PROVE Listings'
  BY <1>6 DEF Acquire, mvars
<1>7. ASSUME NEW s \in Senders, NEW f \in Files, Move(s, f) PROVE Listings'
  BY <1>7 DEF Move
<1>8. ASSUME NEW s \in Senders, ListTmpin(s) PROVE Listings'
  BY <1>8 DEF ListTmpin, mvars
<1>9. ASSUME NEW s \in Senders, NEW f \in Files, Take(s, f) PROVE Listings'
  BY <1>9 DEF Take, mvars
<1>10. ASSUME NEW s \in Senders, NEW v \in Servers, Send(s, v) PROVE Listings'
  BY <1>10 DEF Send, mvars
<1>11. ASSUME NEW s \in Senders, ZipWrite(s) PROVE Listings'
  BY <1>11 DEF ZipWrite, mvars
<1>12. ASSUME NEW s \in Senders, Remove(s) PROVE Listings'
  BY <1>12 DEF Remove
<1>13. ASSUME NEW s \in Senders, Close(s) PROVE Listings'
  BY <1>13 DEF Close, mvars
<1>14. ASSUME NEW s \in Senders, Clean(s) PROVE Listings'
  BY <1>14 DEF Clean, mvars
<1>15. ASSUME NEW s \in Senders, Unlock(s) PROVE Listings'
  BY <1>15 DEF Unlock, mvars
<1>16. ASSUME NEW s \in Senders, Raise(s) PROVE Listings'
  BY <1>16 DEF Raise, Die, mvars, Trips
<1>17. ASSUME NEW s \in Senders, Kill(s) PROVE Listings'
  BY <1>17 DEF Kill, ZipOpen, Die, mvars
<1>18. ASSUME OperatorUnlock PROVE Listings'
  BY <1>18 DEF OperatorUnlock, mvars
<1>19. ASSUME UNCHANGED vars PROVE Listings'
  BY <1>19 DEF vars, mvars, svars
<1> QED
  BY <1>1, <1>2, <1>3, <1>4, <1>5, <1>6, <1>7, <1>8, <1>9, <1>10, <1>11, <1>12,
     <1>13, <1>14, <1>15, <1>16, <1>17, <1>18, <1>19
  DEF Next, Works, Runs

(* Initially there are no files. *)
LEMMA ContentsInit == Init => Contents
BY DEF Init, Contents

(* A name that is not there has no lines. *)
LEMMA ContentsStep ==
  Typed /\ Handles /\ Contents /\ [Next]_vars => Contents'
<1> SUFFICES ASSUME Typed, Handles, Contents, [Next]_vars PROVE Contents'
    OBVIOUS
<1> USE OutFileAssumption DEF Typed, TypeOK, Handles, Contents
<1>1. ASSUME NEW m \in Monitors, Check(m) PROVE Contents'
  BY <1>1 DEF Check, svars
<1>2. ASSUME NEW m \in Monitors, Open(m) PROVE Contents'
  BY <1>2 DEF Open, svars
<1>3. ASSUME NEW m \in Monitors, Write(m) PROVE Contents'
  BY <1>3 DEF Write, svars
<1>4. ASSUME NEW m \in Monitors, Forget(m) PROVE Contents'
  BY <1>4 DEF Forget, svars
<1>5. ASSUME NEW s \in Senders, Start(s) PROVE Contents'
  BY <1>5 DEF Start, mvars
<1>6. ASSUME NEW s \in Senders, Acquire(s) PROVE Contents'
  BY <1>6 DEF Acquire, mvars
<1>7. ASSUME NEW s \in Senders, NEW f \in Files, Move(s, f) PROVE Contents'
  BY <1>7 DEF Move
<1>8. ASSUME NEW s \in Senders, ListTmpin(s) PROVE Contents'
  BY <1>8 DEF ListTmpin, mvars
<1>9. ASSUME NEW s \in Senders, NEW f \in Files, Take(s, f) PROVE Contents'
  BY <1>9 DEF Take, mvars
<1>10. ASSUME NEW s \in Senders, NEW v \in Servers, Send(s, v) PROVE Contents'
  BY <1>10 DEF Send, mvars
<1>11. ASSUME NEW s \in Senders, ZipWrite(s) PROVE Contents'
  BY <1>11 DEF ZipWrite, mvars
<1>12. ASSUME NEW s \in Senders, Remove(s) PROVE Contents'
  BY <1>12 DEF Remove
<1>13. ASSUME NEW s \in Senders, Close(s) PROVE Contents'
  BY <1>13 DEF Close, mvars
<1>14. ASSUME NEW s \in Senders, Clean(s) PROVE Contents'
  BY <1>14 DEF Clean, mvars
<1>15. ASSUME NEW s \in Senders, Unlock(s) PROVE Contents'
  BY <1>15 DEF Unlock, mvars
<1>16. ASSUME NEW s \in Senders, Raise(s) PROVE Contents'
  BY <1>16 DEF Raise, Die, mvars, Trips
<1>17. ASSUME NEW s \in Senders, Kill(s) PROVE Contents'
  BY <1>17 DEF Kill, ZipOpen, Die, mvars
<1>18. ASSUME OperatorUnlock PROVE Contents'
  BY <1>18 DEF OperatorUnlock, mvars
<1>19. ASSUME UNCHANGED vars PROVE Contents'
  BY <1>19 DEF vars, mvars, svars
<1> QED
  BY <1>1, <1>2, <1>3, <1>4, <1>5, <1>6, <1>7, <1>8, <1>9, <1>10, <1>11, <1>12,
     <1>13, <1>14, <1>15, <1>16, <1>17, <1>18, <1>19
  DEF Next, Works, Runs

(* Initially no run has died. *)
LEMMA NoRiskInit == Init => NoRisk
BY DEF Init, NoRisk

(* Without kills no run dies: it never trips either. *)
LEMMA NoRiskStep ==
  Exclusive /\ Listings /\ NoRisk /\ [Next]_vars => NoRisk'
<1> SUFFICES ASSUME Exclusive, Listings, NoRisk, [Next]_vars PROVE NoRisk'
    OBVIOUS
<1> USE DEF Exclusive, Active, Listings, NoRisk
<1>1. ASSUME NEW m \in Monitors, Check(m) PROVE NoRisk'
  BY <1>1 DEF Check, svars
<1>2. ASSUME NEW m \in Monitors, Open(m) PROVE NoRisk'
  BY <1>2 DEF Open, svars
<1>3. ASSUME NEW m \in Monitors, Write(m) PROVE NoRisk'
  BY <1>3 DEF Write, svars
<1>4. ASSUME NEW m \in Monitors, Forget(m) PROVE NoRisk'
  BY <1>4 DEF Forget, svars
<1>5. ASSUME NEW s \in Senders, Start(s) PROVE NoRisk'
  BY <1>5 DEF Start, mvars
<1>6. ASSUME NEW s \in Senders, Acquire(s) PROVE NoRisk'
  BY <1>6 DEF Acquire, mvars
<1>7. ASSUME NEW s \in Senders, NEW f \in Files, Move(s, f) PROVE NoRisk'
  BY <1>7 DEF Move
<1>8. ASSUME NEW s \in Senders, ListTmpin(s) PROVE NoRisk'
  BY <1>8 DEF ListTmpin, mvars
<1>9. ASSUME NEW s \in Senders, NEW f \in Files, Take(s, f) PROVE NoRisk'
  BY <1>9 DEF Take, mvars
<1>10. ASSUME NEW s \in Senders, NEW v \in Servers, Send(s, v) PROVE NoRisk'
  BY <1>10 DEF Send, mvars
<1>11. ASSUME NEW s \in Senders, ZipWrite(s) PROVE NoRisk'
  BY <1>11 DEF ZipWrite, mvars
<1>12. ASSUME NEW s \in Senders, Remove(s) PROVE NoRisk'
  BY <1>12 DEF Remove
<1>13. ASSUME NEW s \in Senders, Close(s) PROVE NoRisk'
  BY <1>13 DEF Close, mvars
<1>14. ASSUME NEW s \in Senders, Clean(s) PROVE NoRisk'
  BY <1>14 DEF Clean, mvars
<1>15. ASSUME NEW s \in Senders, Unlock(s) PROVE NoRisk'
  BY <1>15 DEF Unlock, mvars
<1>16. ASSUME NEW s \in Senders, Raise(s) PROVE NoRisk'
  BY <1>16 DEF Raise, Die, mvars, Trips
<1>17. ASSUME NEW s \in Senders, Kill(s) PROVE NoRisk'
  BY <1>17 DEF Kill, ZipOpen, Die, mvars
<1>18. ASSUME OperatorUnlock PROVE NoRisk'
  BY <1>18 DEF OperatorUnlock, mvars
<1>19. ASSUME UNCHANGED vars PROVE NoRisk'
  BY <1>19 DEF vars, mvars, svars
<1> QED
  BY <1>1, <1>2, <1>3, <1>4, <1>5, <1>6, <1>7, <1>8, <1>9, <1>10, <1>11, <1>12,
     <1>13, <1>14, <1>15, <1>16, <1>17, <1>18, <1>19
  DEF Next, Works, Runs

(* Initially no line is in a zip. *)
LEMMA OffersInit == Init => Offers
BY DEF Init, Offers

(* A file is zipped only after every server was served (201-226). *)
LEMMA OffersStep ==
  Typed /\ Exclusive /\ Offers /\ [Next]_vars => Offers'
<1> SUFFICES ASSUME Typed, Exclusive, Offers, [Next]_vars PROVE Offers'
    OBVIOUS
<1> USE DEF Typed, TypeOK, Exclusive, Active, Offers
<1>1. ASSUME NEW m \in Monitors, Check(m) PROVE Offers'
  BY <1>1 DEF Check, svars
<1>2. ASSUME NEW m \in Monitors, Open(m) PROVE Offers'
  BY <1>2 DEF Open, svars
<1>3. ASSUME NEW m \in Monitors, Write(m) PROVE Offers'
  BY <1>3 DEF Write, svars
<1>4. ASSUME NEW m \in Monitors, Forget(m) PROVE Offers'
  BY <1>4 DEF Forget, svars
<1>5. ASSUME NEW s \in Senders, Start(s) PROVE Offers'
  BY <1>5 DEF Start, mvars
<1>6. ASSUME NEW s \in Senders, Acquire(s) PROVE Offers'
  BY <1>6 DEF Acquire, mvars
<1>7. ASSUME NEW s \in Senders, NEW f \in Files, Move(s, f) PROVE Offers'
  BY <1>7 DEF Move
<1>8. ASSUME NEW s \in Senders, ListTmpin(s) PROVE Offers'
  BY <1>8 DEF ListTmpin, mvars
<1>9. ASSUME NEW s \in Senders, NEW f \in Files, Take(s, f) PROVE Offers'
  BY <1>9 DEF Take, mvars
<1>10. ASSUME NEW s \in Senders, NEW v \in Servers, Send(s, v) PROVE Offers'
  BY <1>10 DEF Send, mvars
<1>11. ASSUME NEW s \in Senders, ZipWrite(s) PROVE Offers'
  BY <1>11 DEF ZipWrite, mvars
<1>12. ASSUME NEW s \in Senders, Remove(s) PROVE Offers'
  BY <1>12 DEF Remove
<1>13. ASSUME NEW s \in Senders, Close(s) PROVE Offers'
  BY <1>13 DEF Close, mvars
<1>14. ASSUME NEW s \in Senders, Clean(s) PROVE Offers'
  BY <1>14 DEF Clean, mvars
<1>15. ASSUME NEW s \in Senders, Unlock(s) PROVE Offers'
  BY <1>15 DEF Unlock, mvars
<1>16. ASSUME NEW s \in Senders, Raise(s) PROVE Offers'
  BY <1>16 DEF Raise, Die, mvars, Trips
<1>17. ASSUME NEW s \in Senders, Kill(s) PROVE Offers'
  BY <1>17 DEF Kill, ZipOpen, Die, mvars
<1>18. ASSUME OperatorUnlock PROVE Offers'
  BY <1>18 DEF OperatorUnlock, mvars
<1>19. ASSUME UNCHANGED vars PROVE Offers'
  BY <1>19 DEF vars, mvars, svars
<1> QED
  BY <1>1, <1>2, <1>3, <1>4, <1>5, <1>6, <1>7, <1>8, <1>9, <1>10, <1>11, <1>12,
     <1>13, <1>14, <1>15, <1>16, <1>17, <1>18, <1>19
  DEF Next, Works, Runs

(* Initially no line was written. *)
LEMMA CoveredInit == Init => Covered
BY DEF Init, Covered, Line

(* Every line written stays somewhere; what is overwritten (168) or removed
   (227) is also somewhere else. *)
LEMMA CoveredStep ==
  Typed /\ Exclusive /\ Handles /\ Listings /\ Contents /\ Covered /\ [Next]_vars => Covered'
<1> SUFFICES ASSUME Typed, Exclusive, Handles, Listings, Contents, Covered, [Next]_vars PROVE Covered'
    OBVIOUS
<1> USE OutFileAssumption DEF Typed, TypeOK, Exclusive, Active, Handles, Listings, Contents, Covered, Somewhere
<1>1. ASSUME NEW m \in Monitors, Check(m) PROVE Covered'
  BY <1>1 DEF Check, svars
<1>2. ASSUME NEW m \in Monitors, Open(m) PROVE Covered'
  BY <1>2 DEF Open, svars
<1>3. ASSUME NEW m \in Monitors, Write(m) PROVE Covered'
  <2> DEFINE line == <<m, count[m] + 1>>
  <2>1. /\ mpc[m] = "write"
        /\ count' = [count EXCEPT ![m] = @ + 1]
        /\ out' = IF handle[m] = "out" THEN [out EXCEPT ![OutFile[m]] = @ \cup {line}] ELSE out
        /\ tmp' = IF handle[m] = "tmp" THEN [tmp EXCEPT ![OutFile[m]] = @ \cup {line}] ELSE tmp
        /\ late' = IF handle[m] = "out" THEN late ELSE late \cup {line}
        /\ UNCHANGED <<outDir, tmpDir, spc, todo, cur, left, zip, archive, expired, atRisk>>
    BY <1>3 DEF Write, svars
  <2>2. OutFile[m] \in Files
    OBVIOUS
  <2>3. ASSUME NEW f \in Files PROVE tmp'[f] \subseteq tmp[f] \cup late' /\ out[f] \subseteq out'[f]
    BY <2>1, <2>2
  <2>4. late \subseteq late' /\ \A f \in Files : tmp[f] \subseteq tmp'[f]
    BY <2>1, <2>2
  <2>5. line \in late' \/ line \in out'[OutFile[m]]
    BY <2>1, <2>2
  <2>6. ASSUME NEW l \in Line, l[2] <= count'[l[1]] PROVE Somewhere(l)'
    <3> HIDE DEF line
    <3>1. CASE l[2] <= count[l[1]]
      <4>1. Somewhere(l)
        BY <3>1
      <4> QED
        BY ONLY <4>1, <2>1, <2>3, <2>4 DEF Somewhere
    <3>2. CASE ~(l[2] <= count[l[1]])
      <4>1. l = line
        BY <2>1, <2>6, <3>2 DEF Line, line
      <4> QED
        BY ONLY <4>1, <2>2, <2>5 DEF Somewhere
    <3> QED
      BY <3>1, <3>2
  <2>7. \A s \in Senders : spc'[s] = "remove" => tmp'[cur'[s]] \subseteq zip'[s] \cup late'
    BY <2>1, <2>3, <2>4
  <2>8. \A s \in Senders : spc'[s] = "move" =>
           \A f \in todo'[s] : tmp'[f] \subseteq atRisk' \cup late'
    BY <2>1, <2>3, <2>4
  <2>9. (\A s \in Senders : s \notin Active') =>
           \A f \in Files : tmp'[f] \subseteq atRisk' \cup late'
    BY <2>1, <2>3, <2>4
  <2> HIDE DEF line, Typed, TypeOK, Exclusive, Handles, Listings, Contents, Somewhere, Active
  <2> QED
    BY <2>6, <2>7, <2>8, <2>9 DEF Covered
<1>4. ASSUME NEW m \in Monitors, Forget(m) PROVE Covered'
  BY <1>4 DEF Forget, svars
<1>5. ASSUME NEW s \in Senders, Start(s) PROVE Covered'
  BY <1>5 DEF Start, mvars
<1>6. ASSUME NEW s \in Senders, Acquire(s) PROVE Covered'
  BY <1>6 DEF Acquire, mvars
<1>7. ASSUME NEW s \in Senders, NEW f \in Files, Move(s, f) PROVE Covered'
  BY <1>7 DEF Move
<1>8. ASSUME NEW s \in Senders, ListTmpin(s) PROVE Covered'
  BY <1>8 DEF ListTmpin, mvars
<1>9. ASSUME NEW s \in Senders, NEW f \in Files, Take(s, f) PROVE Covered'
  BY <1>9 DEF Take, mvars
<1>10. ASSUME NEW s \in Senders, NEW v \in Servers, Send(s, v) PROVE Covered'
  BY <1>10 DEF Send, mvars
<1>11. ASSUME NEW s \in Senders, ZipWrite(s) PROVE Covered'
  BY <1>11 DEF ZipWrite, mvars
<1>12. ASSUME NEW s \in Senders, Remove(s) PROVE Covered'
  BY <1>12 DEF Remove
<1>13. ASSUME NEW s \in Senders, Close(s) PROVE Covered'
  BY <1>13 DEF Close, mvars
<1>14. ASSUME NEW s \in Senders, Clean(s) PROVE Covered'
  BY <1>14 DEF Clean, mvars
<1>15. ASSUME NEW s \in Senders, Unlock(s) PROVE Covered'
  <2>1. ASSUME NEW l \in Line, Somewhere(l) PROVE Somewhere(l)'
    <3>1. ASSUME NEW t \in Senders, l \in zip[t] PROVE Somewhere(l)'
      <4>1. CASE t = s
        <5>1. zip[s] \in archive'
          BY <1>15, <3>1, <4>1 DEF Unlock
        <5> QED
          BY <5>1, <3>1, <4>1 DEF Somewhere
      <4>2. CASE t # s
        BY <1>15, <3>1, <4>2 DEF Unlock
      <4> QED
        BY <4>1, <4>2
    <3>2. archive \subseteq archive'
      BY <1>15 DEF Unlock
    <3> QED
      BY <1>15, <2>1, <3>1, <3>2 DEF Unlock, mvars
  <2>2. \A t \in Senders : spc'[t] # "move" /\ spc'[t] # "remove"
    BY <1>15 DEF Unlock
  <2>3. \A f \in Files : tmp'[f] = {}
    BY <1>15 DEF Unlock
  <2>4. count' = count
    BY <1>15 DEF Unlock, mvars
  <2> QED
    BY <2>1, <2>2, <2>3, <2>4
<1>16. ASSUME NEW s \in Senders, Raise(s) PROVE Covered'
  BY <1>16 DEF Raise, Die, mvars, Trips
<1>17. ASSUME NEW s \in Senders, Kill(s) PROVE Covered'
  BY <1>17 DEF Kill, ZipOpen, Die, mvars
<1>18. ASSUME OperatorUnlock PROVE Covered'
  BY <1>18 DEF OperatorUnlock, mvars
<1>19. ASSUME UNCHANGED vars PROVE Covered'
  BY <1>19 DEF vars, mvars, svars
<1> QED
  BY <1>1, <1>2, <1>3, <1>4, <1>5, <1>6, <1>7, <1>8, <1>9, <1>10, <1>11, <1>12,
     <1>13, <1>14, <1>15, <1>16, <1>17, <1>18, <1>19
  DEF Next, Works, Runs

(* The line a monitor is about to write is a new one. *)
LEMMA NextLine ==
    ASSUME Typed, NEW m \in Monitors, mpc[m] = "write"
    PROVE  /\ <<m, count[m] + 1>> \in Line
           /\ ~(<<m, count[m] + 1>>[2] <= count[<<m, count[m] + 1>>[1]])
<1>1. count[m] \in 0..MaxLines /\ count[m] < MaxLines
  BY DEF Typed, TypeOK, Room
<1>2. count[m] + 1 \in 1..MaxLines
  BY <1>1, MaxLinesAssumption
<1> QED
  BY <1>1, <1>2, MaxLinesAssumption DEF Line

(* Initially no place has a line. *)
LEMMA FreshInit == Init => Fresh
BY DEF Init, Fresh

(* No place has a line that was not written yet. *)
LEMMA FreshStep ==
  Typed /\ Fresh /\ [Next]_vars => Fresh'
<1> SUFFICES ASSUME Typed, Fresh, [Next]_vars PROVE Fresh'
    OBVIOUS
<1> USE OutFileAssumption DEF Typed, TypeOK, Fresh
<1>1. ASSUME NEW m \in Monitors, Check(m) PROVE Fresh'
  BY <1>1 DEF Check, svars
<1>2. ASSUME NEW m \in Monitors, Open(m) PROVE Fresh'
  BY <1>2 DEF Open, svars
<1>3. ASSUME NEW m \in Monitors, Write(m) PROVE Fresh'
  <2> DEFINE line == <<m, count[m] + 1>>
  <2>1. /\ count' = [count EXCEPT ![m] = @ + 1]
        /\ out' = IF handle[m] = "out" THEN [out EXCEPT ![OutFile[m]] = @ \cup {line}] ELSE out
        /\ tmp' = IF handle[m] = "tmp" THEN [tmp EXCEPT ![OutFile[m]] = @ \cup {line}] ELSE tmp
        /\ late' = IF handle[m] = "out" THEN late ELSE late \cup {line}
        /\ UNCHANGED <<zip, offered, archive, expired>>
    BY <1>3 DEF Write, svars
  <2>2. SUFFICES ASSUME NEW l \in Line, ~(l[2] <= count'[l[1]])
                 PROVE  /\ l \notin late' /\ l \notin expired'
                        /\ \A f \in Files : l \notin out'[f] /\ l \notin tmp'[f]
                        /\ \A s \in Senders : l \notin zip'[s]
                        /\ \A z \in archive' : l \notin z
                        /\ \A v \in Servers : l \notin offered'[v]
    BY DEF Fresh
  <2>3. l # line /\ ~(l[2] <= count[l[1]])
    BY <2>1, <2>2 DEF Line
  <2> HIDE DEF line
  <2> QED
    BY <2>1, <2>3
<1>4. ASSUME NEW m \in Monitors, Forget(m) PROVE Fresh'
  BY <1>4 DEF Forget, svars
<1>5. ASSUME NEW s \in Senders, Start(s) PROVE Fresh'
  BY <1>5 DEF Start, mvars
<1>6. ASSUME NEW s \in Senders, Acquire(s) PROVE Fresh'
  BY <1>6 DEF Acquire, mvars
<1>7. ASSUME NEW s \in Senders, NEW f \in Files, Move(s, f) PROVE Fresh'
  BY <1>7 DEF Move
<1>8. ASSUME NEW s \in Senders, ListTmpin(s) PROVE Fresh'
  BY <1>8 DEF ListTmpin, mvars
<1>9. ASSUME NEW s \in Senders, NEW f \in Files, Take(s, f) PROVE Fresh'
  BY <1>9 DEF Take, mvars
<1>10. ASSUME NEW s \in Senders, NEW v \in Servers, Send(s, v) PROVE Fresh'
  BY <1>10 DEF Send, mvars
<1>11. ASSUME NEW s \in Senders, ZipWrite(s) PROVE Fresh'
  BY <1>11 DEF ZipWrite, mvars
<1>12. ASSUME NEW s \in Senders, Remove(s) PROVE Fresh'
  BY <1>12 DEF Remove
<1>13. ASSUME NEW s \in Senders, Close(s) PROVE Fresh'
  BY <1>13 DEF Close, mvars
<1>14. ASSUME NEW s \in Senders, Clean(s) PROVE Fresh'
  BY <1>14 DEF Clean, mvars
<1>15. ASSUME NEW s \in Senders, Unlock(s) PROVE Fresh'
  BY <1>15 DEF Unlock, mvars
<1>16. ASSUME NEW s \in Senders, Raise(s) PROVE Fresh'
  BY <1>16 DEF Raise, Die, mvars, Trips
<1>17. ASSUME NEW s \in Senders, Kill(s) PROVE Fresh'
  BY <1>17 DEF Kill, ZipOpen, Die, mvars
<1>18. ASSUME OperatorUnlock PROVE Fresh'
  BY <1>18 DEF OperatorUnlock, mvars
<1>19. ASSUME UNCHANGED vars PROVE Fresh'
  BY <1>19 DEF vars, mvars, svars
<1> QED
  BY <1>1, <1>2, <1>3, <1>4, <1>5, <1>6, <1>7, <1>8, <1>9, <1>10, <1>11, <1>12,
     <1>13, <1>14, <1>15, <1>16, <1>17, <1>18, <1>19
  DEF Next, Works, Runs

(* Initially no place has a line. *)
LEMMA ApartInit == Init => Apart
BY DEF Init, Apart

(* A line that was in time is in one place only, but between zip and remove. *)
LEMMA ApartStep ==
  Typed /\ Exclusive /\ Listings /\ Contents /\ Fresh /\ Apart /\ [Next]_vars => Apart'
<1> SUFFICES ASSUME Typed, Exclusive, Listings, Contents, Fresh, Apart, [Next]_vars PROVE Apart'
    OBVIOUS
<1> USE OutFileAssumption DEF Typed, TypeOK, Exclusive, Active, Listings, Contents, Fresh, Apart
<1>1. ASSUME NEW m \in Monitors, Check(m) PROVE Apart'
  BY <1>1 DEF Check, svars
<1>2. ASSUME NEW m \in Monitors, Open(m) PROVE Apart'
  BY <1>2 DEF Open, svars
<1>3. ASSUME NEW m \in Monitors, Write(m) PROVE Apart'
  BY <1>3 DEF Write, svars
<1>4. ASSUME NEW m \in Monitors, Forget(m) PROVE Apart'
  BY <1>4 DEF Forget, svars
<1>5. ASSUME NEW s \in Senders, Start(s) PROVE Apart'
  BY <1>5 DEF Start, mvars
<1>6. ASSUME NEW s \in Senders, Acquire(s) PROVE Apart'
  BY <1>6 DEF Acquire, mvars
<1>7. ASSUME NEW s \in Senders, NEW f \in Files, Move(s, f) PROVE Apart'
  BY <1>7 DEF Move
<1>8. ASSUME NEW s \in Senders, ListTmpin(s) PROVE Apart'
  BY <1>8 DEF ListTmpin, mvars
<1>9. ASSUME NEW s \in Senders, NEW f \in Files, Take(s, f) PROVE Apart'
  BY <1>9 DEF Take, mvars
<1>10. ASSUME NEW s \in Senders, NEW v \in Servers, Send(s, v) PROVE Apart'
  BY <1>10 DEF Send, mvars
<1>11. ASSUME NEW s \in Senders, ZipWrite(s) PROVE Apart'
  BY <1>11 DEF ZipWrite, mvars
<1>12. ASSUME NEW s \in Senders, Remove(s) PROVE Apart'
  BY <1>12 DEF Remove
<1>13. ASSUME NEW s \in Senders, Close(s) PROVE Apart'
  BY <1>13 DEF Close, mvars
<1>14. ASSUME NEW s \in Senders, Clean(s) PROVE Apart'
  BY <1>14 DEF Clean, mvars
<1>15. ASSUME NEW s \in Senders, Unlock(s) PROVE Apart'
  BY <1>15 DEF Unlock, mvars
<1>16. ASSUME NEW s \in Senders, Raise(s) PROVE Apart'
  BY <1>16 DEF Raise, Die, mvars, Trips
<1>17. ASSUME NEW s \in Senders, Kill(s) PROVE Apart'
  BY <1>17 DEF Kill, ZipOpen, Die, mvars
<1>18. ASSUME OperatorUnlock PROVE Apart'
  BY <1>18 DEF OperatorUnlock, mvars
<1>19. ASSUME UNCHANGED vars PROVE Apart'
  BY <1>19 DEF vars, mvars, svars
<1> QED
  BY <1>1, <1>2, <1>3, <1>4, <1>5, <1>6, <1>7, <1>8, <1>9, <1>10, <1>11, <1>12,
     <1>13, <1>14, <1>15, <1>16, <1>17, <1>18, <1>19
  DEF Next, Works, Runs

(* Initially nothing was written or sent. *)
LEMMA OrderedInit == Init => Ordered
BY DEF Init, Ordered, InOrder, Follows

(* What was written before a line is with it, or was collected earlier. *)
LEMMA EarlierCollected ==
    ASSUME IInv, Fresh, Apart, NEW m \in Monitors, mpc[m] = "write",
           NEW e \in Earlier(<<m, count[m] + 1>>), NEW v \in Servers
    PROVE  /\ e # <<m, count[m] + 1>>
           /\ e \in out[OutFile[m]] \cup tmp[OutFile[m]] \cup offered[v] \cup late \cup atRisk
<1>1. e \in Line /\ e[1] = m /\ e[2] < count[m] + 1
  BY DEF Earlier
<1>2. e[2] <= count[e[1]] /\ e # <<m, count[m] + 1>>
  BY <1>1, MaxLinesAssumption DEF IInv, Typed, TypeOK, Line
<1>3. Somewhere(e)
  BY <1>1, <1>2 DEF IInv, Covered
<1>4. \A f \in Files : e \in out[f] \cup tmp[f] => f = OutFile[m]
  BY <1>1 DEF Apart
<1>5. /\ \A s \in Senders : e \in zip[s] => e \in offered[v] \cup late
      /\ \A z \in archive : e \in z => e \in offered[v] \cup late
      /\ e \in expired => e \in offered[v] \cup late
  BY DEF IInv, Offers
<1> QED
  BY <1>2, <1>3, <1>4, <1>5 DEF Somewhere

(* No step leaves a gap behind a line that a server got. *)
LEMMA OrderedStep ==
  IInv /\ Fresh /\ Apart /\ Ordered /\ [Next]_vars => Ordered'
<1> SUFFICES ASSUME IInv, Fresh, Apart, Ordered, [Next]_vars PROVE Ordered'
    OBVIOUS
<1> USE OutFileAssumption DEF Ordered, InOrder, Follows
<1>0. /\ out \in [Files -> SUBSET Line] /\ tmp \in [Files -> SUBSET Line]
      /\ offered \in [Servers -> SUBSET Line] /\ cur \in [Senders -> Files]
      /\ zip \in [Senders -> SUBSET Line]
  BY DEF IInv, Typed, TypeOK
<1>1. ASSUME UNCHANGED <<out, tmp, offered, late>>, atRisk \subseteq atRisk'
      PROVE  Ordered'
  BY <1>1
<1>2. ASSUME NEW m \in Monitors, Check(m) \/ Forget(m) PROVE Ordered'
  BY <1>1, <1>2 DEF Check, Forget, svars
<1>3. ASSUME NEW m \in Monitors, Open(m) PROVE Ordered'
  <2>1. mpc[m] = "create" => out[OutFile[m]] = {}
    BY DEF IInv, Handles, Contents
  <2>2. out' = out
    BY <1>0, <1>3, <2>1 DEF Open, Truncates
  <2> QED
    BY <1>1, <1>3, <2>2 DEF Open, svars
<1>4. ASSUME NEW m \in Monitors, Write(m) PROVE Ordered'
  <2> DEFINE line == <<m, count[m] + 1>>
             file == OutFile[m]
  <2>1. /\ mpc[m] = "write" /\ late \subseteq late' /\ UNCHANGED <<offered, atRisk>>
        /\ out' = IF handle[m] = "out" THEN [out EXCEPT ![file] = @ \cup {line}] ELSE out
        /\ tmp' = IF handle[m] = "tmp" THEN [tmp EXCEPT ![file] = @ \cup {line}] ELSE tmp
    BY <1>4 DEF Write, svars
  <2>2. handle[m] = "tmp" => out[file] = {}
    BY DEF IInv, Handles, Contents
  <2>3. \A e \in Earlier(line), v \in Servers :
          e \in out[file] \cup tmp[file] \cup offered[v] \cup late \cup atRisk
    BY <2>1, EarlierCollected
  <2>4. file \in Files
    OBVIOUS
  <2> HIDE DEF line, file
  <2> QED
    BY <1>0, <2>1, <2>2, <2>3, <2>4
<1>5. ASSUME NEW s \in Senders,
             \/ Start(s) \/ Acquire(s) \/ ListTmpin(s) \/ ZipWrite(s) \/ Close(s)
             \/ Clean(s) \/ Unlock(s)
      PROVE  Ordered'
  BY <1>1, <1>5 DEF Start, Acquire, ListTmpin, ZipWrite, Close, Clean, Unlock, mvars
<1>6. ASSUME NEW s \in Senders, NEW f \in Files, Move(s, f) PROVE Ordered'
  <2>1. tmp[f] \subseteq atRisk \cup late
    BY <1>6 DEF Move, IInv, Covered
  <2>2. /\ out' = [out EXCEPT ![f] = {}] /\ tmp' = [tmp EXCEPT ![f] = out[f]]
        /\ UNCHANGED <<offered, late, atRisk>>
    BY <1>6 DEF Move
  <2> QED
    BY <1>0, <2>1, <2>2
<1>7. ASSUME NEW s \in Senders, NEW f \in Files, Take(s, f) PROVE Ordered'
  BY <1>1, <1>7 DEF Take, mvars
<1>8. ASSUME NEW s \in Senders, NEW v \in Servers, Send(s, v) PROVE Ordered'
  <2>1. /\ offered' = [offered EXCEPT ![v] = @ \cup tmp[cur[s]]]
        /\ UNCHANGED <<out, tmp, late, atRisk>>
    BY <1>8 DEF Send, mvars
  <2>2. cur[s] \in Files
    BY <1>0
  <2> QED
    BY <1>0, <2>1, <2>2
<1>9. ASSUME NEW s \in Senders, Remove(s) PROVE Ordered'
  <2>1. \A v \in Servers : tmp[cur[s]] \subseteq offered[v] \cup late
    BY <1>9 DEF Remove, IInv, Covered, Offers
  <2>2. tmp' = [tmp EXCEPT ![cur[s]] = {}] /\ UNCHANGED <<out, offered, late, atRisk>>
    BY <1>9 DEF Remove
  <2>3. cur[s] \in Files
    BY <1>0
  <2> QED
    BY <1>0, <2>1, <2>2, <2>3
<1>10. ASSUME NEW s \in Senders, Raise(s) \/ Kill(s) PROVE Ordered'
  BY <1>1, <1>10 DEF Raise, Kill, Die, mvars
<1>11. ASSUME OperatorUnlock \/ UNCHANGED vars PROVE Ordered'
  BY <1>1, <1>11 DEF OperatorUnlock, vars, mvars, svars
<1> QED
  BY <1>2, <1>3, <1>4, <1>5, <1>6, <1>7, <1>8, <1>9, <1>10, <1>11 DEF Next, Works, Runs

(* Initially nothing was sent. *)
LEMMA UnsentInit == Init => Unsent
BY DEF Init, Unsent

(* Without kills, what is still to be sent (162-182) was not sent before. *)
LEMMA UnsentStep ==
  ~Kills /\ Typed /\ Exclusive /\ Listings /\ Contents /\ Fresh /\ Apart /\ Unsent /\ [Next]_vars => Unsent'
<1> SUFFICES ASSUME ~Kills, Typed, Exclusive, Listings, Contents, Fresh, Apart, Unsent, [Next]_vars PROVE Unsent'
    OBVIOUS
<1> USE OutFileAssumption DEF Typed, TypeOK, Exclusive, Active, Listings, Contents, Apart, Unsent
<1>1. ASSUME NEW m \in Monitors, Check(m) PROVE Unsent'
  BY <1>1 DEF Check, svars
<1>2. ASSUME NEW m \in Monitors, Open(m) PROVE Unsent'
  BY <1>2 DEF Open, svars
<1>3. ASSUME NEW m \in Monitors, Write(m) PROVE Unsent'
  <2> DEFINE line == <<m, count[m] + 1>>
  <2>1. \A v \in Servers : line \notin offered[v]
    <3>1. line \in Line /\ ~(line[2] <= count[line[1]])
      BY <1>3, NextLine DEF Write
    <3> QED
      BY <3>1 DEF Fresh
  <2>2. /\ \A f \in Files : tmp'[f] \subseteq tmp[f] \cup {line}
        /\ UNCHANGED <<tmpDir, spc, todo, cur, left, offered>>
    BY <1>3 DEF Write, svars
  <2> HIDE DEF line
  <2> QED
    BY <2>1, <2>2
<1>4. ASSUME NEW m \in Monitors, Forget(m) PROVE Unsent'
  BY <1>4 DEF Forget, svars
<1>5. ASSUME NEW s \in Senders, Start(s) PROVE Unsent'
  BY <1>5 DEF Start, mvars
<1>6. ASSUME NEW s \in Senders, Acquire(s) PROVE Unsent'
  BY <1>6 DEF Acquire, mvars
<1>7. ASSUME NEW s \in Senders, NEW f \in Files, Move(s, f) PROVE Unsent'
  BY <1>7 DEF Move
<1>8. ASSUME NEW s \in Senders, ListTmpin(s) PROVE Unsent'
  BY <1>8 DEF ListTmpin, mvars
<1>9. ASSUME NEW s \in Senders, NEW f \in Files, Take(s, f) PROVE Unsent'
  BY <1>9 DEF Take, mvars
<1>10. ASSUME NEW s \in Senders, NEW v \in Servers, Send(s, v) PROVE Unsent'
  <2>1. /\ spc[s] = "send" /\ v \in left[s]
        /\ offered' = [offered EXCEPT ![v] = @ \cup tmp[cur[s]]]
        /\ left' = [left EXCEPT ![s] = @ \ {v}]
        /\ UNCHANGED <<tmpDir, tmp, spc, todo, cur>>
    BY <1>10 DEF Send
  <2>2. \A f \in Files : f # cur[s] => tmp[f] \cap tmp[cur[s]] = {}
    OBVIOUS
  <2>3. cur[s] \notin todo[s]
    BY <2>1
  <2>4. \A t \in Senders : spc[t] # "off" => t = s
    BY <2>1
  <2>5. \A f \in todo[s], w \in Servers : tmp[f] \cap offered'[w] = {}
    BY <2>1, <2>2, <2>3
  <2>6. \A w \in left'[s] : w # v /\ offered'[w] = offered[w]
    BY <2>1
  <2> QED
    BY <2>1, <2>4, <2>5, <2>6
<1>11. ASSUME NEW s \in Senders, ZipWrite(s) PROVE Unsent'
  BY <1>11 DEF ZipWrite, mvars
<1>12. ASSUME NEW s \in Senders, Remove(s) PROVE Unsent'
  BY <1>12 DEF Remove
<1>13. ASSUME NEW s \in Senders, Close(s) PROVE Unsent'
  BY <1>13 DEF Close, mvars
<1>14. ASSUME NEW s \in Senders, Clean(s) PROVE Unsent'
  BY <1>14 DEF Clean, mvars
<1>15. ASSUME NEW s \in Senders, Unlock(s) PROVE Unsent'
  BY <1>15 DEF Unlock, mvars
<1>16. ASSUME NEW s \in Senders, Raise(s) PROVE Unsent'
  BY <1>16 DEF Raise, Die, mvars, Trips
<1>17. ASSUME NEW s \in Senders, Kill(s) PROVE Unsent'
  BY <1>17 DEF Kill, ZipOpen, Die, mvars
<1>18. ASSUME OperatorUnlock PROVE Unsent'
  BY <1>18 DEF OperatorUnlock, mvars
<1>19. ASSUME UNCHANGED vars PROVE Unsent'
  BY <1>19 DEF vars, mvars, svars
<1> QED
  BY <1>1, <1>2, <1>3, <1>4, <1>5, <1>6, <1>7, <1>8, <1>9, <1>10, <1>11, <1>12,
     <1>13, <1>14, <1>15, <1>16, <1>17, <1>18, <1>19
  DEF Next, Works, Runs

(* Initially there is no lock. *)
LEMMA LockOwnedInit == Init => LockOwned
BY DEF Init, LockOwned

(* A lock is made (161) and removed (235) by the run that works. *)
LEMMA LockOwnedStep ==
  ~Kills /\ Typed /\ Exclusive /\ Listings /\ LockOwned /\ [Next]_vars => LockOwned'
<1> SUFFICES ASSUME ~Kills, Typed, Exclusive, Listings, LockOwned, [Next]_vars
             PROVE  LockOwned'
    OBVIOUS
<1> USE DEF Typed, TypeOK, Exclusive, Active, Listings, LockOwned
<1>1. ASSUME NEW m \in Monitors, Works(m) \/ Forget(m) PROVE LockOwned'
  BY <1>1 DEF Works, Check, Open, Write, Forget, svars
<1>2. ASSUME NEW s \in Senders, Start(s) PROVE LockOwned'
  BY <1>2 DEF Start
<1>3. ASSUME NEW s \in Senders, Unlock(s) PROVE LockOwned'
  BY <1>3 DEF Unlock
<1>4. ASSUME NEW s \in Senders, Runs(s), ~Unlock(s) PROVE s \in Active'
  <2>1. CASE Acquire(s) \/ ListTmpin(s) \/ ZipWrite(s)
    BY <2>1 DEF Acquire, ListTmpin, ZipWrite
  <2>2. CASE Remove(s) \/ Close(s) \/ Clean(s)
    BY <2>2 DEF Remove, Close, Clean
  <2>3. ASSUME NEW f \in Files, Move(s, f) \/ Take(s, f) PROVE s \in Active'
    BY <2>3 DEF Move, Take
  <2>4. ASSUME NEW v \in Servers, Send(s, v) PROVE s \in Active'
    BY <2>4 DEF Send
  <2> QED
    BY <1>4, <2>1, <2>2, <2>3, <2>4 DEF Runs
<1>5. ASSUME NEW s \in Senders, Raise(s) \/ Kill(s) PROVE FALSE
  BY <1>5 DEF Raise, Kill, Trips
<1>6. ASSUME OperatorUnlock PROVE LockOwned'
  BY <1>6 DEF OperatorUnlock
<1>7. ASSUME UNCHANGED vars PROVE LockOwned'
  BY <1>7 DEF vars, mvars, svars
<1> QED
  BY <1>1, <1>2, <1>3, <1>4, <1>5, <1>6, <1>7 DEF Next

-----------------------------------------------------------------------------
(* The parts of the invariant, assembled as they depend on each other. *)

(* Types and the bound on a call of to_outfile, as an invariant. *)
THEOREM TypeCorrect == Spec => []Typed
<1>1. Init => Typed
  BY TypedInit
<1>2. Typed /\ [Next]_vars => Typed'
  BY TypedStep
<1> QED
  BY <1>1, <1>2, PTL DEF Spec

(* Every variable keeps its type, whatever the number of processes and lines *)
(* and whether or not runs overlap or are killed.                            *)
THEOREM TypeSafety == Spec => []TypeOK
<1>1. Typed => TypeOK
  BY DEF Typed
<1> QED
  BY <1>1, TypeCorrect, PTL

(* Only a line that is new is added to a file (101-111); a move (168) takes  *)
(* what was in the other directory.                                          *)
LEMMA NeverBackStep == Typed /\ [Next]_vars => NeverBack
<1> SUFFICES ASSUME Typed, [Next]_vars PROVE NeverBack
    OBVIOUS
<1> USE OutFileAssumption DEF Typed, TypeOK, NeverBack, Written, InOut, InTmp, Archived
<1>1. ASSUME NEW m \in Monitors, Check(m) \/ Open(m) \/ Forget(m) PROVE NeverBack
  BY <1>1 DEF Check, Open, Forget, svars
<1>2. ASSUME NEW m \in Monitors, Write(m) PROVE NeverBack
  <2> DEFINE line == <<m, count[m] + 1>>
  <2>1. line \notin Written /\ Written \subseteq Written'
    BY <1>2 DEF Write, Line
  <2>2. /\ \A f \in Files : out'[f] \subseteq out[f] \cup {line}
        /\ \A f \in Files : tmp'[f] \subseteq tmp[f] \cup {line}
        /\ late \subseteq late' /\ UNCHANGED <<archive, expired, offered>>
    BY <1>2 DEF Write, svars
  <2> HIDE DEF line, Written, Typed, TypeOK
  <2> QED
    BY <2>1, <2>2
<1>3. ASSUME NEW s \in Senders, NEW f \in Files, Move(s, f) PROVE NeverBack
  BY <1>3 DEF Move
<1>4. ASSUME NEW s \in Senders, Start(s) \/ Acquire(s) \/ ListTmpin(s) PROVE NeverBack
  BY <1>4 DEF Start, Acquire, ListTmpin, mvars
<1>5. ASSUME NEW s \in Senders, NEW f \in Files, Take(s, f) PROVE NeverBack
  BY <1>5 DEF Take, mvars
<1>6. ASSUME NEW s \in Senders, NEW v \in Servers, Send(s, v) PROVE NeverBack
  BY <1>6 DEF Send, mvars
<1>7. ASSUME NEW s \in Senders, ZipWrite(s) \/ Remove(s) \/ Close(s) PROVE NeverBack
  BY <1>7 DEF ZipWrite, Remove, Close, mvars
<1>8. ASSUME NEW s \in Senders, Clean(s) PROVE NeverBack
  BY <1>8 DEF Clean, mvars
<1>9. ASSUME NEW s \in Senders, Unlock(s) PROVE NeverBack
  BY <1>9 DEF Unlock, mvars
<1>10. ASSUME NEW s \in Senders, NEW readable \in BOOLEAN, Die(s, readable) PROVE NeverBack
  BY <1>10 DEF Die, mvars
<1>11. ASSUME OperatorUnlock \/ UNCHANGED vars PROVE NeverBack
  BY <1>11 DEF OperatorUnlock, vars, mvars, svars
<1> QED
  BY <1>1, <1>2, <1>3, <1>4, <1>5, <1>6, <1>7, <1>8, <1>9, <1>10, <1>11
  DEF Next, Works, Runs, Raise, Kill

(* Whether or not runs overlap or are killed, and whoever writes what: lines *)
(* only go forward, from ZBXDB_OUT to TMPIN, and from the zips to the expired*)
(* ones.                                                                     *)
THEOREM LinesNeverReturn == Spec => [][NeverBack]_vars
<1>1. Typed /\ [Next]_vars => [NeverBack]_vars
  BY NeverBackStep
<1> QED
  BY <1>1, TypeCorrect, PTL DEF Spec

(* Monitors with files of their own never share one.                         *)
LEMMA OneWriterIsSole == OneWriterPerFile => Sole /\ Sole'
BY DEF OneWriterPerFile, Sole, Users

(* A monitor only writes to a file it lost when the loss fell between the    *)
(* exists() of this call and its write; needs one writer per file, and no    *)
(* assumption at all about the senders.                                      *)
THEOREM LateLinesAreRaces ==
    ASSUME OneWriterPerFile PROVE Spec => []LateOnlyIfRaced
<1>1. Init => Handles
  BY HandlesInit
<1>2. Typed /\ Handles /\ [Next]_vars => Handles'
  BY OneWriterPerFile, OneWriterIsSole, HandlesStep
<1>3. Handles => LateOnlyIfRaced
  BY DEF Handles, LateOnlyIfRaced
<1> QED
  BY <1>1, <1>2, <1>3, TypeCorrect, PTL DEF Spec

(* The lock file gives mutual exclusion when two starts do not fall between  *)
(* its test and its creation, also after runs that died.                     *)
THEOREM MutualExclusion ==
    ASSUME ~Overlap PROVE Spec => []OneRun
<1>1. Init => Exclusive
  BY ExclusiveInit
<1>2. Typed /\ Exclusive /\ [Next]_vars => Exclusive'
  BY ~Overlap, ExclusiveStep
<1>3. Exclusive => OneRun
  BY DEF Exclusive, OneRun, Active
<1> QED
  BY <1>1, <1>2, <1>3, TypeCorrect, PTL DEF Spec

(* The parts hold initially, *)
LEMMA InvInit == Init => IInv
BY TypedInit, ExclusiveInit, HandlesInit, ListingsInit, ContentsInit,
   CoveredInit, NoRiskInit, OffersInit DEF IInv

(* and are inductive together, as long as no file has two users.             *)
LEMMA InvStep ==
    ASSUME ~Overlap, Sole, Sole', IInv, [Next]_vars PROVE IInv'
BY TypedStep, ExclusiveStep, HandlesStep, ListingsStep, ContentsStep,
   CoveredStep, NoRiskStep, OffersStep DEF IInv

LEMMA Invariance ==
    ASSUME OneWriterPerFile, ~Overlap PROVE Spec => []IInv
<1>1. IInv /\ [Next]_vars => IInv'
  BY OneWriterPerFile, ~Overlap, OneWriterIsSole, InvStep
<1> QED
  BY <1>1, InvInit, PTL DEF Spec

(* What the invariant says of names, *)
LEMMA InvTrips == IInv => NeverTrips
BY DEF IInv, Exclusive, Listings, Active, NeverTrips, Trips

(* and of lines.                                                             *)
LEMMA InvLines == IInv => DeathLosesOnlyItsOwn /\ (~Kills => LineAccounted)
<1> SUFFICES ASSUME IInv PROVE DeathLosesOnlyItsOwn /\ (~Kills => LineAccounted)
  OBVIOUS
<1>1. ASSUME NEW l \in Line, l[2] <= count[l[1]], l \notin late
      PROVE  l \in Kept \/ l \in atRisk
  <2>1. Somewhere(l)
    BY <1>1 DEF IInv, Covered
  <2> QED
    BY <2>1, <1>1 DEF Somewhere, Kept, InOut, InTmp, InZip, Archived
<1>2. DeathLosesOnlyItsOwn
  BY <1>1 DEF DeathLosesOnlyItsOwn, Written
<1>3. ~Kills => LineAccounted
  BY <1>2 DEF IInv, NoRisk, DeathLosesOnlyItsOwn, LineAccounted
<1> QED
  BY <1>2, <1>3

(* A run never comes to a name that is no longer there. *)
THEOREM RunsNeverTrip ==
    ASSUME OneWriterPerFile, ~Overlap PROVE Spec => []NeverTrips
BY InvTrips, Invariance, PTL

(* A run that dies loses at most what was in TMPIN and in its own zip: every *)
(* other line that was in time is in a file, in a zip, or expired.           *)
THEOREM DeathsLoseOnlyTheirOwn ==
    ASSUME OneWriterPerFile, ~Overlap PROVE Spec => []DeathLosesOnlyItsOwn
<1>1. IInv => DeathLosesOnlyItsOwn
  BY InvLines
<1> QED
  BY <1>1, Invariance, PTL

(* Without kills no line that was in time is ever lost. *)
THEOREM NoLineLost ==
    ASSUME OneWriterPerFile, ~Overlap, ~Kills PROVE Spec => []LineAccounted
<1>1. IInv => LineAccounted
  BY ~Kills, InvLines
<1> QED
  BY <1>1, Invariance, PTL

(* Nothing that was in time is archived unless zabbix_sender read it for     *)
(* every server; holds with kills too.                                       *)
THEOREM NoServerSkipped ==
    ASSUME OneWriterPerFile, ~Overlap PROVE Spec => []OfferedBeforeArchived
<1>1. IInv => OfferedBeforeArchived
  BY DEF IInv, Offers, OfferedBeforeArchived, InZip, Archived
<1> QED
  BY <1>1, Invariance, PTL

(* Kills or not, no server gets a line of a monitor without those before it, *)
(* but for the lines that were late or in the hands of a run that died.      *)
THEOREM LinesComeInOrder ==
    ASSUME OneWriterPerFile, ~Overlap PROVE Spec => []InOrder
<1>1. Init => Fresh /\ Apart /\ Ordered
  BY FreshInit, ApartInit, OrderedInit
<1>2. IInv /\ Fresh /\ Apart /\ Ordered /\ [Next]_vars => Fresh' /\ Apart' /\ Ordered'
  BY FreshStep, ApartStep, OrderedStep DEF IInv
<1>3. Ordered => InOrder
  BY DEF Ordered
<1> QED
  BY <1>1, <1>2, <1>3, Invariance, PTL DEF Spec

(* Without kills the last parts hold as well: initially,                     *)
LEMMA LastInit == Init => Last
BY FreshInit, ApartInit, UnsentInit, LockOwnedInit DEF Last

(* and from each step to the next.                                           *)
LEMMA LastStep ==
    ASSUME ~Kills, IInv, Last, [Next]_vars PROVE Last'
BY ~Kills, FreshStep, ApartStep, UnsentStep, LockOwnedStep DEF IInv, Last

LEMMA FullInvariance ==
    ASSUME OneWriterPerFile, ~Overlap, ~Kills PROVE Spec => [](IInv /\ Last)
<1>1. IInv /\ Last /\ [Next]_vars => Last'
  BY ~Kills, LastStep
<1> QED
  BY <1>1, LastInit, Invariance, PTL DEF Spec

(* What is about to be sent was not sent.                                    *)
LEMMA InvSends == IInv /\ Last => OfferedOnce
BY DEF IInv, Typed, TypeOK, Last, Unsent, OfferedOnce

(* Without kills zabbix_sender never reads a line twice for one server. *)
THEOREM NothingSentTwice ==
    ASSUME OneWriterPerFile, ~Overlap, ~Kills PROVE Spec => []OfferedOnce
BY InvSends, FullInvariance, PTL

(* The empty directories are where Delivery begins. *)
LEMMA InitDelivers == Init => D!DInit
BY DEF Init, D!DInit, InOut, InTmp, InZip, Archived

(* Every step of the two scripts is a step of Delivery or leaves it as it is. *)
LEMMA StepDelivers ==
    ASSUME ~Kills, IInv, Last, [Next]_vars
    PROVE  [D!DNext]_(D!dvars)
<1> DEFINE P == (InOut \cup InTmp \cup InZip) \ late
           A == Archived \ late
           X == expired \ late
<1> USE OutFileAssumption DEF IInv, Typed, TypeOK, Last, InOut, InTmp, InZip, Archived
<1>1. ASSUME NEW m \in Monitors, Check(m) PROVE UNCHANGED <<P, late, offered, A, X>>
  BY <1>1 DEF Check, svars
<1>2. ASSUME NEW m \in Monitors, Open(m) PROVE UNCHANGED <<P, late, offered, A, X>>
  <2>1. out' = out
    BY <1>2 DEF Open, Handles, Contents
  <2> QED
    BY <1>2, <2>1 DEF Open, svars
<1>3. ASSUME NEW m \in Monitors, Write(m)
      PROVE  \E l \in Line : D!Emit(l) \/ D!EmitLate(l)
  <2> DEFINE line == <<m, count[m] + 1>>
  <2>1. line \in Line /\ ~(line[2] <= count[line[1]])
    BY <1>3, NextLine DEF Write
  <2>2. /\ line \notin late /\ line \notin expired /\ line \notin Archived
        /\ line \notin InOut /\ line \notin InTmp /\ line \notin InZip
    BY <2>1 DEF Fresh
  <2>3. UNCHANGED <<InZip, Archived, expired, offered>>
    BY <1>3 DEF Write, svars
  <2>4. /\ OutFile[m] \in Files
        /\ handle[m] = "out" => InOut' = InOut \cup {line} /\ InTmp' = InTmp /\ late' = late
        /\ handle[m] # "out" =>
              /\ InOut' = InOut /\ InTmp' \subseteq InTmp \cup {line}
              /\ InTmp \subseteq InTmp' /\ late' = late \cup {line}
    BY <1>3 DEF Write
  <2> HIDE DEF line, InOut, InTmp, InZip, Archived
  <2>5. CASE handle[m] = "out"
    BY <2>1, <2>2, <2>3, <2>4, <2>5 DEF D!Emit, D!Seen
  <2>6. CASE handle[m] # "out"
    BY <2>1, <2>2, <2>3, <2>4, <2>6 DEF D!EmitLate, D!Seen
  <2> QED
    BY <2>5, <2>6
<1>4. ASSUME NEW m \in Monitors, Forget(m) PROVE UNCHANGED <<P, late, offered, A, X>>
  BY <1>4 DEF Forget, svars
<1>5. ASSUME NEW s \in Senders, Start(s) PROVE UNCHANGED <<P, late, offered, A, X>>
  BY <1>5 DEF Start, mvars
<1>6. ASSUME NEW s \in Senders, Acquire(s) PROVE UNCHANGED <<P, late, offered, A, X>>
  BY <1>6 DEF Acquire, mvars
<1>7. ASSUME NEW s \in Senders, NEW f \in Files, Move(s, f)
      PROVE  UNCHANGED <<P, late, offered, A, X>>
  <2>1. tmp[f] \subseteq late
    BY ~Kills, <1>7 DEF Move, Covered, NoRisk
  <2>2. UNCHANGED <<late, offered, archive, expired, zip>>
    BY <1>7 DEF Move
  <2>3. /\ out' = [out EXCEPT ![f] = {}]
        /\ tmp' = [tmp EXCEPT ![f] = out[f]]
    BY <1>7 DEF Move
  <2>4. (InOut \cup InTmp) \ late = (InOut' \cup InTmp') \ late
    BY <2>1, <2>3
  <2>5. UNCHANGED <<InZip, Archived>>
    BY <2>2
  <2> HIDE DEF InOut, InTmp, InZip, Archived
  <2> QED
    BY <2>2, <2>4, <2>5
<1>8. ASSUME NEW s \in Senders, ListTmpin(s) PROVE UNCHANGED <<P, late, offered, A, X>>
  BY <1>8 DEF ListTmpin, mvars
<1>9. ASSUME NEW s \in Senders, NEW f \in Files, Take(s, f)
      PROVE  UNCHANGED <<P, late, offered, A, X>>
  BY <1>9 DEF Take, mvars
<1>10. ASSUME NEW s \in Senders, NEW v \in Servers, Send(s, v)
       PROVE  \E L \in SUBSET Line : D!Offer(v, L)
  <2>1. /\ tmp[cur[s]] \in SUBSET Line /\ tmp[cur[s]] \subseteq P \cup late
        /\ offered' = [offered EXCEPT ![v] = @ \cup tmp[cur[s]]]
        /\ UNCHANGED <<P, late, A, X>>
    BY <1>10 DEF Send, mvars
  <2> HIDE DEF InOut, InTmp, InZip, Archived, TypeOK
  <2> QED
    BY <2>1 DEF D!Offer
<1>11. ASSUME NEW s \in Senders, ZipWrite(s) PROVE UNCHANGED <<P, late, offered, A, X>>
  <2>1. InTmp' \cup InZip' = InTmp \cup InZip
    BY <1>11 DEF ZipWrite
  <2>2. UNCHANGED <<InOut, Archived, late, offered, expired>>
    BY <1>11 DEF ZipWrite, mvars
  <2> HIDE DEF InOut, InTmp, InZip, Archived
  <2> QED
    BY <2>1, <2>2
<1>12. ASSUME NEW s \in Senders, Remove(s) PROVE UNCHANGED <<P, late, offered, A, X>>
  <2>1. tmp[cur[s]] \subseteq zip[s] \cup late
    BY <1>12 DEF Remove, Covered
  <2>2. (InTmp' \cup InZip') \ late = (InTmp \cup InZip) \ late
    BY <1>12, <2>1 DEF Remove
  <2>3. UNCHANGED <<InOut, Archived, late, offered, expired>>
    BY <1>12 DEF Remove
  <2> HIDE DEF InOut, InTmp, InZip, Archived
  <2> QED
    BY <2>2, <2>3
<1>13. ASSUME NEW s \in Senders, Close(s) PROVE UNCHANGED <<P, late, offered, A, X>>
  BY <1>13 DEF Close, mvars
<1>14. ASSUME NEW s \in Senders, Clean(s) PROVE \E L \in SUBSET Line : D!Expire(L)
  <2>1. PICK old \in SUBSET archive :
          archive' = archive \ old /\ expired' = expired \cup UNION old
    BY <1>14 DEF Clean
  <2> DEFINE L == (UNION old) \ late
  <2>2. /\ L \in SUBSET Line /\ L \subseteq A
        /\ X' = X \cup L
        /\ UNCHANGED <<P, late, offered>>
    BY <1>14, <2>1 DEF Clean, mvars
  <2>3. A' = A \ L
    BY <1>14, <2>1 DEF Clean, mvars, Apart
  <2> HIDE DEF L, InOut, InTmp, InZip, Archived
  <2> QED
    BY <2>2, <2>3 DEF D!Expire
<1>15. ASSUME NEW s \in Senders, Unlock(s) PROVE \E L \in SUBSET Line : D!Archive(L)
  <2> DEFINE L == zip[s] \ late
  <2>1. /\ L \in SUBSET Line /\ L \subseteq P
        /\ \A v \in Servers : L \subseteq offered[v]
    BY DEF Offers
  <2>2. P' = P \ L
    <3>1. /\ \A f \in Files : tmp[f] = {} /\ out[f] \cap zip[s] = {}
          /\ \A t \in Senders : t # s => zip[t] = {}
          /\ zip' = [zip EXCEPT ![s] = {}]
          /\ UNCHANGED <<out, tmp, late>>
      BY <1>15 DEF Unlock, mvars, Listings, Contents, Apart, Exclusive
    <3>2. InZip = zip[s] /\ InZip' = {} /\ InTmp = {} /\ InTmp' = {}
      BY <3>1
    <3>3. InOut' = InOut /\ InOut \cap zip[s] = {}
      BY <3>1
    <3> HIDE DEF InOut, InTmp, InZip
    <3> QED
      BY <3>1, <3>2, <3>3
  <2>3. A' = A \cup L
    <3>1. Archived' = Archived \cup zip[s] /\ late' = late
      BY <1>15 DEF Unlock, mvars
    <3> HIDE DEF Archived
    <3> QED
      BY <3>1
  <2>4. UNCHANGED <<late, offered, X>>
    BY <1>15 DEF Unlock, mvars
  <2> HIDE DEF L, InOut, InTmp, InZip, Archived
  <2> QED
    BY <2>1, <2>2, <2>3, <2>4 DEF D!Archive
<1>16. ASSUME NEW s \in Senders, Raise(s) \/ Kill(s) PROVE FALSE
  BY ~Kills, <1>16 DEF Raise, Kill, Trips, Exclusive, Active, Listings
<1>17. ASSUME OperatorUnlock PROVE UNCHANGED <<P, late, offered, A, X>>
  BY <1>17 DEF OperatorUnlock, mvars
<1>18. ASSUME UNCHANGED vars PROVE UNCHANGED <<P, late, offered, A, X>>
  BY <1>18 DEF vars, mvars, svars
<1> HIDE DEF InOut, InTmp, InZip, Archived, IInv, Last, Typed, TypeOK
<1> QED
  BY <1>1, <1>2, <1>3, <1>4, <1>5, <1>6, <1>7, <1>8, <1>9, <1>10, <1>11, <1>12,
     <1>13, <1>14, <1>15, <1>16, <1>17, <1>18
  DEF Next, Works, Runs, D!DNext, D!dvars

(* The two scripts implement Delivery: no line in time is dropped, skips a   *)
(* server, or leaves the archive but by expiring.                            *)
THEOREM ImplementsDelivery ==
    ASSUME OneWriterPerFile, ~Overlap, ~Kills PROVE Spec => Delivers
<1>1. Init => D!DInit
  BY InitDelivers
<1>2. IInv /\ Last /\ [Next]_vars => [D!DNext]_(D!dvars)
  BY ~Kills, StepDelivers
<1> QED
  BY <1>1, <1>2, FullInvariance, PTL DEF Spec, Delivers, D!DSpec
=============================================================================
