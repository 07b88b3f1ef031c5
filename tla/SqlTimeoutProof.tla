--------------------------- MODULE SqlTimeoutProof ---------------------------
(* A timer outlives its query only when it expired in time, and a long query *)
(* is watched until its one cancel was sent, for rounds of any number of     *)
(* queries with any number of statements.                                    *)
EXTENDS SqlTimeout, TLAPS

(* The main thread is between Timer.start and Timer.cancel of query i.       *)
InHand(i) == i = q /\ pc \in {"between", "exec", "fetched", "failed"}

(* A timer that was started, and a cancel under way, are of the query in     *)
(* hand, or were late when the main thread wanted to stop them.              *)
Owned ==
    \A i \in Query :
        /\ timer[i] = "none" \/ i \in late \/ InHand(i)
        /\ i \in request => i \in late \/ (InHand(i) /\ timer[i] = "done")

(* Between two calls there is one to make. *)
MoreToDo == pc = "between" => left # 0

TInv == TypeOK /\ MoreToDo /\ Owned /\ StrayOnlyIfLate

(* Where the main thread can be. *)
Places == Calls \cup {"arm", "between", "fetched", "failed", "written", "sleep", "lost"}

(* What a step of the main thread does to the variables Goto speaks of.      *)
LEMMA GotoTypes ==
    ASSUME NEW where \in Places,
           TypeOK, Goto(where)
    PROVE  /\ pc' = where /\ pc' \in Places
           /\ stuck' \in CanStick /\ kind' \in BOOLEAN \X BOOLEAN /\ UNCHANGED kind
<1>1. pc' = where /\ UNCHANGED kind
  BY DEF Goto
<1>2. stuck' \in CanStick
  BY DEF Goto, CanStick
<1> QED
  BY <1>1, <1>2 DEF TypeOK, Places

(* Initially no timer was started and no cancel sent.                        *)
LEMMA TInvInit == Init => TInv
BY QueriesAssumption
   DEF Init, TInv, TypeOK, MoreToDo, Owned, StrayOnlyIfLate, Query, Calls, CanStick, kind

(* On to the next query, or to the last commit.                              *)
LEMMA NextQueryTypes ==
    ASSUME TypeOK, NextQuery
    PROVE  /\ pc' \in {"arm", "commit2"} /\ q' \in Query
           /\ stuck' \in CanStick /\ kind' \in BOOLEAN \X BOOLEAN
<1>1. CASE q < Queries /\ Goto("arm") /\ q' = q + 1
  BY <1>1, QueriesAssumption, GotoTypes DEF TypeOK, Query, Places
<1>2. CASE Goto("commit2") /\ q' = q
  BY <1>2, GotoTypes DEF TypeOK, Calls, Places
<1> QED
  BY <1>1, <1>2 DEF NextQuery

(* The steps of the main thread.                                             *)
LEMMA MainKeeps == ASSUME TInv, Main PROVE TInv'
<1> USE DEF TInv, Places
<1>1. CASE RoleKnown
  <2>1. /\ pc = "role" /\ pc' \in {"arm", "lost"} /\ q' = 1
        /\ stuck' \in CanStick /\ kind' \in BOOLEAN \X BOOLEAN
        /\ UNCHANGED <<left, timer, request, late, missed, hits>>
    BY <1>1, GotoTypes DEF RoleKnown, Calls, ghosts
  <2> QED
    BY <2>1, QueriesAssumption DEF TypeOK, MoreToDo, Owned, InHand, StrayOnlyIfLate, Query
<1>2. CASE StartTimer
  <2>1. /\ pc = "arm" /\ pc' = "between" /\ q' = q /\ left' \in 2..(Statements + 1)
        /\ stuck' \in CanStick /\ kind' \in BOOLEAN \X BOOLEAN
        /\ UNCHANGED <<request, late, missed, hits>>
        /\ timer' \in {timer, [timer EXCEPT ![q] = "armed"]}
    BY <1>2, GotoTypes DEF StartTimer, Calls, ghosts
  <2>2. \A i \in Query : (timer[i] = "none" \/ i \in late) /\ (i \in request => i \in late)
    BY <2>1 DEF Owned, InHand
  <2>3. left' \in 0..(Statements + 1) /\ left' # 0
    BY <2>1, QueriesAssumption
  <2> QED
    BY <2>1, <2>2, <2>3 DEF TypeOK, MoreToDo, Owned, InHand, StrayOnlyIfLate, Calls
<1>3. CASE NextCall \/ QueryEnds
  <2>1. /\ pc \in {"between", "exec"} /\ pc' \in {"between", "exec", "fetched", "failed"}
        /\ q' = q /\ stuck' \in CanStick /\ kind' \in BOOLEAN \X BOOLEAN
        /\ UNCHANGED <<timer, request, late, missed, hits>>
    <3>1. CASE NextCall
      BY <1>3, <3>1, GotoTypes DEF NextCall, Calls, ghosts
    <3>2. CASE QueryEnds
      BY <1>3, <3>2, GotoTypes DEF QueryEnds, CallOver, Calls, ghosts
    <3> QED
      BY <1>3, <3>1, <3>2
  <2>2. left' \in 0..(Statements + 1) /\ (pc' = "between" => left' # 0)
    <3>1. CASE NextCall
      BY <3>1, QueriesAssumption DEF NextCall, Goto, MoreToDo, TypeOK
    <3>2. CASE QueryEnds
      BY <3>2 DEF QueryEnds, CallOver, Goto, TypeOK
    <3> QED
      BY <1>3, <3>1, <3>2
  <2> QED
    BY <2>1, <2>2 DEF TypeOK, MoreToDo, Owned, InHand, StrayOnlyIfLate, Calls
<1>4. CASE StopTimer
  <2>1. /\ pc \in {"fetched", "failed"} /\ pc' \in {"written", "commit1", "lost"} /\ q' = q
        /\ stuck' \in CanStick /\ kind' \in BOOLEAN \X BOOLEAN
        /\ UNCHANGED <<left, request, missed, hits>>
    BY <1>4, GotoTypes DEF StopTimer, AfterQuery, Calls
  <2>2. /\ timer' = IF timer[q] = "armed" THEN [timer EXCEPT ![q] = "none"] ELSE timer
        /\ late' = IF timer[q] \in {"expired", "done"} THEN late \cup {q} ELSE late
    BY <1>4 DEF StopTimer, Overdue
  <2>3. TypeOK' /\ MoreToDo'
    BY <2>1, <2>2 DEF TypeOK, MoreToDo, Calls
  <2>4. Owned'
    BY <2>1, <2>2 DEF TypeOK, Owned, InHand
  <2>5. StrayOnlyIfLate'
    BY <2>1, <2>2 DEF StrayOnlyIfLate
  <2> QED
    BY <2>3, <2>4, <2>5
<1>5. CASE Advance
  <2>1. /\ pc = "written" /\ pc' \in {"arm", "commit2", "failed"} /\ q' \in Query
        /\ stuck' \in CanStick /\ kind' \in BOOLEAN \X BOOLEAN
        /\ UNCHANGED <<left, timer, request, late, missed, hits>>
    <3>1. CASE NextQuery
      BY <1>5, <3>1, NextQueryTypes DEF Advance, ghosts
    <3>2. CASE Goto("failed") /\ q' = q
      BY <1>5, <3>2, GotoTypes DEF Advance, ghosts, TypeOK
    <3> QED
      BY <1>5, <3>1, <3>2 DEF Advance
  <2> QED
    BY <2>1 DEF TypeOK, MoreToDo, Owned, InHand, StrayOnlyIfLate, Calls
<1>6. CASE Committed
  <2>1. /\ pc \in {"commit1", "commit2"} /\ pc' \in {"arm", "commit2", "sleep", "lost"}
        /\ q' \in Query /\ stuck' \in CanStick /\ kind' \in BOOLEAN \X BOOLEAN
        /\ UNCHANGED <<left, timer, request, late, missed, hits>>
    <3>1. CASE pc = "commit1" /\ NextQuery
      BY <1>6, <3>1, NextQueryTypes DEF Committed, ghosts
    <3>2. CASE pc \in {"commit1", "commit2"} /\ (Goto("sleep") \/ Goto("lost")) /\ q' = q
      BY <1>6, <3>2, GotoTypes DEF Committed, TypeOK, ghosts
    <3> QED
      BY <1>6, <3>1, <3>2 DEF Committed
  <2> QED
    BY <2>1 DEF TypeOK, MoreToDo, Owned, InHand, StrayOnlyIfLate, Calls
<1>7. CASE WakeUp \/ Reconnect
  <2>1. /\ pc' = "role" /\ q' = 1 /\ left' = left
        /\ stuck' \in CanStick /\ kind' \in BOOLEAN \X BOOLEAN
        /\ timer' = [i \in Query |-> "none"]
        /\ request' = {} /\ late' = {} /\ missed' = {} /\ hits' = {}
    BY <1>7, GotoTypes DEF WakeUp, Reconnect, Calls
  <2> QED
    BY <2>1, QueriesAssumption DEF TypeOK, MoreToDo, Owned, StrayOnlyIfLate, Query, Calls
<1>8. CASE SocketTimeout
  <2>1. /\ InCall /\ pc' = (IF pc = "exec" THEN "failed" ELSE "lost") /\ q' = q
        /\ stuck' \in CanStick /\ kind' \in BOOLEAN \X BOOLEAN
        /\ UNCHANGED <<left, timer, request, late, missed, hits>>
    BY <1>8, GotoTypes DEF SocketTimeout, ghosts
  <2> QED
    BY <2>1 DEF TypeOK, MoreToDo, Owned, InHand, InCall, Calls, StrayOnlyIfLate
<1> QED
  BY <1>1, <1>2, <1>3, <1>4, <1>5, <1>6, <1>7, <1>8 DEF Main

(* The steps of a timer thread, and of the database it reaches.              *)
LEMMA TimersKeep ==
    ASSUME TInv, NEW i \in Query, Expire(i) \/ cancel_sql(i) \/ Arrives(i)
    PROVE  TInv'
<1> USE DEF TInv, Places
<1>1. CASE Expire(i)
  <2>1. UNCHANGED <<has_cancel, sockets, pc, q, left, stuck, request, late, missed, hits>>
    BY <1>1 DEF Expire, kind, ghosts
  <2> QED
    BY <1>1, <2>1 DEF Expire, TypeOK, MoreToDo, Owned, InHand, StrayOnlyIfLate, kind
<1>2. CASE cancel_sql(i)
  <2>1. UNCHANGED <<has_cancel, sockets, pc, q, left, stuck, late, missed, hits>>
    BY <1>2 DEF cancel_sql, kind, ghosts
  <2> QED
    BY <1>2, <2>1 DEF cancel_sql, TypeOK, MoreToDo, Owned, InHand, StrayOnlyIfLate, kind
<1>3. CASE Arrives(i)
  <2>1. /\ i \in request /\ request' = request \ {i} /\ UNCHANGED <<q, left, timer, late>>
        /\ missed' \in {missed, missed \cup {i}}
    BY <1>3 DEF Arrives
  <2>2. CASE InCall /\ stuck # "net"
    <3>1. /\ hits' = hits \cup {<<i, Call>>}
          /\ pc' = (IF pc = "exec" THEN "failed" ELSE "lost")
          /\ stuck' \in CanStick /\ kind' \in BOOLEAN \X BOOLEAN
      BY <1>3, <2>2, GotoTypes DEF Arrives
    <3>2. Call \in Calls \X (0..Queries)
      BY <2>2, QueriesAssumption DEF Call, InCall, TypeOK, Query
    <3>3. Call = <<"exec", i>> \/ i \in late
      BY <2>1, <2>2 DEF Owned, InHand, InCall, Calls, Call
    <3>4. TypeOK' /\ MoreToDo'
      BY <2>1, <3>1, <3>2 DEF TypeOK, MoreToDo
    <3>5. Owned'
      BY <2>1, <2>2, <3>1 DEF Owned, InHand, InCall, Calls
    <3>6. StrayOnlyIfLate'
      BY <2>1, <3>1, <3>3 DEF StrayOnlyIfLate
    <3> QED
      BY <3>4, <3>5, <3>6
  <2>3. CASE ~(InCall /\ stuck # "net")
    <3>1. UNCHANGED <<has_cancel, sockets, hits, pc, stuck>>
      BY <1>3, <2>3 DEF Arrives, kind
    <3> QED
      BY <2>1, <3>1 DEF TypeOK, MoreToDo, Owned, InHand, StrayOnlyIfLate, kind
  <2> QED
    BY <2>2, <2>3
<1> QED
  BY <1>1, <1>2, <1>3

(* Every step keeps the invariant.                                           *)
LEMMA TInvStep == TInv /\ [Next]_vars => TInv'
<1> SUFFICES ASSUME TInv, [Next]_vars PROVE TInv'
  OBVIOUS
<1>1. CASE UNCHANGED vars
  BY <1>1 DEF TInv, TypeOK, MoreToDo, Owned, InHand, StrayOnlyIfLate, vars, kind, ghosts
<1> QED
  BY <1>1, MainKeeps, TimersKeep DEF Next

(* Timer.cancel() is reached on every path from a query (604-605, 669-670):  *)
(* a cancel hits another call only when its timer had expired before that.   *)
THEOREM StraysAreLate == Spec => []StrayOnlyIfLate
<1>1. Init => TInv
  BY TInvInit
<1>2. TInv => StrayOnlyIfLate
  BY DEF TInv
<1> QED
  BY <1>1, <1>2, TInvStep, PTL DEF Spec

(* Each variable keeps to its set, for any number of queries.                *)
THEOREM TimeoutTypes == Spec => []TypeOK
<1>1. TInv => TypeOK
  BY DEF TInv
<1> QED
  BY <1>1, TInvInit, TInvStep, PTL DEF Spec
-----------------------------------------------------------------------------
(* From Timer.start on, the query in hand has something on its way, but for a*)
(* call nobody answers; QueryWatched is what follows for a busy database.    *)
Watched ==
    has_cancel /\ (pc = "between" \/ (pc = "exec" /\ stuck # "net"))
        => timer[q] \in {"armed", "expired"} \/ q \in request \/ q \in missed

(* No timer is left behind: only the query in hand has one that still runs.  *)
OneTimer == \A i \in Query : timer[i] = "armed" => InHand(i)

(* A connection without a cancel starts no timer: no call of it is ended by  *)
(* one.                                                                      *)
NoCancel == ~has_cancel => request = {} /\ hits = {} /\ timer = [i \in Query |-> "none"]

Watch == Watched /\ OneTimer /\ NoCancel

LEMMA WatchMain == ASSUME TypeOK, Watch, Main PROVE Watch'
<1> USE DEF TypeOK, Watch, Watched, OneTimer, NoCancel, InHand, ghosts
<1>1. CASE RoleKnown
  BY <1>1 DEF RoleKnown, Goto, kind
<1>2. CASE StartTimer
  BY <1>2 DEF StartTimer, Goto, kind
<1>3. CASE NextCall
  <2>1. /\ pc = "between" /\ pc' = "exec"
        /\ UNCHANGED <<has_cancel, q, timer, request, late, missed, hits>>
    BY <1>3 DEF NextCall, Goto, kind
  <2> QED
    BY <2>1
<1>4. CASE QueryEnds
  <2>1. /\ pc = "exec" /\ pc' \in {"between", "fetched", "failed"}
        /\ stuck = "no"
        /\ UNCHANGED <<has_cancel, q, timer, request, late, missed, hits>>
    BY <1>4 DEF QueryEnds, CallOver, Goto, kind
  <2> QED
    BY <2>1
<1>5. CASE StopTimer
  BY <1>5 DEF StopTimer, AfterQuery, Goto, kind
<1>6. CASE Advance \/ Committed
  <2>1. /\ pc \in {"written", "commit1", "commit2"}
        /\ pc' \in {"arm", "commit2", "failed", "sleep", "lost"}
        /\ UNCHANGED <<has_cancel, timer, request, hits>>
    BY <1>6 DEF Advance, Committed, NextQuery, Goto, kind
  <2>2. \A i \in Query : timer[i] # "armed"
    BY <2>1
  <2> QED
    BY <2>1, <2>2
<1>7. CASE WakeUp \/ Reconnect
  <2>1. /\ pc' = "role" /\ timer' = [i \in Query |-> "none"] /\ request' = {} /\ hits' = {}
    BY <1>7 DEF WakeUp, Reconnect, Goto
  <2> QED
    BY <2>1
<1>8. CASE SocketTimeout
  BY <1>8 DEF SocketTimeout, InCall, Calls, Goto, kind
<1> QED
  BY <1>1, <1>2, <1>3, <1>4, <1>5, <1>6, <1>7, <1>8 DEF Main

LEMMA WatchTimers ==
    ASSUME TypeOK, Watch, NEW i \in Query, Expire(i) \/ cancel_sql(i) \/ Arrives(i)
    PROVE  Watch'
<1> USE DEF TypeOK, Watch, Watched, OneTimer, NoCancel, InHand, ghosts
<1>1. CASE Expire(i)
  BY <1>1 DEF Expire, kind
<1>2. CASE cancel_sql(i)
  BY <1>2 DEF cancel_sql, kind
<1>3. CASE Arrives(i) /\ InCall /\ stuck # "net"
  BY <1>3 DEF Arrives, InCall, Calls, Goto, kind
<1>4. CASE Arrives(i) /\ ~(InCall /\ stuck # "net")
  BY <1>4 DEF Arrives, InCall, Calls, kind
<1> QED
  BY <1>1, <1>2, <1>3, <1>4

(* The safety half of RoundsEnd: with a cancel, a call the database is busy  *)
(* with has something on its way to it, unless the cancel of its query came  *)
(* between two of its calls (589-602), and only the query in hand has a timer*)
(* that runs, in rounds of any number of queries and statements.             *)
THEOREM QueriesAreWatched == Spec => [](QueryWatched /\ OneTimer /\ NoCancel)
<1>1. Init => Watch
  BY DEF Init, Watch, Watched, OneTimer, NoCancel, Query
<1>2. TInv /\ Watch /\ [Next]_vars => Watch'
  <2> SUFFICES ASSUME TInv, Watch, [Next]_vars PROVE Watch'
    OBVIOUS
  <2>1. CASE UNCHANGED vars
    BY <2>1 DEF Watch, Watched, OneTimer, NoCancel, InHand, vars, kind, ghosts
  <2> QED
    BY <2>1, WatchMain, WatchTimers DEF Next, TInv
<1>3. Watch => QueryWatched /\ OneTimer /\ NoCancel
  BY DEF Watch, Watched, QueryWatched
<1> QED
  BY <1>1, <1>2, <1>3, TInvInit, TInvStep, PTL DEF Spec
=============================================================================
