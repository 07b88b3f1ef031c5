----------------------------- MODULE SqlTimeout -----------------------------
(* The timer of a query (580-605, 668-670) and cancel_sql (294-300).  The    *)
(* main thread of zbxdb.py starts a threading.Timer, runs the statements of  *)
(* the query, fetches the rows and cancels the timer; a timer expires once,  *)
(* and then calls _conn.cancel() from a thread of its own, whatever the main *)
(* thread does by then.  Timer.cancel() only stops a timer that has not      *)
(* expired yet.  What the driver does with a cancel is external: it ends the *)
(* call in progress on that connection, and nothing if there is none when it *)
(* arrives.  The default socket timeout (806-811) only reaches drivers that  *)
(* use Python's sockets.                                                     *)
EXTENDS Naturals

CONSTANTS
    Queries,    \* number of queries in a round
    Statements  \* bound: statements that the text of one query is split into

ASSUME QueriesAssumption == Queries \in Nat \ {0} /\ Statements \in Nat \ {0}

Query == 1..Queries

VARIABLES
    has_cancel, \* does the connection have a cancel (conn_has_cancel)
    sockets,    \* does the driver use Python's sockets
    pc,         \* where the main thread is
    q,          \* the query it is at
    left,       \* calls still to make for it: the statements, then fetchall
    stuck,      \* does the call in progress not end by itself: "no", "long" (the
                \* database is busy with it) or "net" (nobody answers)
    timer,      \* of each query of this round: none, armed, expired, done
    request,    \* queries whose cancel is under way to the database
    late,       \* queries whose timer had expired when it was cancelled
    missed,     \* queries whose cancel arrived while no call was in progress
    hits        \* calls ended by a cancel: <<the timer's query, the call>>

kind == <<has_cancel, sockets>>
ghosts == <<late, missed, hits>>
vars == <<kind, pc, q, left, stuck, timer, request, ghosts>>

(* The calls to the database in a round, in this order: the role, then for   *)
(* each query an "exec" for each of its statements and one for fetchall, and *)
(* a commit if it failed; a commit.                                          *)
Calls == {"role", "exec", "commit1", "commit2"}
InCall == pc \in Calls

CanStick == {"no", "long", "net"}

(* The call in progress, for the history. *)
Call == IF pc \in {"exec", "commit1"} THEN <<pc, q>> ELSE <<pc, 0>>

Init ==
    /\ has_cancel \in BOOLEAN /\ sockets \in BOOLEAN
    /\ pc = "role" /\ q = 1 /\ left = 0 /\ stuck \in CanStick
    /\ timer = [i \in Query |-> "none"]
    /\ request = {} /\ late = {} /\ missed = {} /\ hits = {}

-----------------------------------------------------------------------------
(* The main thread *)

(* On to the next place; a call there may be one that does not end.          *)
Goto(where) ==
    /\ pc' = where
    /\ stuck' \in IF where \in Calls THEN CanStick ELSE {"no"}
    /\ UNCHANGED kind

(* The role is the one of the connection; or it changed, or was not told.    *)
RoleKnown ==
    /\ pc = "role" /\ stuck = "no" /\ q' = 1
    /\ Goto("arm") \/ Goto("lost")
    /\ UNCHANGED <<left, timer, request, ghosts>>

(* A bug: only the first query of a round has a timer. *)
StartTimerOnce ==
    /\ pc = "arm" /\ Goto("between") /\ left' \in 2..(Statements + 1)
    /\ timer' = IF has_cancel /\ q = 1 THEN [timer EXCEPT ![q] = "armed"] ELSE timer
    /\ UNCHANGED <<q, request, ghosts>>

(* Timer.start, then one or more statements and fetchall. *)
StartTimer ==
    /\ pc = "arm" /\ Goto("between") /\ left' \in 2..(Statements + 1)
    /\ timer' = IF has_cancel THEN [timer EXCEPT ![q] = "armed"] ELSE timer
    /\ UNCHANGED <<q, request, ghosts>>

(* The next call of the query; it may be a long one. *)
NextCall ==
    /\ pc = "between" /\ Goto("exec") /\ left' = left - 1
    /\ UNCHANGED <<q, timer, request, ghosts>>

(* The statement was executed, the rows are there, or something is wrong.    *)
CallOver ==
    /\ pc = "exec" /\ stuck = "no"
    /\ Goto(IF left = 0 THEN "fetched" ELSE "between") \/ Goto("failed")

(* A bug: the timer is cancelled within the loop over the statements. *)
QueryEndsUnwatched ==
    /\ CallOver
    /\ timer' = IF timer[q] = "armed" THEN [timer EXCEPT ![q] = "none"] ELSE timer
    /\ UNCHANGED <<q, left, request, ghosts>>

QueryEnds == CallOver /\ UNCHANGED <<q, left, timer, request, ghosts>>

Overdue == timer[q] \in {"expired", "done"}

(* An error may ask for a new session, and is raised again. *)
AfterQuery ==
    \/ pc = "fetched" /\ Goto("written")
    \/ pc = "failed" /\ (Goto("commit1") \/ Goto("lost"))

(* A bug: the timer is cancelled only when the rows were fetched. *)
StopTimerAtSuccess ==
    /\ pc \in {"fetched", "failed"} /\ AfterQuery
    /\ timer' = IF timer[q] = "armed" /\ pc = "fetched" THEN [timer EXCEPT ![q] = "none"]
                ELSE timer
    /\ late' = IF Overdue THEN late \cup {q} ELSE late
    /\ UNCHANGED <<q, left, request, missed, hits>>

(* sqltimeout.cancel(), on both ways (604-605, 669-670). *)
StopTimer ==
    /\ pc \in {"fetched", "failed"} /\ AfterQuery
    /\ timer' = IF timer[q] = "armed" THEN [timer EXCEPT ![q] = "none"] ELSE timer
    /\ late' = IF Overdue THEN late \cup {q} ELSE late
    /\ UNCHANGED <<q, left, request, missed, hits>>

(* A bug: one query too many. *)
NextQueryBeyond == IF q <= Queries THEN Goto("arm") /\ q' = q + 1 ELSE Goto("commit2") /\ q' = q

NextQuery == IF q < Queries THEN Goto("arm") /\ q' = q + 1 ELSE Goto("commit2") /\ q' = q

(* The rows are written; what raises on the way gets to the except branch,   *)
(* where the timer is cancelled once more.                                   *)
Advance ==
    /\ pc = "written"
    /\ NextQuery \/ (Goto("failed") /\ q' = q)
    /\ UNCHANGED <<left, timer, request, ghosts>>

Committed ==
    /\ stuck = "no"
    /\ \/ pc = "commit1" /\ NextQuery
       \/ pc = "commit2" /\ Goto("sleep") /\ q' = q
       \/ pc \in {"commit1", "commit2"} /\ Goto("lost") /\ q' = q
    /\ UNCHANGED <<left, timer, request, ghosts>>

(* The next round, up to a minute later: by then the cancels of this one     *)
(* have been sent and have arrived.                                          *)
WakeUp ==
    /\ pc = "sleep" /\ Goto("role") /\ q' = 1
    /\ request = {} /\ \A i \in Query : timer[i] # "expired"
    /\ timer' = [i \in Query |-> "none"] /\ late' = {} /\ missed' = {} /\ hits' = {}
    /\ UNCHANGED <<left, request>>

(* After an exception outside of a query: a new connection, and the cancels  *)
(* under way are for the old one.                                            *)
Reconnect ==
    /\ pc = "lost" /\ Goto("role") /\ q' = 1
    /\ timer' = [i \in Query |-> "none"] /\ request' = {}
    /\ late' = {} /\ missed' = {} /\ hits' = {} /\ left' = left

(* socket.timeout: like any other exception of the call. *)
SocketTimeout ==
    /\ InCall /\ stuck # "no" /\ sockets
    /\ Goto(IF pc = "exec" THEN "failed" ELSE "lost")
    /\ UNCHANGED <<q, left, timer, request, ghosts>>

Main ==
    \/ RoleKnown \/ StartTimer \/ NextCall \/ QueryEnds \/ StopTimer \/ Advance \/ Committed
    \/ WakeUp \/ Reconnect \/ SocketTimeout

-----------------------------------------------------------------------------
(* The timer threads and the database *)

Expire(i) ==
    /\ timer[i] = "armed" /\ timer' = [timer EXCEPT ![i] = "expired"]
    /\ UNCHANGED <<kind, pc, q, left, stuck, request, ghosts>>

(* cancel_sql: _c.cancel() *)
cancel_sql(i) ==
    /\ timer[i] = "expired" /\ timer' = [timer EXCEPT ![i] = "done"]
    /\ request' = request \cup {i}
    /\ UNCHANGED <<kind, pc, q, left, stuck, ghosts>>

(* A cancelled query fails like any other; a cancelled commit, or role       *)
(* query, is outside of the inner try: the connection is given up.  A cancel *)
(* does not get through to a database that does not answer, and is lost when *)
(* the main thread is between two calls.                                     *)
Arrives(i) ==
    /\ i \in request /\ request' = request \ {i}
    /\ IF InCall /\ stuck # "net"
       THEN /\ hits' = hits \cup {<<i, Call>>}
            /\ Goto(IF pc = "exec" THEN "failed" ELSE "lost")
       ELSE UNCHANGED <<kind, hits, pc, stuck>>
    /\ missed' = IF InCall THEN missed ELSE missed \cup {i}
    /\ UNCHANGED <<q, left, timer, late>>

Next == Main \/ \E i \in Query : Expire(i) \/ cancel_sql(i) \/ Arrives(i)

Spec == Init /\ [][Next]_vars

(* Threads run, time passes, and the database answers. *)
FairSpec ==
    /\ Spec /\ WF_vars(Main)
    /\ \A i \in Query : WF_vars(Expire(i)) /\ WF_vars(cancel_sql(i)) /\ WF_vars(Arrives(i))
-----------------------------------------------------------------------------
(* Each variable stays in the set its use in the loop implies. *)
TypeOK ==
    /\ pc \in Calls \cup {"arm", "between", "fetched", "failed", "written", "sleep", "lost"}
    /\ q \in Query /\ left \in 0..(Statements + 1) /\ stuck \in CanStick
    /\ kind \in BOOLEAN \X BOOLEAN
    /\ timer \in [Query -> {"none", "armed", "expired", "done"}]
    /\ {request, late, missed} \subseteq SUBSET Query
    /\ hits \in SUBSET (Query \X (Calls \X (0..Queries)))

(* A cancel only ever ends something else than the query it was meant for    *)
(* when its timer expired before the main thread could cancel it: no timer   *)
(* survives its query on any path.                                           *)
StrayOnlyIfLate == \A h \in hits : h[2] = <<"exec", h[1]>> \/ h[1] \in late

(* The docstring of cancel_sql (295): it cancels long running SQL, the query *)
(* it was started for and nothing else.                                      *)
(* It does not hold: README, section 5.                                      *)
OnlyItsQuery == \A h \in hits : h[2] = <<"exec", h[1]>>

(* What lets a stuck query end (580-605, 668-670): on a connection that can  *)
(* cancel, a call of a query the database is busy with is not without a timer*)
(* that runs, one that has just expired, or a cancel on its way, unless the  *)
(* one cancel of its query came between two of its calls.                    *)
QueryWatched ==
    has_cancel /\ pc = "exec" /\ stuck = "long"
        => timer[q] \in {"armed", "expired"} \/ q \in request \/ q \in missed

(* The docstring of cancel_sql (295) without that exception: a long running  *)
(* SQL is cancelled.  The timer expires once for all the statements of its   *)
(* query and fetchall (589-602).                                             *)
(* It does not hold: README, section 5.                                      *)
LongIsCancelled ==
    has_cancel /\ pc = "exec" /\ stuck = "long"
        => timer[q] \in {"armed", "expired"} \/ q \in request

(* Rounds end, whatever is cancelled in them: where the socket timeout works *)
(* whatever hangs, and else as long as nothing hangs but calls of queries    *)
(* that the driver can cancel and whose cancel was not missed.  The role     *)
(* query and the commits have no timer.                                      *)
Cancellable == stuck = "long" /\ pc = "exec" /\ q \notin missed
RoundsEnd ==
    sockets \/ (has_cancel /\ [](stuck = "no" \/ Cancellable))
        => []<>(pc \in {"sleep", "lost"})

(* Rounds end on every driver that can cancel; the comment at 806-810 hopes  *)
(* for it.                                                                   *)
(* It does not hold: README, section 5.                                      *)
RoundsAlwaysEnd == has_cancel => []<>(pc \in {"sleep", "lost"})
=============================================================================
