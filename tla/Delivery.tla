------------------------------ MODULE Delivery ------------------------------
(* What the data path promises, without its files: a line that reached the   *)
(* output directory in time is offered to every server before it is archived,*)
(* is never dropped on the way, and stays archived until it expires.  A late *)
(* line (written to a file the sender had already taken) is promised nothing.*)

CONSTANTS Line, Servers

VARIABLES pending, late, offered, archived, expired

dvars == <<pending, late, offered, archived, expired>>

DInit ==
    /\ pending = {} /\ late = {} /\ archived = {} /\ expired = {}
    /\ offered = [v \in Servers |-> {}]

Seen == pending \cup late \cup archived \cup expired

Emit(l) ==
    /\ l \notin Seen
    /\ pending' = pending \cup {l}
    /\ UNCHANGED <<late, offered, archived, expired>>

EmitLate(l) ==
    /\ l \notin Seen
    /\ late' = late \cup {l}
    /\ UNCHANGED <<pending, offered, archived, expired>>

Offer(v, L) ==
    /\ L \subseteq pending \cup late
    /\ offered' = [offered EXCEPT ![v] = @ \cup L]
    /\ UNCHANGED <<pending, late, archived, expired>>

Archive(L) ==
    /\ L \subseteq pending
    /\ \A v \in Servers : L \subseteq offered[v]
    /\ pending' = pending \ L
    /\ archived' = archived \cup L
    /\ UNCHANGED <<late, offered, expired>>

Expire(L) ==
    /\ L \subseteq archived
    /\ archived' = archived \ L
    /\ expired' = expired \cup L
    /\ UNCHANGED <<pending, late, offered>>

DNext ==
    \/ \E l \in Line : Emit(l) \/ EmitLate(l)
    \/ \E v \in Servers, L \in SUBSET Line : Offer(v, L)
    \/ \E L \in SUBSET Line : Archive(L) \/ Expire(L)

DSpec == DInit /\ [][DNext]_dvars
=============================================================================
