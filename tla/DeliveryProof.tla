---------------------------- MODULE DeliveryProof ----------------------------
(* What Delivery amounts to, for every set of lines and servers: the two     *)
(* scripts, and the three programs on a host, inherit it by implementing it. *)
EXTENDS Delivery, TLAPS

(* A line has one fate at a time, and none that was in time is archived or   *)
(* expired without having been offered to every server.                      *)
Promise ==
    /\ pending \cap late = {} /\ pending \cap archived = {} /\ pending \cap expired = {}
    /\ late \cap archived = {} /\ late \cap expired = {} /\ archived \cap expired = {}
    /\ \A v \in Servers : archived \cup expired \subseteq offered[v]

(* A line that waits can only be archived next, one in the archive expire;   *)
(* nothing comes back, and nothing that was offered counts as not offered.   *)
Forward ==
    /\ pending \subseteq pending' \cup archived'
    /\ archived \subseteq archived' \cup expired'
    /\ expired \subseteq expired' /\ late \subseteq late'
    /\ \A v \in Servers : offered[v] \subseteq offered'[v]
    /\ (archived' \cup expired') \cap pending' = {}

(* Nothing is promised before there is a line.                               *)
LEMMA PromiseInit == DInit => Promise /\ offered \in [Servers -> {{}}]
BY DEF DInit, Promise

Known == Promise /\ offered = [v \in Servers |-> offered[v]]

LEMMA KnownStep == Known /\ [DNext]_dvars => Known' /\ Forward
<1> SUFFICES ASSUME Known, [DNext]_dvars PROVE Known' /\ Forward
  OBVIOUS
<1> USE DEF Known, Promise, Forward
<1>1. ASSUME NEW l \in Line, Emit(l) PROVE Known' /\ Forward
  BY <1>1 DEF Emit, Seen
<1>2. ASSUME NEW l \in Line, EmitLate(l) PROVE Known' /\ Forward
  BY <1>2 DEF EmitLate, Seen
<1>3. ASSUME NEW v \in Servers, NEW L \in SUBSET Line, Offer(v, L) PROVE Known' /\ Forward
  BY <1>3 DEF Offer
<1>4. ASSUME NEW L \in SUBSET Line, Archive(L) PROVE Known' /\ Forward
  BY <1>4 DEF Archive
<1>5. ASSUME NEW L \in SUBSET Line, Expire(L) PROVE Known' /\ Forward
  BY <1>5 DEF Expire
<1>6. CASE UNCHANGED dvars
  BY <1>6 DEF dvars
<1> QED
  BY <1>1, <1>2, <1>3, <1>4, <1>5, <1>6 DEF DNext

(* Every behaviour that Delivery allows keeps the promise, and no step of it *)
(* takes a line back.                                                        *)
THEOREM DeliveryPromises == DSpec => []Promise /\ [][Forward]_dvars
<1>1. DInit => Known
  BY PromiseInit DEF Known
<1>2. Known => Promise
  BY DEF Known
<1> QED
  BY <1>1, <1>2, KnownStep, PTL DEF DSpec
=============================================================================
