---------------------------- MODULE DataPathInv ----------------------------
(* The inductive invariant behind the safety properties of DataPath.         *)
EXTENDS DataPath

(* Every monitor has an output file of its own, as every cfg names its own.  *)
OneWriterPerFile ==
    \A a, b \in Monitors : OutFile[a] = OutFile[b] => a = b

(* What the proofs need of it: no two monitors have the same file in use, be *)
(* it open or on its way to be.                                              *)
Users == {m \in Monitors : handle[m] # "none" \/ mpc[m] # "idle"}
Sole == \A a, b \in Users : OutFile[a] = OutFile[b] => a = b

(* A call of to_outfile only starts below the bound. *)
Room == \A m \in Monitors : mpc[m] # "idle" => count[m] < MaxLines

Typed == TypeOK /\ Room

(* One run at a time, counting the one that is about to create the lock. *)
Exclusive ==
    /\ \A s, t \in Senders : spc[s] # "off" /\ spc[t] # "off" => s = t
    /\ \A s \in Active : lock

(* What an open file denotes agrees with the names in the two directories.   *)
Handles ==
    \A m \in Monitors :
        /\ handle[m] = "out" => OutFile[m] \in outDir
        /\ handle[m] = "tmp" => OutFile[m] \in tmpDir
        /\ handle[m] \in {"tmp", "gone"} => OutFile[m] \notin outDir
        /\ mpc[m] = "create" => OutFile[m] \notin outDir
        /\ mpc[m] = "write" /\ handle[m] # "out" => raced[m]

(* What a run listed is what is there. *)
Listings ==
    \A s \in Senders :
        /\ spc[s] = "move" => todo[s] \subseteq outDir
        /\ spc[s] \in {"next", "close"} => todo[s] = tmpDir
        /\ spc[s] \in {"send", "remove"} =>
              cur[s] \in tmpDir /\ todo[s] = tmpDir \ {cur[s]}
        /\ spc[s] = "unlock" => tmpDir = {}

(* A missing file has no lines. *)
Contents ==
    \A f \in Files : /\ f \notin outDir => out[f] = {}
                     /\ f \notin tmpDir => tmp[f] = {}

Somewhere(l) ==
    \/ \E f \in Files : l \in out[f] \/ l \in tmp[f]
    \/ \E s \in Senders : l \in zip[s]
    \/ \E z \in archive : l \in z
    \/ l \in expired \/ l \in late \/ l \in atRisk

(* What a run is about to overwrite or remove is somewhere else as well.     *)
Covered ==
    /\ (\A s \in Senders : s \notin Active) =>
           \A f \in Files : tmp[f] \subseteq atRisk \cup late
    /\ \A s \in Senders :
           /\ spc[s] = "move" =>
                \A f \in todo[s] : tmp[f] \subseteq atRisk \cup late
           /\ spc[s] = "remove" => tmp[cur[s]] \subseteq zip[s] \cup late
    /\ \A l \in Line : l[2] <= count[l[1]] => Somewhere(l)

NoRisk == ~Kills => atRisk = {}

(* What a server has not been skipped for. *)
Offers ==
    \A v \in Servers :
        /\ \A s \in Senders :
             /\ zip[s] \subseteq offered[v] \cup late
             /\ spc[s] = "send" /\ v \notin left[s] =>
                    tmp[cur[s]] \subseteq offered[v] \cup late
        /\ \A z \in archive : z \subseteq offered[v] \cup late
        /\ expired \subseteq offered[v] \cup late

IInv ==
    /\ Typed /\ Exclusive /\ Handles /\ Listings
    /\ Contents /\ Covered /\ NoRisk /\ Offers

(* The lines in every place, and what was read, were written before. *)
Fresh ==
    \A l \in Line :
        \/ l[2] <= count[l[1]]
        \/ /\ l \notin late /\ l \notin expired
           /\ \A f \in Files : l \notin out[f] /\ l \notin tmp[f]
           /\ \A s \in Senders : l \notin zip[s]
           /\ \A z \in archive : l \notin z
           /\ \A v \in Servers : l \notin offered[v]

(* A line that is in time is in one place, except between zip and remove. *)
Apart ==
    /\ \A f \in Files : \A l \in out[f] \cup tmp[f] : OutFile[l[1]] = f
    /\ \A f \in Files : \A l \in out[f] :
         /\ l \notin late /\ l \notin expired
         /\ \A g \in Files : l \notin tmp[g]
         /\ \A s \in Senders : l \notin zip[s]
         /\ \A z \in archive : l \notin z
         /\ \A v \in Servers : l \notin offered[v]
    /\ \A f \in Files : \A l \in tmp[f] :
         \/ l \in late
         \/ /\ \A z \in archive : l \notin z
            /\ \A s \in Senders : l \in zip[s] => spc[s] = "remove" /\ cur[s] = f
    /\ \A s \in Senders : \A l \in zip[s], z \in archive : l \in z => l \in late
    /\ \A s \in Senders : spc[s] \in {"off", "lock"} => zip[s] = {}
    /\ \A y, z \in archive : y = z \/ y \cap z \subseteq late

(* What is in a file comes after lines that are in it too, or left it before.*)
Follows ==
    \A f \in Files, v \in Servers :
        /\ \A l \in out[f] : \A e \in Earlier(l) :
             e \in out[f] \cup tmp[f] \cup offered[v] \cup late \cup atRisk
        /\ \A l \in tmp[f] : \A e \in Earlier(l) :
             e \in tmp[f] \cup offered[v] \cup late \cup atRisk

Ordered == InOrder /\ Follows

(* Without kills: what is still to be sent was not sent before. *)
Unsent ==
    /\ (\A s \in Senders : s \notin Active) => tmpDir = {}
    /\ \A s \in Senders, v \in Servers :
         /\ spc[s] = "move" => \A f \in Files : tmp[f] \cap offered[v] = {}
         /\ spc[s] \in {"next", "send", "remove", "close"} =>
                \A f \in todo[s] : tmp[f] \cap offered[v] = {}
         /\ spc[s] = "send" /\ v \in left[s] => tmp[cur[s]] \cap offered[v] = {}

(* Without kills no lock is left behind, so cron's next run is not kept out. *)
LockOwned == lock => Active # {}

Last == Fresh /\ Apart /\ Unsent /\ LockOwned

(* A line that left ZBXDB_OUT, or TMPIN, is not seen there again, so no later*)
(* run collects or sends it; what is archived stays until it expires.        *)
NeverBack ==
    /\ \A l \in Written : /\ l \in InOut' => l \in InOut
                          /\ l \in InTmp' => l \in InOut \cup InTmp
    /\ Written \subseteq Written' /\ late \subseteq late'
    /\ Archived \subseteq Archived' \cup expired' /\ expired \subseteq expired'
    /\ \A v \in Servers : offered[v] \subseteq offered'[v]
=============================================================================
