------------------------------- MODULE MCHost -------------------------------
(* All processes are of one cfg. *)
EXTENDS Host
OneCfg == [s \in Slots |-> CHOOSE c \in Cfgs : TRUE]
=============================================================================
