------------------------------- MODULE MCKeys -------------------------------
(* Passwords are as good as one another, as long as none is too long. *)
EXTENDS Keys, TLC
AllAlike == Permutations(Passwords)
=============================================================================
