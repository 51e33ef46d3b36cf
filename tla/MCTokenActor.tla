---------------------------- MODULE MCTokenActor ----------------------------
(***************************************************************************)
(* TokenActor for TLC. Ids, Users and Syncs are sets of model values whose *)
(* members are interchangeable; symmetry is used in the runs that check    *)
(* invariants and action properties and in no run that checks liveness.    *)
(***************************************************************************)
EXTENDS TokenActor, TLC

Symmetry == Permutations(Ids) \cup Permutations(Users) \cup Permutations(Syncs)
=============================================================================
