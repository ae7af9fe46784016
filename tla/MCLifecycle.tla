---------------------------- MODULE MCLifecycle ----------------------------
(* Values of the constants of Lifecycle for model checking.               *)
EXTENDS Lifecycle, TLC

AllKill == [k \in Kills |-> "KILL"]
AllTerm == [k \in Kills |-> "TERM"]

Generations == Permutations(Gens)
=============================================================================
