-------------------------- MODULE MCClientPrograms --------------------------
(* An instance of ClientPrograms in which callers put one or all axes under *)
(* force.                                                                   *)
EXTENDS ClientPrograms, TLC

MCSelections == {{2}, Axes}

Symmetry == Permutations(Positions)
=============================================================================
