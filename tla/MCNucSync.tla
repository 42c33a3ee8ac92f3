----------------------------- MODULE MCNucSync -----------------------------
(* Workstations, invocations, trees and commits are interchangeable.        *)
EXTENDS NucSync, TLC

Symmetry == Permutations(Workstations) \union Permutations(Runs)
              \union Permutations(Trees) \union Permutations(Commits)

=============================================================================
