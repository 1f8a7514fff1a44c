---------------------------- MODULE MCPhaseCore ----------------------------
(* Small instances of PhaseCore for TLC. *)
EXTENDS PhaseCore, TLC

CONSTANTS k1, k2, v1, v2, v3

\* Two keys and both directions between two versions, planned and executed.
AllAsks == {a \in [key : Keys, old : Versions, new : Versions,
                   execute : BOOLEAN] : a.old # a.new}

\* Executions of two requests that start from one version and of one that
\* goes back to it.
CrossingAsks == [key : Keys, old : {v1}, new : {v2, v3}, execute : {TRUE}]
                \cup [key : Keys, old : {v2}, new : {v1}, execute : {TRUE}]

\* Runs, keys and versions are interchangeable.
Symmetry == Permutations(Runs) \cup Permutations(Keys) \cup Permutations(Versions)
=============================================================================
