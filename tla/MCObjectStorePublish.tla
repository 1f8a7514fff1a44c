------------------------ MODULE MCObjectStorePublish ------------------------
(* Small instances of ObjectStorePublish for TLC. *)
EXTENDS ObjectStorePublish, TLC

CONSTANTS a, b, d1, d2

\* Every file under a root of its own; the objects root is shared.
SeparateRoots == [f \in Files |-> IF f = a THEN {d1} ELSE {d2}]

\* Nested roots: the same file is named through both.
NestedRoots == [f \in Files |-> {d1, d2}]

\* Runs are interchangeable, and so are versions.
Symmetry == Permutations(Runs) \cup Permutations(Versions)
=============================================================================
