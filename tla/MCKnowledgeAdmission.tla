----------------------- MODULE MCKnowledgeAdmission -----------------------
(* Small instances of KnowledgeAdmission for TLC. *)
EXTENDS KnowledgeAdmission

CONSTANTS k1, k2, i1, i2, c1, s1, s2

First == [id |-> i1, content |-> c1, sources |-> {s1}, supersedes |-> NoResult]

\* The same logical id and bytes with another provenance.
Rival == [First EXCEPT !.sources = {s1, s2}]

\* A second logical id for the same bytes, that supersedes the first.
Second == [First EXCEPT !.id = i2, !.supersedes = First]

KnowledgeResults == {First, Rival, Second}

\* A result under two keys, and other results under each of them.
KnowledgeRequests == {[key |-> k1, result |-> First], [key |-> k2, result |-> First],
                      [key |-> k1, result |-> Rival], [key |-> k2, result |-> Second]}

\* TargetRootLock on Windows: a mutex for each scope.
ScopeLocks == [s \in Contents \cup Ids |-> s]
=============================================================================
