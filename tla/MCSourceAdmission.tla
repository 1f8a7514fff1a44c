------------------------- MODULE MCSourceAdmission -------------------------
(* Small instances of SourceAdmission for TLC. *)
EXTENDS SourceAdmission

CONSTANTS i1, i2, c1, c2, m1, m2

Result(i, c, m) == [id |-> i, content |-> c, meta |-> m]

\* One logical id with two contents and two descriptions, and a second one
\* that shares its content.
RivalResults == {Result(i1, c1, m1), Result(i1, c1, m2), Result(i1, c2, m1),
                 Result(i2, c1, m1)}

\* TargetRootLock on Windows: a mutex for each scope.
ScopeLocks == [s \in Contents \cup Ids |-> s]
=============================================================================
