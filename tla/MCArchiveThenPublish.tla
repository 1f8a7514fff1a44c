------------------------ MODULE MCArchiveThenPublish ------------------------
(* Small instances of ArchiveThenPublish for TLC. *)
EXTENDS ArchiveThenPublish

CONSTANTS a, b, v1, v2

Request(f, old, new) == [file |-> f, old |-> old, new |-> new]

\* Both ways between two versions, a version onto itself, and a second file.
TwoFileRequests == {Request(a, v1, v2), Request(a, v2, v1), Request(a, v1, v1),
                    Request(b, v1, v2)}

\* TargetRootLock on Windows: a mutex for each file.
ScopeLocks == [f \in Files |-> f]
=============================================================================
