--------------------------- MODULE MCTaskJournal ---------------------------
(* Small instances of TaskJournal for TLC. *)
EXTENDS TaskJournal

CONSTANTS k0, k1, k2, none

Body(k, a) == [key |-> k, action |-> a, target |-> none]

Correction(k, i, past) ==
    [key |-> k, action |-> "correction", target |-> [sequence |-> i, key |-> past]]

\* A task is opened, noted and closed, and the open record is corrected, or the
\* one that a first event becomes.  Two requests share a key.
TaskAsks == {Body(k1, "open"), Body(k1, "event"), Body(k2, "close"),
             Correction(k2, 1, k0), Correction(k2, 2, k1)}

TaskBodies == TaskAsks \cup {Body(k0, "open"), Body(k0, "close")}

\* The task is new, was opened, or was closed before.
TaskJournals == {<<>>, <<Body(k0, "open")>>, <<Body(k0, "open"), Body(k0, "close")>>}
=============================================================================
