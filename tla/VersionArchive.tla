--------------------------- MODULE VersionArchive ---------------------------
(***************************************************************************)
(* What publish_new_version v1 promises, without its steps: an archive     *)
(* that only grows, and files that are rewritten in place.  A file loses   *)
(* its version only when the archive holds it, and may then be found torn  *)
(* until its one writer is done.  If the writer never is, it stays torn.   *)
(***************************************************************************)
CONSTANTS
    Runs,       \* invocations
    Files,      \* current files
    Versions,   \* contents of files
    Requests,   \* records with at least a file, an old and a new version
    Torn,       \* what a reader of a half-written file sees
    NoRun       \* no writer

VARIABLES
    request,    \* request[r]: what run r was asked to publish
    current,    \* current[f]: what a reader of the file sees
    archived,   \* the versions in the archive
    writer      \* writer[f]: the run that is rewriting the file

vars == <<request, current, archived, writer>>

Init ==
    /\ request \in [Runs -> Requests]
    /\ current \in [Files -> Versions]
    /\ archived \in SUBSET Versions
    /\ writer = [f \in Files |-> NoRun]

Store(v) ==
    /\ archived' = archived \cup {v}
    /\ UNCHANGED <<request, current, writer>>

\* The old version goes ...
Tear(r) ==
    LET q == request[r] IN
    /\ writer[q.file] = NoRun
    /\ current[q.file] = q.old
    /\ q.old \in archived
    /\ current' = [current EXCEPT ![q.file] = Torn]
    /\ writer' = [writer EXCEPT ![q.file] = r]
    /\ UNCHANGED <<request, archived>>

\* ... and the new one comes.
Settle(r) ==
    LET q == request[r] IN
    /\ writer[q.file] = r
    /\ current' = [current EXCEPT ![q.file] = q.new]
    /\ writer' = [writer EXCEPT ![q.file] = NoRun]
    /\ UNCHANGED <<request, archived>>

Abandon(f) ==
    /\ writer' = [writer EXCEPT ![f] = NoRun]
    /\ UNCHANGED <<request, current, archived>>

Next ==
    \/ \E v \in Versions : Store(v)
    \/ \E r \in Runs : Tear(r) \/ Settle(r)
    \/ \E f \in Files : Abandon(f)

Spec == Init /\ [][Next]_vars
=============================================================================
