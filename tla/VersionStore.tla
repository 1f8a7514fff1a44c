---------------------------- MODULE VersionStore ----------------------------
(***************************************************************************)
(* What publish_new_version v2 promises, without its steps: a content-     *)
(* addressed store that only grows, and current files that a request moves *)
(* from its expected version to its new one in a single step, at most once *)
(* and only when the store holds both.                                     *)
(***************************************************************************)
CONSTANTS
    Runs,       \* invocations
    Files,      \* current files
    Versions,   \* contents that Phase publishes
    Contents,   \* Versions, and what a writer outside Phase may leave
    Requests    \* records with at least a file, an old and a new version

VARIABLES
    request,    \* request[r]: what run r was asked to publish
    current,    \* current[f]: what a reader of the file sees
    stored,     \* the versions that the object store holds
    published,  \* runs that have published
    edited      \* files that somebody wrote without Phase

vars == <<request, current, stored, published, edited>>

Init ==
    /\ request \in [Runs -> Requests]
    /\ current \in [Files -> Versions]
    /\ stored \in SUBSET Versions
    /\ published = {}
    /\ edited = {}

\* An object that r needs is added; none is ever removed or changed.
Archive(r) ==
    /\ \E v \in {request[r].old, request[r].new} : stored' = stored \cup {v}
    /\ UNCHANGED <<request, current, published, edited>>

\* Compare and swap.  In a file that others write, the comparison and the
\* swap are not one step, and the comparison promises nothing.
Publish(r) ==
    LET q == request[r] IN
    /\ r \notin published
    /\ {q.old, q.new} \subseteq stored
    /\ q.file \in edited \/ current[q.file] = q.old
    /\ current' = [current EXCEPT ![q.file] = q.new]
    /\ published' = published \cup {r}
    /\ UNCHANGED <<request, stored, edited>>

Edit(f, content) ==
    /\ current' = [current EXCEPT ![f] = content]
    /\ edited' = edited \cup {f}
    /\ UNCHANGED <<request, stored, published>>

Next ==
    \/ \E r \in Runs : Archive(r) \/ Publish(r)
    \/ \E f \in Files, content \in Contents : Edit(f, content)

Spec == Init /\ [][Next]_vars
=============================================================================
