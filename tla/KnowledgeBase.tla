--------------------------- MODULE KnowledgeBase ---------------------------
(***************************************************************************)
(* What knowledge_admission.v1 promises, without its steps: results are    *)
(* added one by one, each after its bytes, one for a logical id, and only  *)
(* when its grounds were seen to hold: the sources it was made from, and   *)
(* the verified receipt of the result that it supersedes.                  *)
(***************************************************************************)
CONSTANTS
    Contents,   \* the bytes of artifacts
    Results,    \* records of a logical id, a content, sources, supersedes
    Sources,    \* admitted source results
    NoResult    \* what the first version of an artifact supersedes

VARIABLES
    sound,      \* the sources that pass verification
    stored,     \* the contents of the blob store
    grounded,   \* the results whose grounds have been seen to hold
    base,       \* the admitted results
    vouched     \* the results with a verified receipt

vars == <<sound, stored, grounded, base, vouched>>

Init ==
    /\ sound \in SUBSET Sources
    /\ stored \in SUBSET Contents
    /\ grounded = {} /\ base = {} /\ vouched = {}

\* A source changes under the hands of an outside writer.
Spoil(s) ==
    /\ sound' = sound \ {s}
    /\ UNCHANGED <<stored, grounded, base, vouched>>

Store(c) ==
    /\ stored' = stored \cup {c}
    /\ UNCHANGED <<sound, grounded, base, vouched>>

\* Sources verify now; a receipt that was verified is so for ever.
Ground(q) ==
    /\ q.sources \subseteq sound
    /\ q.supersedes \in vouched \cup {NoResult}
    /\ grounded' = grounded \cup {q}
    /\ UNCHANGED <<sound, stored, base, vouched>>

Admit(q) ==
    /\ q \in grounded
    /\ q.content \in stored
    /\ \A p \in base : p.id # q.id
    /\ base' = base \cup {q}
    /\ UNCHANGED <<sound, stored, grounded, vouched>>

\* A result is vouched for once, by the run that has admitted it.
Vouch(q) ==
    /\ q \in base \ vouched
    /\ vouched' = vouched \cup {q}
    /\ UNCHANGED <<sound, stored, grounded, base>>

Next ==
    \/ \E s \in Sources : Spoil(s)
    \/ \E c \in Contents : Store(c)
    \/ \E q \in Results : Ground(q) \/ Admit(q) \/ Vouch(q)

Spec == Init /\ [][Next]_vars
=============================================================================
