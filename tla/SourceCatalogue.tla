-------------------------- MODULE SourceCatalogue --------------------------
(***************************************************************************)
(* What source_admission.v1 promises, without its steps: a content store   *)
(* and a catalogue that only grow.  A result is admitted in a single step, *)
(* once its content is stored, and its logical id never gets another one.  *)
(***************************************************************************)
CONSTANTS
    Contents,   \* the bytes of assets
    Results     \* records with at least a logical id and a content

VARIABLES
    stored,     \* the contents of the blob store
    catalogue   \* the admitted results

vars == <<stored, catalogue>>

Init ==
    /\ stored \in SUBSET Contents
    /\ catalogue = {}

Store(c) ==
    /\ stored' = stored \cup {c}
    /\ UNCHANGED catalogue

Admit(q) ==
    /\ q.content \in stored
    /\ \A p \in catalogue : p.id # q.id
    /\ catalogue' = catalogue \cup {q}
    /\ UNCHANGED stored

Next ==
    \/ \E c \in Contents : Store(c)
    \/ \E q \in Results : Admit(q)

Spec == Init /\ [][Next]_vars
=============================================================================
