------------------------------ MODULE TaskLog ------------------------------
(***************************************************************************)
(* What task_journal.v1 promises, without its steps: the journal of a task *)
(* is an append-only log with a life cycle.  It opens once, takes events   *)
(* until it closes, and corrections of its own entries even after that.    *)
(* It may be sealed, by an append that failed in the middle; then nothing  *)
(* is appended to it again.                                                *)
(***************************************************************************)
EXTENDS Naturals, Sequences

CONSTANTS
    Bodies,     \* records with at least a key, an action and a target
    Past        \* the logs it may start with

VARIABLES
    log,        \* the bodies appended so far
    sealed      \* whether the log takes no more

vars == <<log, sealed>>

Did(action) == \E i \in DOMAIN log : log[i].action = action

Init ==
    /\ log \in Past
    /\ sealed = FALSE

Append1(b) ==
    /\ ~sealed
    /\ log' = Append(log, b)
    /\ UNCHANGED sealed

Open(b)  == b.action = "open" /\ ~Did("open") /\ Append1(b)

Event(b) == b.action = "event" /\ Did("open") /\ ~Did("close") /\ Append1(b)

Close(b) == b.action = "close" /\ Did("open") /\ ~Did("close") /\ Append1(b)

Correct(b) ==
    /\ b.action = "correction"
    /\ \E i \in DOMAIN log : b.target = [sequence |-> i, key |-> log[i].key]
    /\ Append1(b)

Seal ==
    /\ sealed' = TRUE
    /\ UNCHANGED log

Next ==
    \/ \E b \in Bodies : Open(b) \/ Event(b) \/ Close(b) \/ Correct(b)
    \/ Seal

Spec == Init /\ [][Next]_vars
=============================================================================
