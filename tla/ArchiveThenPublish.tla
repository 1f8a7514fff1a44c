------------------------- MODULE ArchiveThenPublish -------------------------
(***************************************************************************)
(* publish_new_version v1 on archive_then_publish: under the lock of its   *)
(* file, a run copies the version it replaces to the archive of the root   *)
(* and rewrites the file in place.  The archive is filled in place, too.   *)
(* Neither is repaired or removed when the run fails or dies: what is left *)
(* is found by the preconditions of the next one.                          *)
(*                                                                         *)
(* Files of one root share its archive, but on Windows not their lock.     *)
(* Every run has an operation key of its own; what keys are for is told in *)
(* PhaseCore.  Only runs of Phase write below the bound root, no version   *)
(* is empty, and none is the beginning of another.                         *)
(***************************************************************************)
EXTENDS Naturals

CONSTANTS
    Runs,       \* run ids
    Files,      \* current files of one root
    Versions,   \* contents of files
    Requests,   \* records of a file, its expected version and the new one
    LockOf,     \* the lock behind the scope of a file
    Torn,       \* a file that was truncated and not rewritten to the end
    NoRun,      \* the holder of a free lock
    MaxFaults   \* bound: crashes and I/O errors in a behaviour

\* On POSIX every scope of a root has one lock, on Windows each has its own.
ASSUME ArchiveConstants ==
    /\ \A q \in Requests : q.file \in Files /\ {q.old, q.new} \subseteq Versions
    /\ DOMAIN LockOf = Files
    /\ Torn \notin Versions
    /\ NoRun \notin Runs
    /\ MaxFaults \in Nat

VARIABLES
    current,    \* the bytes of each file
    archive,    \* the archive of each version
    lock,       \* the run that holds each lock
    pc,         \* the step each run is about to take
    ask,        \* the request of each run
    effect,     \* the effect receipt of the run
    outcome,    \* the terminal status of its Phase receipt
    faults,     \* crashes and I/O errors so far
    held,       \* history: the versions each file has held
    created,    \* history: the runs that have created an archive
    rewrote     \* history: the runs that have truncated their file

disk    == <<current, archive>>
history == <<held, created, rewrote>>
vars    == <<disk, lock, pc, ask, effect, outcome, faults, history>>

Locks == {LockOf[f] : f \in Files}

ArchiveStates == {"absent", "unfinished", "exact"}

Locked == {"before", "observe", "archive", "fill", "verify", "conclude", "pin",
           "truncate", "rewrite", "readback"}

Steps == {"start", "plan", "lock", "post"} \cup Locked

EffectStatuses == {"applied_verified", "failed_no_effect", "failed_partial",
                   "indeterminate"}

Outcomes == {"none", "rejected", "succeeded_verified", "committed_unverified",
             "failed_no_effect", "failed_partial", "indeterminate"}

File(r) == ask[r].file

Old(r) == ask[r].old

New(r) == ask[r].new

Lock(r) == LockOf[File(r)]

Init ==
    /\ current \in [Files -> Versions]
    /\ archive \in [Versions -> ArchiveStates]
    /\ lock = [l \in Locks |-> NoRun]
    /\ pc = [r \in Runs |-> "start"]
    /\ ask \in [Runs -> Requests]
    /\ effect = [r \in Runs |-> "none"]
    /\ outcome = [r \in Runs |-> "none"]
    /\ faults = 0
    /\ held = [f \in Files |-> {current[f]}]
    /\ created = {}
    /\ rewrote = {}

Go(r, step) == pc' = [pc EXCEPT ![r] = step]

\* The run returns, with this terminal status.
Decide(r, status) ==
    /\ outcome' = [outcome EXCEPT ![r] = status]
    /\ Go(r, "done")

\* Mutant of Release: the lock is never given back.
ReleaseNothing(r) == UNCHANGED lock

Release(r) == lock' = [l \in Locks |-> IF lock[l] = r THEN NoRun ELSE lock[l]]

\* The effect has a receipt and the lock of the file is free.
Finish(r, status) ==
    /\ effect' = [effect EXCEPT ![r] = status]
    /\ Release(r)
    /\ Go(r, "post")

(***************************************************************************)
(* _classify_states, which the preconditions of a run, and the inspection  *)
(* of one that died, make of the file and the archive of its old version.  *)
(***************************************************************************)
Classify(q) ==
    CASE current[q.file] = q.old /\ archive[q.old] = "absent"
            -> "no_effect_observed"
      [] current[q.file] = q.old /\ archive[q.old] = "exact"
            -> "archived_not_published"
      [] current[q.file] = q.new /\ q.new # q.old /\ archive[q.old] = "exact"
            -> "published_not_finalized"
      [] OTHER -> "blocked"

-----------------------------------------------------------------------------
(* The steps of one run                                                     *)

\* The preconditions, without a lock.
Validate(r) ==
    /\ pc[r] = "start"
    /\ IF Classify(ask[r]) # "blocked"
         THEN Go(r, "plan") /\ UNCHANGED outcome
         ELSE Decide(r, "rejected")
    /\ UNCHANGED <<disk, lock, ask, effect, faults, history>>

\* The length of the old version is read again, from the file or the archive;
\* then plan and intent become durable.
Plan(r) ==
    /\ pc[r] = "plan"
    /\ IF current[File(r)] = Old(r) \/ archive[Old(r)] = "exact"
         THEN Go(r, "lock") /\ UNCHANGED outcome
         ELSE Decide(r, "rejected")
    /\ UNCHANGED <<disk, lock, ask, effect, faults, history>>

\* Mutant of TakeLock: it does not wait for the holder.
TakeHeldLock(r) ==
    /\ pc[r] = "lock"
    /\ lock' = [lock EXCEPT ![Lock(r)] = r]
    /\ Go(r, "before")
    /\ UNCHANGED <<disk, ask, effect, outcome, faults, history>>

TakeLock(r) ==
    /\ pc[r] = "lock"
    /\ lock[Lock(r)] = NoRun
    /\ lock' = [lock EXCEPT ![Lock(r)] = r]
    /\ Go(r, "before")
    /\ UNCHANGED <<disk, ask, effect, outcome, faults, history>>

\* The preconditions once more, under the lock.
BeforeEffect(r) ==
    /\ pc[r] = "before"
    /\ IF Classify(ask[r]) # "blocked"
         THEN Go(r, "observe") /\ UNCHANGED <<lock, outcome>>
         ELSE Decide(r, "rejected") /\ Release(r)
    /\ UNCHANGED <<disk, ask, effect, faults, history>>

\* Mutant of Observe: an archive that exists is trusted.
ObserveTrusting(r) ==
    /\ pc[r] = "observe"
    /\ CASE current[File(r)] = New(r) /\ archive[Old(r)] = "exact"
              -> Finish(r, "applied_verified")
         [] current[File(r)] = Old(r) /\ archive[Old(r)] # "absent"
              -> Go(r, "truncate") /\ UNCHANGED <<lock, effect>>
         [] OTHER -> Go(r, "archive") /\ UNCHANGED <<lock, effect>>
    /\ UNCHANGED <<disk, ask, outcome, faults, history>>

\* The mechanism looks for itself: a result that is complete is accepted, and a
\* file that is not at its old version left alone.
Observe(r) ==
    LET complete == current[File(r)] = New(r) /\ archive[Old(r)] = "exact"
    IN
    /\ pc[r] = "observe"
    /\ CASE complete -> Finish(r, "applied_verified")
         [] ~complete /\ current[File(r)] # Old(r) -> Finish(r, "failed_no_effect")
         [] ~complete /\ current[File(r)] = Old(r)
              -> Go(r, "archive") /\ UNCHANGED <<lock, effect>>
    /\ UNCHANGED <<disk, ask, outcome, faults, history>>

\* Exclusive creation of the archive.  One that has the bytes is accepted, any
\* other is a conflict.
CreateArchive(r) ==
    /\ pc[r] = "archive"
    /\ \/ /\ archive[Old(r)] = "absent"
          /\ archive' = [archive EXCEPT ![Old(r)] = "unfinished"]
          /\ created' = created \cup {r}
          /\ Go(r, "fill")
       \/ archive[Old(r)] = "exact" /\ Go(r, "pin") /\ UNCHANGED <<archive, created>>
       \/ /\ archive[Old(r)] = "unfinished"
          /\ Go(r, "conclude")
          /\ UNCHANGED <<archive, created>>
    /\ UNCHANGED <<current, lock, ask, effect, outcome, faults, held, rewrote>>

FillArchive(r) ==
    /\ pc[r] = "fill"
    /\ archive' = [archive EXCEPT ![Old(r)] = "exact"]
    /\ Go(r, "verify")
    /\ UNCHANGED <<current, lock, ask, effect, outcome, faults, history>>

\* The archive is synced and read back through the descriptor it was written by.
VerifyArchive(r) ==
    /\ pc[r] = "verify"
    /\ Go(r, "pin")
    /\ UNCHANGED <<disk, lock, ask, effect, outcome, faults, history>>

\* Mutant of Conclude: whatever failed before the file was touched had no effect.
ConcludeNoEffect(r) ==
    /\ pc[r] = "conclude"
    /\ Finish(r, "failed_no_effect")
    /\ UNCHANGED <<disk, ask, outcome, faults, history>>

\* The archive could not be made; what is there now gives the status.
Conclude(r) ==
    /\ pc[r] = "conclude"
    /\ Finish(r, IF archive[Old(r)] = "unfinished" THEN "failed_partial"
                                                  ELSE "failed_no_effect")
    /\ UNCHANGED <<disk, ask, outcome, faults, history>>

\* Archive and file are opened, and read once more through the descriptors.
Pin(r) ==
    /\ pc[r] = "pin"
    /\ IF archive[Old(r)] = "exact" /\ current[File(r)] = Old(r)
         THEN Go(r, "truncate") /\ UNCHANGED <<lock, effect>>
         ELSE Finish(r, "failed_partial")
    /\ UNCHANGED <<disk, ask, outcome, faults, history>>

\* The file is rewritten in place: it is cut off ...
Truncate(r) ==
    /\ pc[r] = "truncate"
    /\ current' = [current EXCEPT ![File(r)] = Torn]
    /\ rewrote' = rewrote \cup {r}
    /\ Go(r, "rewrite")
    /\ UNCHANGED <<archive, lock, ask, effect, outcome, faults, held, created>>

\* ... and filled.
Rewrite(r) ==
    /\ pc[r] = "rewrite"
    /\ current' = [current EXCEPT ![File(r)] = New(r)]
    /\ held' = [held EXCEPT ![File(r)] = @ \cup {New(r)}]
    /\ Go(r, "readback")
    /\ UNCHANGED <<archive, lock, ask, effect, outcome, faults, created, rewrote>>

\* Both are read back through the descriptors; under the lock nobody wrote.
ReadBack(r) ==
    /\ pc[r] = "readback"
    /\ Finish(r, "applied_verified")
    /\ UNCHANGED <<disk, ask, outcome, faults, history>>

\* Mutant of TerminalStatus: the status of the effect as it is.
TerminalStatusRaw(status, verified) == status

\* _executed_receipt, for one effect.
TerminalStatus(status, verified) ==
    CASE status = "applied_verified" /\ verified -> "succeeded_verified"
      [] status = "applied_verified" /\ ~verified -> "committed_unverified"
      [] OTHER -> status

\* The post-operation validator reads both, without a lock.
PostOperation(r) ==
    LET verified == current[File(r)] = New(r) /\ archive[Old(r)] = "exact" IN
    /\ pc[r] = "post"
    /\ Decide(r, TerminalStatus(effect[r], verified))
    /\ UNCHANGED <<disk, lock, ask, effect, faults, history>>

-----------------------------------------------------------------------------
(* What may go wrong at a step                                              *)

Fault ==
    /\ faults < MaxFaults
    /\ faults' = faults + 1

\* Something cannot be read, opened or locked, and nothing catches it: without
\* an effect receipt a PhaseError is a rejection, an OSError leaves no receipt.
Raise(r) ==
    /\ pc[r] \in {"start", "plan", "lock", "before", "observe", "conclude", "pin"}
    /\ \/ Decide(r, "rejected")
       \/ Go(r, "crashed") /\ UNCHANGED outcome
    /\ Release(r)
    /\ UNCHANGED <<disk, ask, effect, history>>

\* The archive cannot be created, written, synced or read back.
ArchiveFails(r) ==
    /\ pc[r] \in {"archive", "fill", "verify"}
    /\ Go(r, "conclude")
    /\ UNCHANGED <<disk, lock, ask, effect, outcome, history>>

\* The rewrite fails before, in or after it; what is written stays.
RewriteFails(r) ==
    /\ pc[r] \in {"truncate", "rewrite", "readback"}
    /\ Finish(r, "failed_partial") \/ Finish(r, "indeterminate")
    /\ UNCHANGED <<disk, ask, outcome, history>>

\* An attachment or the post-operation validation fails.
FinalizationFails(r) ==
    /\ pc[r] = "post"
    /\ Decide(r, TerminalStatus(effect[r], FALSE))
    /\ UNCHANGED <<disk, lock, ask, effect, history>>

\* The process dies and its locks are free.
Crash(r) ==
    /\ pc[r] \in Steps \ {"start"}
    /\ Go(r, "crashed")
    /\ Release(r)
    /\ UNCHANGED <<disk, ask, effect, outcome, history>>

-----------------------------------------------------------------------------

Step(r) ==
    \/ Validate(r) \/ Plan(r) \/ TakeLock(r) \/ BeforeEffect(r) \/ Observe(r)
    \/ CreateArchive(r) \/ FillArchive(r) \/ VerifyArchive(r) \/ Conclude(r)
    \/ Pin(r) \/ Truncate(r) \/ Rewrite(r) \/ ReadBack(r) \/ PostOperation(r)

Failure(r) ==
    /\ Fault
    /\ \/ Raise(r) \/ ArchiveFails(r) \/ RewriteFails(r) \/ FinalizationFails(r)
       \/ Crash(r)

Next == \E r \in Runs : Step(r) \/ Failure(r)

Spec == Init /\ [][Next]_vars

\* A process runs on until it returns, except while it waits for a lock.
FairSpec == Spec /\ \A r \in Runs : WF_vars(Step(r))

-----------------------------------------------------------------------------
(* Properties                                                               *)

\* Every variable has the values its code can give it.
TypeOK ==
    /\ current \in [Files -> Versions \cup {Torn}]
    /\ archive \in [Versions -> ArchiveStates]
    /\ lock \in [Locks -> Runs \cup {NoRun}]
    /\ pc \in [Runs -> Steps \cup {"done", "crashed"}]
    /\ ask \in [Runs -> Requests]
    /\ effect \in [Runs -> EffectStatuses \cup {"none"}]
    /\ outcome \in [Runs -> Outcomes]
    /\ faults \in 0..MaxFaults
    /\ held \in [Files -> SUBSET Versions]
    /\ created \subseteq Runs
    /\ rewrote \subseteq Runs

\* Every version that a file has held is still in it or complete in the
\* archive, also while the file is cut off and after its writer has died.
NoLostVersion ==
    \A f \in Files : \A v \in held[f] : current[f] = v \/ archive[v] = "exact"

(***************************************************************************)
(* A receipt tells what its run did.  Success and commitment mean that the *)
(* file has held the new version and the archive the old one; partial,     *)
(* that there is an archive or a part of one; indeterminate, that the      *)
(* archive is complete.  Rejected, and no effect, mean that the file was   *)
(* not touched; after no effect the archive may be new, but not in part.   *)
(***************************************************************************)
ReceiptsAreTrue ==
    \A r \in Runs :
        /\ outcome[r] \in {"succeeded_verified", "committed_unverified"}
              => New(r) \in held[File(r)] /\ archive[Old(r)] = "exact"
        /\ outcome[r] = "failed_partial" => archive[Old(r)] # "absent"
        /\ outcome[r] = "indeterminate" => archive[Old(r)] = "exact"
        /\ outcome[r] = "rejected" => r \notin rewrote
        /\ outcome[r] = "failed_no_effect"
              => /\ r \notin rewrote
                 /\ r \in created => archive[Old(r)] = "exact"

\* Every run returns or dies: no run keeps a lock or waits for one for ever.
EveryRunEnds == \A r \in Runs : <>(pc[r] \in {"done", "crashed"})

Writer(f) ==
    IF \E r \in Runs : pc[r] = "rewrite" /\ File(r) = f
      THEN CHOOSE r \in Runs : pc[r] = "rewrite" /\ File(r) = f
      ELSE NoRun

Store == INSTANCE VersionArchive WITH
            request <- ask,
            archived <- {v \in Versions : archive[v] = "exact"},
            writer <- [f \in Files |-> Writer(f)]

\* Files lose a version only to the run that holds their lock and only when it
\* is archived, and one that was left torn is never touched again.
ImplementsVersionArchive == Store!Spec
=============================================================================
