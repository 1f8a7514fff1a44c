-------------------------- MODULE SourceAdmission --------------------------
(***************************************************************************)
(* source_admission.v1: a run admits an asset under a logical source id in *)
(* two ordered effects, the content-addressed blob and then the exclusive  *)
(* creation of its descriptor.  The broker takes the lock of each effect   *)
(* for itself and stops at the first that is not applied and verified.     *)
(* Both mechanisms fill the new file in place, so that others can see it   *)
(* unfinished, and neither repairs nor removes what a dead run left.       *)
(*                                                                         *)
(* Every run has an operation key of its own: what keys are for is told in *)
(* PhaseCore.  Only runs of Phase write below the bound root.              *)
(***************************************************************************)
EXTENDS Naturals, Sequences, FiniteSets

CONSTANTS
    Runs,       \* run ids
    Ids,        \* logical source ids, each in its namespace
    Contents,   \* asset bytes
    Results,    \* the source results that may be asked for
    LockOf,     \* the lock behind the scope of a content or a logical id
    NoRun,      \* the holder of a free lock
    MaxFaults   \* bound: crashes and I/O errors in a behaviour

\* The name of a result hashes the logical id, the content and the metadata.
\* On POSIX every scope of a root has one lock, on Windows each has its own.
ASSUME AdmissionConstants ==
    /\ \A q \in Results : q.id \in Ids /\ q.content \in Contents
    /\ Contents \cap Results = {}
    /\ DOMAIN LockOf = Contents \cup Ids
    /\ NoRun \notin Runs
    /\ MaxFaults \in Nat

VARIABLES
    files,      \* the blob of a content, the descriptor of a result
    lock,       \* the run that holds each lock
    pc,         \* the step each run is about to take
    ask,        \* the result each run is to admit
    saw,        \* the blob as the validator of the run read it
    receipts,   \* the effect receipts of the run
    outcome,    \* the terminal status of its Phase receipt
    faults,     \* crashes and I/O errors so far
    created     \* history: the files each run has created

memory == <<ask, saw, receipts, outcome>>
vars   == <<files, lock, pc, memory, faults, created>>

Targets == Contents \cup Results

Locks == {LockOf[s] : s \in Contents \cup Ids}

FileStates == {"absent", "unfinished", "exact"}

Brokered == {"before", "open", "fill", "readback"}

Steps == {"start", "validate", "lock", "progress", "post"} \cup Brokered

EffectStatuses == {"applied_verified", "failed_no_effect", "failed_partial",
                   "indeterminate"}

Observations == {"exists", "absent", "unknown"}

EffectReceipts == [status : EffectStatuses, after : Observations]

Statuses == {"none", "rejected", "succeeded_verified", "committed_unverified",
             "failed_no_effect", "failed_partial", "indeterminate"}

\* The broker is at the effect that has no receipt yet: 0 or 1.
Ordinal(r) == Len(receipts[r])

\* Mutant of Target: the descriptor comes first.
TargetSwapped(r) == IF Ordinal(r) = 0 THEN ask[r] ELSE ask[r].content

Target(r) == IF Ordinal(r) = 0 THEN ask[r].content ELSE ask[r]

Scope(r) == IF Ordinal(r) = 0 THEN ask[r].content ELSE ask[r].id

Init ==
    /\ files \in [Targets -> FileStates]
    /\ \A q \in Results : files[q] = "absent"
    /\ lock = [l \in Locks |-> NoRun]
    /\ pc = [r \in Runs |-> "start"]
    /\ ask \in [Runs -> Results]
    /\ saw = [r \in Runs |-> "absent"]
    /\ receipts = [r \in Runs |-> <<>>]
    /\ outcome = [r \in Runs |-> "none"]
    /\ faults = 0
    /\ created = [r \in Runs |-> {}]

Go(r, step) == pc' = [pc EXCEPT ![r] = step]

\* The run returns, with this terminal status.
Decide(r, status) ==
    /\ outcome' = [outcome EXCEPT ![r] = status]
    /\ Go(r, "done")

\* Mutant of Release: the lock of an effect is never given back.
ReleaseNothing(r) == UNCHANGED lock

Release(r) == lock' = [l \in Locks |-> IF lock[l] = r THEN NoRun ELSE lock[l]]

Record(r, status, after) ==
    receipts' = [receipts EXCEPT ![r] =
                    Append(@, [status |-> status, after |-> after])]

\* The effect has a receipt and its lock is free.
Finish(r, status, after) ==
    /\ Record(r, status, after)
    /\ Release(r)
    /\ Go(r, "progress")

-----------------------------------------------------------------------------
(* Placement and classification                                             *)

Rivals(q) == {p \in Results : p.id = q.id /\ p # q /\ files[p] # "absent"}

\* Mutant of Placement: it wants the blob absent, like the descriptor.
PlacementAbsent(q, blob) ==
    CASE Rivals(q) # {} -> "source.logical_identity_conflict"
      [] Rivals(q) = {} /\ blob # "absent" -> "target.same_key_conflict"
      [] OTHER -> "pass"

(***************************************************************************)
(* validate_preconditions: any other descriptor of the logical id is a     *)
(* conflict, an unfinished one too; its own descriptor is parsed, and must *)
(* have its blob; a blob must have its bytes.                              *)
(***************************************************************************)
Placement(q, blob) ==
    CASE Rivals(q) # {} -> "source.logical_identity_conflict"
      [] Rivals(q) = {} /\ files[q] = "unfinished" -> "canonical.invalid_json"
      [] Rivals(q) = {} /\ files[q] = "exact" /\ blob # "exact"
            -> "source.canonical_result_incomplete"
      [] Rivals(q) = {} /\ files[q] = "absent" /\ blob = "unfinished"
            -> "target.same_key_conflict"
      [] OTHER -> "pass"

\* Mutant of TerminalStatus: the status of the last effect, whatever came before it.
TerminalStatusLast(rs, verified) ==
    LET last == rs[Len(rs)].status IN
    CASE last = "applied_verified" /\ Len(rs) = 2 /\ verified -> "succeeded_verified"
      [] last = "applied_verified" /\ Len(rs) = 2 /\ ~verified -> "committed_unverified"
      [] last = "applied_verified" /\ Len(rs) # 2 -> "failed_no_effect"
      [] OTHER -> last

(***************************************************************************)
(* _executed_receipt.  Only the last effect can have failed, and a result  *)
(* that is in place but not verified to the end is committed_unverified.   *)
(***************************************************************************)
TerminalStatus(rs, verified) ==
    LET last == rs[Len(rs)].status
        prefix == \E i \in 1..(Len(rs) - 1) : rs[i].after = "exists"
    IN
    CASE last = "applied_verified" /\ Len(rs) = 2 /\ verified -> "succeeded_verified"
      [] last = "applied_verified" /\ Len(rs) = 2 /\ ~verified -> "committed_unverified"
      [] last = "applied_verified" /\ Len(rs) # 2 -> "failed_partial"
      [] last # "applied_verified" /\ prefix -> "failed_partial"
      [] OTHER -> last

-----------------------------------------------------------------------------
(* The steps of one run                                                     *)

\* The validator reads the blob, without a lock ...
ReadBlob(r) ==
    /\ pc[r] = "start"
    /\ saw' = [saw EXCEPT ![r] = files[ask[r].content]]
    /\ Go(r, "validate")
    /\ UNCHANGED <<files, lock, ask, receipts, outcome, faults, created>>

\* ... and then the descriptors.  If they are no obstacle, the plan and the
\* intent become durable and the broker starts with effect 0.
Validate(r) ==
    /\ pc[r] = "validate"
    /\ IF Placement(ask[r], saw[r]) = "pass"
         THEN Go(r, "lock") /\ UNCHANGED outcome
         ELSE Decide(r, "rejected")
    /\ saw' = [saw EXCEPT ![r] = "absent"]
    /\ UNCHANGED <<files, lock, ask, receipts, faults, created>>

\* The copy waits for the lock of the content, the broker, for the
\* descriptor, for that of the logical id.
TakeLock(r) ==
    /\ pc[r] = "lock"
    /\ lock[LockOf[Scope(r)]] = NoRun
    /\ lock' = [lock EXCEPT ![LockOf[Scope(r)]] = r]
    /\ Go(r, "before")
    /\ UNCHANGED <<files, memory, faults, created>>

\* Mutant of BeforeEffect: the validation of the plan is trusted.
BeforeEffectTrusting(r) ==
    /\ pc[r] = "before"
    /\ Go(r, "open")
    /\ UNCHANGED <<files, lock, memory, faults, created>>

\* Before the descriptor the placement is validated again, under the lock.
BeforeEffect(r) ==
    /\ pc[r] = "before"
    /\ IF Ordinal(r) = 0 \/ Placement(ask[r], files[ask[r].content]) = "pass"
         THEN Go(r, "open") /\ UNCHANGED <<lock, receipts>>
         ELSE Finish(r, "failed_no_effect", "unknown")
    /\ UNCHANGED <<files, ask, saw, outcome, faults, created>>

\* Exclusive creation.  The copy accepts a blob that has its bytes already;
\* the descriptor must be new, even if the old one says the same.
Open(r) ==
    /\ pc[r] = "open"
    /\ \/ /\ files[Target(r)] = "absent"
          /\ files' = [files EXCEPT ![Target(r)] = "unfinished"]
          /\ created' = [created EXCEPT ![r] = @ \cup {Target(r)}]
          /\ Go(r, "fill")
          /\ UNCHANGED <<lock, receipts>>
       \/ /\ files[Target(r)] = "exact" /\ Ordinal(r) = 0
          /\ Finish(r, "applied_verified", "exists")
          /\ UNCHANGED <<files, created>>
       \/ /\ files[Target(r)] # "absent"
          /\ ~(files[Target(r)] = "exact" /\ Ordinal(r) = 0)
          /\ Finish(r, "failed_no_effect", "exists")
          /\ UNCHANGED <<files, created>>
    /\ UNCHANGED <<ask, saw, outcome, faults>>

Fill(r) ==
    /\ pc[r] = "fill"
    /\ files' = [files EXCEPT ![Target(r)] = "exact"]
    /\ Go(r, "readback")
    /\ UNCHANGED <<lock, memory, faults, created>>

\* The read-back goes through the descriptor that was written.
ReadBack(r) ==
    /\ pc[r] = "readback"
    /\ Finish(r, "applied_verified", "exists")
    /\ UNCHANGED <<files, ask, saw, outcome, faults, created>>

\* Mutant of Progress: the broker does not stop after the last effect.
ProgressPastLast(r) ==
    /\ pc[r] = "progress"
    /\ IF receipts[r][Ordinal(r)].status = "applied_verified"
         THEN Go(r, "lock")
         ELSE Go(r, "post")
    /\ UNCHANGED <<files, lock, memory, faults, created>>

\* Ordered progress is made durable; the next effect follows a verified one.
Progress(r) ==
    /\ pc[r] = "progress"
    /\ IF Ordinal(r) = 1 /\ receipts[r][1].status = "applied_verified"
         THEN Go(r, "lock")
         ELSE Go(r, "post")
    /\ UNCHANGED <<files, lock, memory, faults, created>>

\* The post-operation validator reads descriptor and blob, without a lock.
PostOperation(r) ==
    LET verified == files[ask[r]] = "exact" /\ files[ask[r].content] = "exact"
    IN
    /\ pc[r] = "post"
    /\ Decide(r, TerminalStatus(receipts[r], verified))
    /\ UNCHANGED <<files, lock, ask, saw, receipts, faults, created>>

-----------------------------------------------------------------------------
(* What may go wrong at a step                                              *)

Fault ==
    /\ faults < MaxFaults
    /\ faults' = faults + 1

\* The durable bytes of the descriptor are not the planned ones.
ContentUnbound(r) ==
    /\ pc[r] = "before"
    /\ Ordinal(r) = 1
    /\ Finish(r, "failed_no_effect", "unknown")
    /\ UNCHANGED <<files, ask, saw, outcome, created>>

\* The content, the lock, the directories or the target cannot be read before
\* the file is created.  With no receipt yet, a PhaseError is a rejection and an
\* OSError leaves no receipt; after effect 0 what there is is classified.
Raise(r) ==
    /\ pc[r] \in {"validate", "lock", "before", "open"}
    /\ \/ Ordinal(r) = 0 /\ Decide(r, "rejected")
       \/ Ordinal(r) = 0 /\ Go(r, "crashed") /\ UNCHANGED outcome
       \/ Ordinal(r) = 1 /\ Decide(r, TerminalStatus(receipts[r], FALSE))
    /\ Release(r)
    /\ UNCHANGED <<files, ask, saw, receipts, created>>

\* The exclusive creation fails, and what is there now may not be observable.
OpenFails(r) ==
    /\ pc[r] = "open"
    /\ files[Target(r)] = "absent"
    /\ \E after \in {"absent", "unknown"} : Finish(r, "failed_no_effect", after)
    /\ UNCHANGED <<files, ask, saw, outcome, created>>

\* A write or a sync fails.  An unknown state counts as no effect.
FillFails(r) ==
    /\ pc[r] = "fill"
    /\ \E state \in {"unfinished", "exact"} :
          files' = [files EXCEPT ![Target(r)] = state]
    /\ \/ Finish(r, "failed_partial", "exists")
       \/ Finish(r, "failed_no_effect", "unknown")
    /\ UNCHANGED <<ask, saw, outcome, created>>

ReadBackFails(r) ==
    /\ pc[r] = "readback"
    /\ Finish(r, "indeterminate", "unknown")
    /\ UNCHANGED <<files, ask, saw, outcome, created>>

\* Progress, an attachment or the post-operation validation fails.
FinalizationFails(r) ==
    /\ pc[r] \in {"progress", "post"}
    /\ Decide(r, TerminalStatus(receipts[r], FALSE))
    /\ UNCHANGED <<files, lock, ask, saw, receipts, created>>

\* The process dies and its locks are free.
Crash(r) ==
    /\ pc[r] \in Steps \ {"start"}
    /\ Go(r, "crashed")
    /\ Release(r)
    /\ UNCHANGED <<files, memory, created>>

-----------------------------------------------------------------------------

Step(r) ==
    \/ ReadBlob(r) \/ Validate(r) \/ TakeLock(r) \/ BeforeEffect(r) \/ Open(r)
    \/ Fill(r) \/ ReadBack(r) \/ Progress(r) \/ PostOperation(r)

Failure(r) ==
    /\ Fault
    /\ \/ ContentUnbound(r) \/ Raise(r) \/ OpenFails(r) \/ FillFails(r)
       \/ ReadBackFails(r) \/ FinalizationFails(r) \/ Crash(r)

Next == \E r \in Runs : Step(r) \/ Failure(r)

Spec == Init /\ [][Next]_vars

\* A process runs on until it returns, except while it waits for a lock.
FairSpec == Spec /\ \A r \in Runs : WF_vars(Step(r))

-----------------------------------------------------------------------------
(* Properties                                                               *)

TypeOK ==
    /\ files \in [Targets -> FileStates]
    /\ lock \in [Locks -> Runs \cup {NoRun}]
    /\ pc \in [Runs -> Steps \cup {"done", "crashed"}]
    /\ ask \in [Runs -> Results]
    /\ saw \in [Runs -> FileStates]
    /\ receipts \in [Runs -> Seq(EffectReceipts)]
    /\ \A r \in Runs : Len(receipts[r]) <= 2
    /\ outcome \in [Runs -> Statuses]
    /\ faults \in 0..MaxFaults
    /\ created \in [Runs -> SUBSET Targets]

\* However runs race, fail and die, a logical id never gets descriptors of two
\* results, not even unfinished ones, and no descriptor lacks its content.
CatalogueConsistent ==
    /\ \A p, q \in Results :
          files[p] # "absent" /\ files[q] # "absent" /\ p.id = q.id => p = q
    /\ \A q \in Results : files[q] # "absent" => files[q.content] = "exact"

Observed(r) == \A i \in 1..Len(receipts[r]) : receipts[r][i].after # "unknown"

(***************************************************************************)
(* A receipt tells what its run did.  Success and commitment mean that the *)
(* run itself created the descriptor, and both objects are there; partial, *)
(* that a part of the result is there; indeterminate, that the run created *)
(* the blob.  Rejected, and no effect unless an observation is missing,    *)
(* mean that it created nothing.                                           *)
(***************************************************************************)
ReceiptsAreTrue ==
    \A r \in Runs :
        /\ outcome[r] \in {"succeeded_verified", "committed_unverified"}
              => /\ ask[r] \in created[r]
                 /\ files[ask[r]] = "exact" /\ files[ask[r].content] = "exact"
        /\ outcome[r] = "failed_partial" => files[ask[r].content] # "absent"
        /\ outcome[r] = "indeterminate" => ask[r].content \in created[r]
        /\ outcome[r] = "rejected" => created[r] = {}
        /\ outcome[r] = "failed_no_effect" /\ Observed(r) => created[r] = {}

\* Every run returns or dies: no run waits for a lock while it holds one.
EveryRunEnds == \A r \in Runs : <>(pc[r] \in {"done", "crashed"})

\* Runs that race for a logical id never all lose: when one of them got past
\* validation and nothing failed, one of them succeeds.
OneIsAdmitted ==
    \A r \in Runs :
        pc[r] = "lock" ~>
            \/ faults > 0
            \/ \E q \in Runs : /\ ask[q].id = ask[r].id
                               /\ outcome[q] = "succeeded_verified"

Catalogue == INSTANCE SourceCatalogue WITH
                stored <- {c \in Contents : files[c] = "exact"},
                catalogue <- {q \in Results : files[q] = "exact"}

\* Whatever fails and whoever races: contents and results are only added, a
\* result after its content and only if its logical id has none.
ImplementsCatalogue == Catalogue!Spec
=============================================================================
