----------------------------- MODULE PhaseCore -----------------------------
(***************************************************************************)
(* The lifecycle of PhaseCore.run (core.py) for the publish_new_version v2 *)
(* contract: idempotency check, validation, durable intent, the broker and *)
(* its mechanism, post-operation validation and the receipt.  Runs are     *)
(* separate processes that share one evidence root and one current file;   *)
(* any of them may die at any step, and what it wrote stays.               *)
(*                                                                         *)
(* The mechanism is ObjectStorePublish at the grain of VersionStore: who   *)
(* writes without Phase, and how bytes reach the disk, is told there.      *)
(***************************************************************************)
EXTENDS Naturals, FiniteSets

CONSTANTS
    Runs,       \* run ids
    Keys,       \* idempotency keys, each with its scope: contract and locator
    Versions,   \* contents of the current file
    Asks,       \* what a run may be asked: key, old, new and execute
    NoRun       \* the holder of a free lock, the prior of a run without one

ASSUME CoreConstants ==
    /\ Asks \subseteq [key : Keys, old : Versions, new : Versions,
                       execute : BOOLEAN]
    /\ NoRun \notin Runs

VARIABLES
    current,    \* the current file
    stored,     \* the versions in the object store
    keyLock,    \* keyLock[k]: the run that holds the idempotency lock of k
    targetLock, \* the run that holds TargetRootLock of the current root
    pc,         \* the step each run is about to take
    ask,        \* the request each run was invoked with
    seen,       \* the runs whose evidence each run's scan has passed
    intent,     \* intent.json of each run: "absent", "torn" or "complete"
    receipt,    \* receipt.json of each run, likewise
    effect,     \* the status of the effect receipt the broker returned
    outcome,    \* the terminal status the run decides on, and its blocker
    \* History, read by the properties only
    archived,   \* runs that added an object
    published,  \* runs that replaced the current file
    prior       \* the run whose receipt a run reused

target   == <<current, stored>>
evidence == <<intent, receipt>>
scan     == <<ask, seen>>
history  == <<archived, published, prior>>
vars     == <<target, keyLock, targetLock, pc, scan, evidence, effect, outcome,
              history>>

Brokered == {"examine", "archive", "swap", "verify"}

Keyed == {"check", "intent", "intent_sync", "broker", "post",
          "receipt", "receipt_sync"} \cup Brokered

Files == {"absent", "torn", "complete"}

Statuses == {"none", "rejected", "validated_planned", "reused_existing",
             "succeeded_verified", "committed_unverified", "failed_no_effect",
             "failed_partial", "indeterminate"}

Blockers == {"none", "same_key_conflict", "prior_inspection_required",
             "prior_result_changed", "prior_unreadable", "preconditions"}

Decision(status, blocker) == [status |-> status, blocker |-> blocker]

SameKey(r, q) == ask[r].key = ask[q].key

\* The request digest covers the frozen request, and neither the run id nor
\* whether execution was asked for.
SameRequest(r, q) ==
    SameKey(r, q) /\ ask[r].old = ask[q].old /\ ask[r].new = ask[q].new

Archived(a) == {a.old, a.new} \subseteq stored

\* Mutant of Complete: it trusts the current file alone.
CompleteCurrentOnly(a) == current = a.new

\* The result of the request is in place, with both versions archived.
Complete(a) == current = a.new /\ Archived(a)

Init ==
    /\ current \in Versions
    /\ stored \in SUBSET Versions
    /\ keyLock = [k \in Keys |-> NoRun]
    /\ targetLock = NoRun
    /\ pc = [r \in Runs |-> "start"]
    /\ ask \in [Runs -> Asks]
    /\ seen = [r \in Runs |-> {}]
    /\ intent = [r \in Runs |-> "absent"]
    /\ receipt = [r \in Runs |-> "absent"]
    /\ effect = [r \in Runs |-> "none"]
    /\ outcome = [r \in Runs |-> Decision("none", "none")]
    /\ archived = {}
    /\ published = {}
    /\ prior = [r \in Runs |-> NoRun]

Go(r, step) == pc' = [pc EXCEPT ![r] = step]

\* The run has decided on its receipt and goes on to write it.
Decide(r, status, blocker) ==
    /\ outcome' = [outcome EXCEPT ![r] = Decision(status, blocker)]
    /\ Go(r, "receipt")

EndScan(r) == seen' = [seen EXCEPT ![r] = {}]

ReleaseKey(r) ==
    keyLock' = [k \in Keys |-> IF keyLock[k] = r THEN NoRun ELSE keyLock[k]]

\* Mutant of ReleaseTarget: a lock that outlives the broker.
ReleaseTargetNever(r) == UNCHANGED targetLock

ReleaseTarget(r) ==
    targetLock' = IF targetLock = r THEN NoRun ELSE targetLock

-----------------------------------------------------------------------------
(* What inspection and the idempotency check make of the evidence           *)

\* Mutant of Classify: a run that died after the replace is not recognised.
ClassifyUnpublished(a) ==
    CASE current = a.old /\ {a.old, a.new} \cap stored = {}
           -> "no_effect_observed"
      [] current = a.old /\ {a.old, a.new} \cap stored # {}
           -> "archived_not_published"
      [] OTHER -> "blocked"

\* The classification hook of the contract, on the live state of the target.
Classify(a) ==
    CASE current = a.old /\ {a.old, a.new} \cap stored = {}
           -> "no_effect_observed"
      [] current = a.old /\ {a.old, a.new} \cap stored # {}
           -> "archived_not_published"
      [] Complete(a) /\ a.new # a.old
           -> "published_not_finalized"
      [] OTHER -> "blocked"

(***************************************************************************)
(* Whether inspect_run finds a run that may be retried.  Its receipt may   *)
(* be missing.  A rejection after the intent has no validator-results.json *)
(* and cannot be inspected; committed_unverified names a result, which     *)
(* must still be there.                                                    *)
(***************************************************************************)
Resumable(q) ==
    /\ Classify(ask[q]) # "blocked"
    /\ receipt[q] = "complete" =>
          /\ outcome[q].status # "rejected"
          /\ outcome[q].status = "committed_unverified"
                => Complete(ask[q])

\* A receipt on disk with this status.
Reported(r, status) == receipt[r] = "complete" /\ outcome[r].status = status

\* A prior run of the same request that was only planned, even if it died.
OnlyPlanned(q) ==
    \/ Reported(q, "validated_planned")
    \/ receipt[q] = "absent" /\ ~ask[q].execute

\* Mutant of Prior: it starts over when the published result has changed.
PriorStartsOver(q) ==
    CASE receipt[q] = "torn" -> "prior_unreadable"
      [] OnlyPlanned(q) -> "skip"
      [] Reported(q, "succeeded_verified") ->
            IF Complete(ask[q]) THEN "reuse" ELSE "skip"
      [] OTHER ->
            IF Resumable(q) THEN "skip" ELSE "prior_inspection_required"

\* What an execution makes of a prior run of the same key and request.
Prior(q) ==
    CASE receipt[q] = "torn" -> "prior_unreadable"
      [] OnlyPlanned(q) -> "skip"
      [] Reported(q, "succeeded_verified") ->
            IF Complete(ask[q]) THEN "reuse" ELSE "prior_result_changed"
      [] OTHER ->
            IF Resumable(q) THEN "skip" ELSE "prior_inspection_required"

\* Mutant of Judge: a plan skips the comparison of the requests.
JudgeExecutionsOnly(r, q) ==
    IF intent[q] = "torn" THEN "prior_inspection_required"
    ELSE IF intent[q] = "absent" \/ ~SameKey(r, q) \/ ~ask[r].execute THEN "skip"
    ELSE IF ~SameRequest(r, q) THEN "same_key_conflict"
    ELSE Prior(q)

\* What _check_idempotency of run r concludes from the evidence of run q.
Judge(r, q) ==
    IF intent[q] = "torn" THEN "prior_inspection_required"
    ELSE IF intent[q] = "absent" \/ ~SameKey(r, q) THEN "skip"
    ELSE IF ~SameRequest(r, q) THEN "same_key_conflict"
    ELSE IF ~ask[r].execute THEN "skip"
    ELSE Prior(q)

\* validate_preconditions of the contract.
Preconditions(a) ==
    \/ current = a.old
    \/ current = a.new /\ a.old \in stored

-----------------------------------------------------------------------------
(* The steps of one run                                                     *)

\* The candidate is captured, its inputs are frozen, and the run waits for
\* the idempotency lock of its key, which it keeps until it returns.
LockKey(r) ==
    /\ pc[r] = "start"
    /\ keyLock[ask[r].key] = NoRun
    /\ keyLock' = [keyLock EXCEPT ![ask[r].key] = r]
    /\ Go(r, "check")
    /\ UNCHANGED <<target, targetLock, scan, evidence, effect, outcome, history>>

(***************************************************************************)
(* The scan reads the evidence of one run after another, in the order of   *)
(* their ids, which have no relation to time: any run may come next, and   *)
(* those of other keys go on meanwhile.  The first conclusion ends it.     *)
(***************************************************************************)
CheckIdempotency(r) ==
    /\ pc[r] = "check"
    /\ \E q \in Runs \ ({r} \cup seen[r]) :
          \/ /\ Judge(r, q) = "skip"
             /\ seen' = [seen EXCEPT ![r] = @ \cup {q}]
             /\ UNCHANGED <<pc, outcome, prior>>
          \/ /\ Judge(r, q) = "reuse"
             /\ Decide(r, "reused_existing", "none")
             /\ prior' = [prior EXCEPT ![r] = q]
             /\ EndScan(r)
          \/ /\ Judge(r, q) \notin {"skip", "reuse"}
             /\ Decide(r, "rejected", Judge(r, q))
             /\ EndScan(r)
             /\ UNCHANGED prior
    /\ UNCHANGED <<target, keyLock, targetLock, ask, evidence, effect, archived,
                   published>>

\* The blocking validators, when the scan is over; without them there is no plan and no intent.
Validate(r) ==
    /\ pc[r] = "check"
    /\ seen[r] = Runs \ {r}
    /\ EndScan(r)
    /\ IF Preconditions(ask[r])
         THEN Go(r, "intent") /\ UNCHANGED outcome
         ELSE Decide(r, "rejected", "preconditions")
    /\ UNCHANGED <<target, keyLock, targetLock, ask, evidence, effect, history>>

\* write_canonical creates intent.json exclusively and fills it in place ...
WriteIntent(r) ==
    /\ pc[r] = "intent"
    /\ intent' = [intent EXCEPT ![r] = "torn"]
    /\ Go(r, "intent_sync")
    /\ UNCHANGED <<target, keyLock, targetLock, scan, receipt, effect, outcome,
                   history>>

\* ... and returns when it is whole and synced.  A plan ends here.
SyncIntent(r) ==
    /\ pc[r] = "intent_sync"
    /\ intent' = [intent EXCEPT ![r] = "complete"]
    /\ IF ask[r].execute
         THEN Go(r, "broker") /\ UNCHANGED outcome
         ELSE Decide(r, "validated_planned", "none")
    /\ UNCHANGED <<target, keyLock, targetLock, scan, receipt, effect, history>>

\* Mutant of EnterBroker: publishers of one root do not exclude each other.
EnterBrokerUnlocked(r) ==
    /\ pc[r] = "broker"
    /\ Go(r, "examine")
    /\ UNCHANGED <<target, keyLock, targetLock, scan, evidence, effect, outcome,
                   history>>

\* The broker re-reads the intent and waits for the lock of the target root.
EnterBroker(r) ==
    /\ pc[r] = "broker"
    /\ targetLock = NoRun
    /\ targetLock' = r
    /\ Go(r, "examine")
    /\ UNCHANGED <<target, keyLock, scan, evidence, effect, outcome, history>>

\* The mechanism returns an effect receipt and the broker leaves the lock.
Leave(r, status) ==
    /\ effect' = [effect EXCEPT ![r] = status]
    /\ ReleaseTarget(r)
    /\ Go(r, "post")

(***************************************************************************)
(* before_effect and the first observations of the mechanism, in one step: *)
(* the lock keeps every other publisher of the file out.  A precondition   *)
(* that no longer holds is a rejection, although the intent exists.        *)
(***************************************************************************)
Examine(r) ==
    LET a == ask[r]
    IN
    /\ pc[r] = "examine"
    /\ \/ /\ ~Preconditions(a)
          /\ Decide(r, "rejected", "preconditions")
          /\ ReleaseTarget(r)
          /\ UNCHANGED effect
       \/ /\ Complete(a)
          /\ Leave(r, "applied_verified")
          /\ UNCHANGED outcome
       \/ /\ Preconditions(a) /\ ~Complete(a) /\ current # a.old
          /\ Leave(r, "failed_no_effect")
          /\ UNCHANGED outcome
       \/ /\ ~Complete(a) /\ current = a.old
          /\ Go(r, "archive")
          /\ UNCHANGED <<targetLock, effect, outcome>>
    /\ UNCHANGED <<target, keyLock, scan, evidence, history>>

\* First the old object, then the new one; a failure leaves a part of them.
Archive(r) ==
    LET missing == {ask[r].old, ask[r].new} \ stored
        next == IF ask[r].old \in missing THEN ask[r].old ELSE ask[r].new
    IN
    /\ pc[r] = "archive"
    /\ \/ /\ missing # {}
          /\ stored' = stored \cup {next}
          /\ archived' = archived \cup {r}
          /\ UNCHANGED <<targetLock, pc, effect>>
       \/ /\ missing = {}
          /\ Go(r, "swap")
          /\ UNCHANGED <<stored, archived, targetLock, effect>>
       \/ /\ Leave(r, "failed_partial")
          /\ UNCHANGED <<stored, archived>>
    /\ UNCHANGED <<current, keyLock, scan, evidence, outcome, published, prior>>

\* The atomic replace, or a failure of it that is observed or not.
Swap(r) ==
    /\ pc[r] = "swap"
    /\ \/ /\ current' = ask[r].new
          /\ published' = published \cup {r}
          /\ Go(r, "verify")
          /\ UNCHANGED <<targetLock, effect>>
       \/ /\ \E status \in {"failed_partial", "indeterminate"} : Leave(r, status)
          /\ UNCHANGED <<current, published>>
    /\ UNCHANGED <<stored, keyLock, scan, evidence, outcome, archived, prior>>

\* Directory sync and read-back; a failure of either leaves the result
\* unverified or, if it cannot be observed again, indeterminate.
Verify(r) ==
    /\ pc[r] = "verify"
    /\ \E status \in {"applied_verified", "applied_unverified",
                      "indeterminate"} : Leave(r, status)
    /\ UNCHANGED <<target, keyLock, scan, evidence, outcome, history>>

\* Mutant of TerminalStatus: the effect's own status, without post-validation.
TerminalStatusRaw(r, postVerified) ==
    IF effect[r] = "applied_verified" THEN "succeeded_verified" ELSE effect[r]

\* Mutant of TerminalStatus: nobody asks the post-operation validators.
TerminalStatusUnasked(r, postVerified) ==
    CASE effect[r] = "applied_verified" -> "succeeded_verified"
      [] effect[r] = "applied_unverified" -> "committed_unverified"
      [] OTHER -> effect[r]

\* _executed_receipt for a plan of one effect.
TerminalStatus(r, postVerified) ==
    CASE effect[r] = "applied_verified" /\ postVerified -> "succeeded_verified"
      [] effect[r] \in {"applied_verified", "applied_unverified"}
           /\ ~(effect[r] = "applied_verified" /\ postVerified)
           -> "committed_unverified"
      [] OTHER -> effect[r]

\* The post-operation validator reads the target again, without its lock.
PostOperation(r) ==
    LET verified == Complete(ask[r]) IN
    /\ pc[r] = "post"
    /\ Decide(r, TerminalStatus(r, verified), "none")
    /\ UNCHANGED <<target, keyLock, targetLock, scan, evidence, effect, history>>

\* receipt.json is created exclusively and filled in place ...
WriteReceipt(r) ==
    /\ pc[r] = "receipt"
    /\ receipt' = [receipt EXCEPT ![r] = "torn"]
    /\ Go(r, "receipt_sync")
    /\ UNCHANGED <<target, keyLock, targetLock, scan, intent, effect, outcome,
                   history>>

\* ... and the run returns.
SyncReceipt(r) ==
    /\ pc[r] = "receipt_sync"
    /\ receipt' = [receipt EXCEPT ![r] = "complete"]
    /\ ReleaseKey(r)
    /\ Go(r, "done")
    /\ UNCHANGED <<target, targetLock, scan, intent, effect, outcome, history>>

\* The process dies, or an OSError leaves run without a receipt on disk.  The
\* locks are free again, the evidence stays as it is, memory is gone.
Crash(r) ==
    /\ pc[r] \in Keyed
    /\ Go(r, "crashed")
    /\ ReleaseKey(r)
    /\ ReleaseTarget(r)
    /\ EndScan(r)
    /\ effect' = [effect EXCEPT ![r] = "none"]
    /\ outcome' = [outcome EXCEPT ![r] = Decision("none", "none")]
    /\ UNCHANGED <<target, ask, evidence, history>>

Progress(r) ==
    \/ LockKey(r) \/ CheckIdempotency(r) \/ Validate(r) \/ WriteIntent(r)
    \/ SyncIntent(r) \/ EnterBroker(r) \/ Examine(r) \/ Archive(r) \/ Swap(r)
    \/ Verify(r) \/ PostOperation(r) \/ WriteReceipt(r) \/ SyncReceipt(r)

Next == \E r \in Runs : Progress(r) \/ Crash(r)

Spec == Init /\ [][Next]_vars

\* A process runs on until it returns, except while it waits for a flock.
FairSpec == Spec /\ \A r \in Runs : WF_vars(Progress(r))

-----------------------------------------------------------------------------
(* Properties                                                               *)

TypeOK ==
    /\ current \in Versions
    /\ stored \subseteq Versions
    /\ keyLock \in [Keys -> Runs \cup {NoRun}]
    /\ targetLock \in Runs \cup {NoRun}
    /\ pc \in [Runs -> Keyed \cup {"start", "done", "crashed"}]
    /\ ask \in [Runs -> Asks]
    /\ seen \in [Runs -> SUBSET Runs]
    /\ intent \in [Runs -> Files]
    /\ receipt \in [Runs -> Files]
    /\ effect \in [Runs -> {"none", "applied_verified", "applied_unverified",
                            "failed_no_effect", "failed_partial",
                            "indeterminate"}]
    /\ outcome \in [Runs -> [status : Statuses, blocker : Blockers]]
    /\ archived \subseteq Runs
    /\ published \subseteq Runs
    /\ prior \in [Runs -> Runs \cup {NoRun}]

\* A key means one request for ever: whatever runs race, die or are only
\* planned, no two durable intents give one key to two requests.
KeyBindsOneRequest ==
    \A r, q \in Runs :
        SameKey(r, q) /\ intent[r] = "complete" /\ intent[q] = "complete"
            => SameRequest(r, q)

\* Once a verified success is on disk, no run of the same key and request
\* touches the target again, not even one that was under way.
SuccessIsFinal ==
    [][\A r, q \in Runs :
          Reported(q, "succeeded_verified") /\ SameKey(r, q)
              => /\ r \in published' => r \in published
                 /\ r \in archived' => r \in archived]_vars

\* A receipt tells what its run did.  Success and commitment have both
\* versions archived; what reports no effect changed nothing; partial never
\* hides a replace; and a reused success is the success of another run.
ReceiptsAreTrue ==
    \A r \in Runs :
        LET says(set) == receipt[r] = "complete" /\ outcome[r].status \in set IN
        /\ says({"succeeded_verified", "committed_unverified"})
              => Archived(ask[r]) /\ intent[r] = "complete"
        /\ says({"rejected", "validated_planned", "reused_existing",
                 "failed_no_effect"})
              => r \notin published /\ r \notin archived
        /\ says({"failed_partial"}) => r \notin published
        /\ says({"reused_existing"})
              => /\ prior[r] # NoRun
                 /\ Reported(prior[r], "succeeded_verified")
                 /\ SameRequest(r, prior[r])

\* A run decides without the lock of the target, when other publishers may have
\* moved on, and still says what is so: a verified success, its own or one that
\* it reuses, finds its version in the file and both archived at that moment;
\* and a run that has replaced the file never decides that it did not.
SuccessWasSeen ==
    [][\A r \in Runs :
          LET told == outcome'[r].status IN
          outcome[r].status = "none" =>
             /\ told \in {"succeeded_verified", "reused_existing"}
                   => current = ask[r].new /\ Archived(ask[r])
             /\ told # "none" /\ r \in published
                   => told \in {"succeeded_verified", "committed_unverified",
                                "indeterminate"}]_vars

\* A run that died with a durable intent can be retried under its key as long
\* as the file is at the version it expected, or publications, its own or of
\* others, have brought the file to the version it was to publish.
CrashIsRetryable ==
    \A r \in Runs :
        /\ pc[r] = "crashed" /\ ask[r].execute
        /\ intent[r] = "complete" /\ receipt[r] = "absent"
        /\ \/ current = ask[r].old
           \/ current = ask[r].new /\ published # {}
        => Resumable(r)

\* Every run returns or dies: the key lock is always taken before the target
\* lock, and both are released on every path.
EveryRunEnds == \A r \in Runs : <>(pc[r] \in {"done", "crashed"})

\* A retry of the same scoped request creates no additional canonical effect.
RetryAppliesOnce ==
    \A r, q \in published : r # q => ~SameRequest(r, q)

\* A run whose key no other run uses finds no matching key, and proceeds.
UnrelatedRunsProceed ==
    \A r \in Runs :
        (\A q \in Runs \ {r} : ~SameKey(r, q))
            => outcome[r].blocker # "prior_inspection_required"

\* The lifecycle adds nothing to what the mechanism may do to the target.
Store == INSTANCE VersionStore WITH
            Files <- {"current"},
            Contents <- Versions,
            Requests <- [file : {"current"}, old : Versions, new : Versions],
            request <- [r \in Runs |-> [file |-> "current", old |-> ask[r].old,
                                        new |-> ask[r].new]],
            current <- [f \in {"current"} |-> current],
            edited <- {}

\* Whatever the evidence says and whoever retries, the current file moves only
\* by compare-and-swap publications of archived versions, one for each run.
ImplementsVersionStore == Store!Spec
=============================================================================
