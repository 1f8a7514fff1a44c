------------------------- MODULE KnowledgeAdmission -------------------------
(***************************************************************************)
(* knowledge_admission.v1: a run admits an artifact that was made from     *)
(* admitted sources.  The two effects and their broker are those of        *)
(* SourceAdmission; what comes before them is told here: the lock of the   *)
(* operation key, the search for other requests of the key, the            *)
(* verification of the sources and of the superseded result, and the reuse *)
(* of a result that is there already.  Sources and superseded results are  *)
(* verified with the descriptor, the bytes and the receipt of each.        *)
(*                                                                         *)
(* Intents are whole or absent here; a torn one is told in PhaseCore.      *)
(***************************************************************************)
EXTENDS Naturals, Sequences, FiniteSets

CONSTANTS
    Runs,       \* run ids
    Requests,   \* operation keys, each with a result to admit
    Ids,        \* logical knowledge ids, each in its namespace
    Contents,   \* artifact bytes
    Sources,    \* source results
    Results,    \* the knowledge results that may be asked for
    NoResult,   \* what the first version of an artifact supersedes
    LockOf,     \* the lock behind the scope of a content or a logical id
    NoRun,      \* the holder of a free lock
    MaxFaults   \* bound: crashes, errors and spoilt sources in a behaviour

\* The name of a result hashes all of this: it can only name, as the one that
\* it supersedes, a result that was named before.
ASSUME KnowledgeConstants ==
    /\ \A q \in Results :
          /\ q.id \in Ids /\ q.content \in Contents
          /\ q.sources \in SUBSET Sources \ {{}}
          /\ q.supersedes \in (Results \ {q}) \cup {NoResult}
    /\ \A q \in Requests : q.result \in Results
    /\ Contents \cap Results = {}
    /\ NoResult \notin Results
    /\ DOMAIN LockOf = Contents \cup Ids
    /\ NoRun \notin Runs
    /\ MaxFaults \in Nat

VARIABLES
    files,      \* the blob of a content, the descriptor of a result
    lock,       \* the run that holds each lock
    pc,         \* the step each run is about to take
    ask,        \* the result each run is to admit
    saw,        \* the blob as the run last read it for its placement
    receipts,   \* the effect receipts of the run
    outcome,    \* the terminal status of its Phase receipt, or reused_existing
    faults,     \* what has gone wrong so far
    created,    \* history: the files each run has created
    key,        \* the operation key of each run
    intended,   \* whether the intent of the run is durable
    sound,      \* the sources that pass verification
    grounded    \* history: the results about to be created, whose grounds hold

Admission == INSTANCE SourceAdmission

operation == <<ask, key>>
vars == <<files, lock, pc, operation, saw, receipts, outcome, faults, created,
          intended, sound, grounded>>

Preliminary == {"start", "candidate", "blob", "validate", "reuse"}

Ended == {"done", "crashed"}

Keys == {q.key : q \in Requests}

Statuses == Admission!Statuses \cup {"reused_existing"}

Init ==
    /\ Admission!Init
    /\ key \in [Runs -> Keys]
    /\ \A r \in Runs : [key |-> key[r], result |-> ask[r]] \in Requests
    /\ intended = [r \in Runs |-> FALSE]
    /\ sound \in SUBSET Sources
    /\ grounded = {}

Go(r, step) == pc' = [pc EXCEPT ![r] = step]

Decide(r, status) ==
    /\ outcome' = [outcome EXCEPT ![r] = status]
    /\ Go(r, "done")

-----------------------------------------------------------------------------
(* What is verified                                                         *)

\* _verify_source_binding, for every source of the candidate.
SourcesVerify(q) == q.sources \subseteq sound

\* verify_result_reference: the descriptor and its blob are what they were.
ReferenceVerifies(q) == files[q] = "exact" /\ files[q.content] = "exact"

\* inspect_run on the run that created the result: its receipt is verified, and
\* inspect_result verifies its sources again.
Inspected(q) ==
    /\ \E p \in Runs : q \in created[p] /\ outcome[p] = "succeeded_verified"
    /\ ReferenceVerifies(q)
    /\ SourcesVerify(q)

SupersedesVerifies(q) == q.supersedes = NoResult \/ Inspected(q.supersedes)

-----------------------------------------------------------------------------
(* From the request to the durable intent                                   *)

\* The lock behind a key covers the locator of the result as well.
SameLock(p, r) == key[p] = key[r] /\ ask[p] = ask[r]

\* Mutant of LockIsFree: the lock of a run that died stays taken.
LockIsFreeUnlessDead(r) ==
    \A p \in Runs \ {r} : SameLock(p, r) => pc[p] \in {"start", "done"}

\* The lock is held until the run returns or dies.
LockIsFree(r) ==
    \A p \in Runs \ {r} : SameLock(p, r) => pc[p] \in {"start"} \cup Ended

\* Without a hook for a missing receipt, only a verified one is an answer.
Verdict(p) ==
    IF outcome[p] = "succeeded_verified" /\ Inspected(ask[p])
      THEN "reused_existing"
      ELSE "rejected"

\* The key lock is taken, and the intents of the same request are judged.  Who
\* holds the same lock has the same request here, so the conflict of another
\* request digest in one scope, a rejection too, does not come up.
CheckIdempotency(r) ==
    LET priors == {p \in Runs \ {r} : SameLock(p, r) /\ intended[p]}
    IN
    /\ pc[r] = "start"
    /\ LockIsFree(r)
    /\ \/ priors = {} /\ Go(r, "candidate") /\ UNCHANGED outcome
       \/ \E p \in priors : Decide(r, Verdict(p))
    /\ UNCHANGED <<files, lock, operation, saw, receipts, faults, created,
                   intended, sound, grounded>>

\* The intents of all runs are searched for the key under another request; the
\* lock of the key does not cover those.
KeyIsTaken(r) == \E p \in Runs : intended[p] /\ key[p] = key[r] /\ ask[p] # ask[r]

\* validate_candidate: one step, although the intents, the sources and the
\* superseded result are read one after the other.  Intents and receipts are
\* never taken back, and the sources are verified again by the steps below.
ValidateCandidate(r) ==
    /\ pc[r] = "candidate"
    /\ IF ~KeyIsTaken(r) /\ SourcesVerify(ask[r]) /\ SupersedesVerifies(ask[r])
         THEN Go(r, "blob") /\ UNCHANGED outcome
         ELSE Decide(r, "rejected")
    /\ UNCHANGED <<files, lock, operation, saw, receipts, faults, created,
                   intended, sound, grounded>>

\* The sources are verified, and the blob is read without its lock ...
ReadBlob(r) ==
    /\ pc[r] = "blob"
    /\ IF SourcesVerify(ask[r])
         THEN /\ saw' = [saw EXCEPT ![r] = files[ask[r].content]]
              /\ Go(r, "validate")
              /\ UNCHANGED outcome
         ELSE Decide(r, "rejected") /\ UNCHANGED saw
    /\ UNCHANGED <<files, lock, operation, receipts, faults, created, intended,
                   sound, grounded>>

\* ... and then the descriptors: once by the validators, and again, the intent
\* being durable, before effect 0.  A failure is a rejection either time.
Validate(r) ==
    /\ pc[r] = "validate"
    /\ CASE Admission!Placement(ask[r], saw[r]) # "pass" -> Decide(r, "rejected")
         [] OTHER -> /\ Go(r, IF intended[r] THEN "lock" ELSE "reuse")
                     /\ UNCHANGED outcome
    /\ saw' = [saw EXCEPT ![r] = "absent"]
    /\ UNCHANGED <<files, lock, operation, receipts, faults, created, intended,
                   sound, grounded>>

\* Mutant of FindReusable: the result is trusted without its receipt.
FindReusableTrusting(r) ==
    /\ pc[r] = "reuse"
    /\ \/ /\ files[ask[r]] = "absent"
          /\ intended' = [intended EXCEPT ![r] = TRUE]
          /\ Go(r, "blob")
          /\ UNCHANGED outcome
       \/ /\ files[ask[r]] # "absent"
          /\ Decide(r, IF ReferenceVerifies(ask[r]) THEN "reused_existing" ELSE "rejected")
          /\ UNCHANGED intended
    /\ UNCHANGED <<files, lock, operation, saw, receipts, faults, created, sound,
                   grounded>>

\* A result that is there is reused, whatever key it came under, or in the way
\* for ever; without one the plan and the intent become durable.
FindReusable(r) ==
    /\ pc[r] = "reuse"
    /\ \/ /\ files[ask[r]] = "absent"
          /\ intended' = [intended EXCEPT ![r] = TRUE]
          /\ Go(r, "blob")
          /\ UNCHANGED outcome
       \/ /\ files[ask[r]] # "absent"
          /\ Decide(r, IF Inspected(ask[r]) THEN "reused_existing" ELSE "rejected")
          /\ UNCHANGED intended
    /\ UNCHANGED <<files, lock, operation, saw, receipts, faults, created, sound,
                   grounded>>

-----------------------------------------------------------------------------
(* The broker                                                               *)

\* Mutant of BeforeEffect: the sources that the plan was made with are trusted.
BeforeEffectTrusting(r) ==
    /\ Admission!BeforeEffect(r)
    /\ grounded' = IF pc'[r] = "open" /\ Admission!Ordinal(r) = 1
                     THEN grounded \cup {ask[r]} ELSE grounded
    /\ UNCHANGED <<key, intended, sound>>

\* Mutant of BeforeEffect: the effect gets the status of the run.
BeforeEffectRejects(r) ==
    /\ pc[r] = "before"
    /\ IF SourcesVerify(ask[r]) \/ Admission!Ordinal(r) = 0
         THEN Admission!BeforeEffect(r)
         ELSE /\ Admission!Finish(r, "rejected", "unknown")
              /\ UNCHANGED <<files, ask, saw, outcome, faults, created>>
    /\ UNCHANGED <<key, intended, sound, grounded>>

\* Before the descriptor, under the lock of its logical id, the sources and the
\* placement are verified again.
BeforeEffect(r) ==
    /\ pc[r] = "before"
    /\ IF SourcesVerify(ask[r]) \/ Admission!Ordinal(r) = 0
         THEN Admission!BeforeEffect(r)
         ELSE /\ Admission!Finish(r, "failed_no_effect", "unknown")
              /\ UNCHANGED <<files, ask, saw, outcome, faults, created>>
    /\ grounded' = IF pc'[r] = "open" /\ Admission!Ordinal(r) = 1
                     THEN grounded \cup {ask[r]} ELSE grounded
    /\ UNCHANGED <<key, intended, sound>>

\* The two effects are executed as those of any admission ...
Execute(r) ==
    /\ \/ Admission!TakeLock(r) \/ Admission!Open(r) \/ Admission!Fill(r)
       \/ Admission!ReadBack(r) \/ Admission!Progress(r)
    /\ UNCHANGED <<key, intended, sound, grounded>>

\* ... and descriptor and blob are verified once more, without the sources.
PostOperation(r) ==
    /\ Admission!PostOperation(r)
    /\ UNCHANGED <<key, intended, sound, grounded>>

-----------------------------------------------------------------------------
(* What may go wrong                                                        *)

\* Something cannot be read before the broker starts: a PhaseError is a
\* rejection, an OSError or a dead process leaves no receipt.
PreliminaryFails(r) ==
    /\ pc[r] \in Preliminary \ {"start"}
    /\ Admission!Fault
    /\ \/ Decide(r, "rejected")
       \/ Go(r, "crashed") /\ UNCHANGED outcome
    /\ UNCHANGED <<files, lock, operation, saw, receipts, created, intended,
                   sound, grounded>>

ExecutionFails(r) ==
    /\ pc[r] \notin Preliminary
    /\ Admission!Failure(r)
    /\ UNCHANGED <<key, intended, sound, grounded>>

\* An outside writer changes a source, its blob or its evidence.
Spoil(s) ==
    /\ s \in sound
    /\ Admission!Fault
    /\ sound' = sound \ {s}
    /\ UNCHANGED <<files, lock, pc, operation, saw, receipts, outcome, created,
                   intended, grounded>>

-----------------------------------------------------------------------------

Step(r) ==
    \/ CheckIdempotency(r) \/ ValidateCandidate(r) \/ ReadBlob(r) \/ Validate(r)
    \/ FindReusable(r) \/ BeforeEffect(r) \/ Execute(r) \/ PostOperation(r)

Failure(r) == PreliminaryFails(r) \/ ExecutionFails(r)

Next ==
    \/ \E r \in Runs : Step(r) \/ Failure(r)
    \/ \E s \in Sources : Spoil(s)

Spec == Init /\ [][Next]_vars

\* A process runs on until it returns, except while it waits for a lock.
FairSpec == Spec /\ \A r \in Runs : WF_vars(Step(r))

-----------------------------------------------------------------------------
(* Properties                                                               *)

TypeOK ==
    /\ files \in [Admission!Targets -> Admission!FileStates]
    /\ lock \in [Admission!Locks -> Runs \cup {NoRun}]
    /\ pc \in [Runs -> Preliminary \cup Admission!Steps \cup Ended]
    /\ ask \in [Runs -> Results]
    /\ saw \in [Runs -> Admission!FileStates]
    /\ receipts \in [Runs -> Seq(Admission!EffectReceipts)]
    /\ \A r \in Runs : Len(receipts[r]) <= 2
    /\ outcome \in [Runs -> Statuses]
    /\ faults \in 0..MaxFaults
    /\ created \in [Runs -> SUBSET Admission!Targets]
    /\ key \in [Runs -> Keys]
    /\ intended \in [Runs -> BOOLEAN]
    /\ sound \in SUBSET Sources
    /\ grounded \in SUBSET Results

\* A receipt tells what its run did, as in SourceAdmission, and a reused result
\* was admitted and verified by another run: the run itself created nothing.
ReceiptsAreTrue ==
    /\ Admission!ReceiptsAreTrue
    /\ \A r \in Runs :
          outcome[r] = "reused_existing" =>
              /\ created[r] = {}
              /\ \E p \in Runs \ {r} : /\ ask[r] \in created[p]
                                       /\ outcome[p] = "succeeded_verified"
              /\ ReferenceVerifies(ask[r])

\* Every run returns or dies: whoever holds the lock of a key, of a content or of a
\* logical id gives it back, be it by dying.
EveryRunEnds == \A r \in Runs : <>(pc[r] \in Ended)

\* "same operation + different request": the second request of a key changes
\* nothing.
KeyBindsOneRequest ==
    \A p, r \in Runs :
        key[p] = key[r] /\ ask[p] # ask[r] => created[p] = {} \/ created[r] = {}

Base == INSTANCE KnowledgeBase WITH
            stored <- {c \in Contents : files[c] = "exact"},
            base <- {q \in Results : files[q] = "exact"},
            vouched <- {ask[r] : r \in {p \in Runs : outcome[p] = "succeeded_verified"}}

\* Whatever fails, races or is spoilt meanwhile: a result is admitted once, after
\* its bytes, and only if, under the lock of its logical id, its sources verified
\* and the result that it supersedes had the verified receipt that
\* validate_candidate had seen, once, before the plan.
ImplementsKnowledgeBase == Base!Spec
=============================================================================
