---------------------- MODULE KnowledgeAdmissionProofs ----------------------
(***************************************************************************)
(* Theorems about KnowledgeAdmission, for every set of runs, requests,     *)
(* logical ids, contents, sources and results, for every assignment of     *)
(* locks to scopes and any number of failures and spoilt sources.          *)
(***************************************************************************)
EXTENDS KnowledgeAdmission, TLAPS

-----------------------------------------------------------------------------
(* The inductive invariant                                                  *)

Verified == [status |-> "applied_verified", after |-> "exists"]

\* At the lock of an effect, or under it.
Executing == {"lock"} \cup Admission!Brokered

\* The results with a verified receipt.
Vouched == {ask[r] : r \in {p \in Runs : outcome[p] = "succeeded_verified"}}

\* Which receipts there are, by the step the run is about to take: it came to
\* a second effect only over a first one that is verified.
Ordered(r) ==
    /\ pc[r] # "done" => outcome[r] = "none"
    /\ pc[r] \in Preliminary => Len(receipts[r]) = 0
    /\ pc[r] \in {"progress", "post"} => Len(receipts[r]) >= 1
    /\ pc[r] \in Executing => Len(receipts[r]) <= 1
    /\ Len(receipts[r]) = 1 /\ pc[r] \in Executing => receipts[r][1] = Verified
    /\ Len(receipts[r]) = 2 => receipts[r][1] = Verified

HoldsLock(r) ==
    pc[r] \in Admission!Brokered => lock[LockOf[Admission!Scope(r)]] = r

\* The file that the run is working on, and what it relies on.
InHand(r) ==
    /\ pc[r] = "open" /\ Len(receipts[r]) = 1 => Admission!Rivals(ask[r]) = {}
    /\ pc[r] \in {"open", "fill"} /\ Len(receipts[r]) = 1 => ask[r] \in grounded
    /\ pc[r] = "fill" => /\ files[Admission!Target(r)] = "unfinished"
                         /\ Admission!Target(r) \in created[r]
    /\ pc[r] = "readback" => /\ files[Admission!Target(r)] = "exact"
                             /\ Admission!Target(r) \in created[r]
    /\ /\ pc[r] \in Preliminary \cup {"lock", "before", "open"}
       /\ Len(receipts[r]) = 0
       => created[r] = {}

\* What the run has created is there, its own, and nobody else's.
Made(r) ==
    /\ created[r] \subseteq {ask[r].content, ask[r]}
    /\ \A t \in created[r] : files[t] # "absent"
    /\ \A s \in Runs \ {r} : created[s] \cap created[r] = {}

\* Past the validation of its candidate, the run supersedes a result whose
\* receipt was verified.
Founded(r) ==
    pc[r] \notin {"start", "candidate"} \cup Ended
        => ask[r].supersedes \in Vouched \cup {NoResult}

\* What the receipts of the effects say is so.
EffectsTrue(r) ==
    /\ Len(receipts[r]) >= 1 =>
          /\ receipts[r][1].status = "applied_verified"
                => receipts[r][1] = Verified /\ files[ask[r].content] = "exact"
          /\ receipts[r][1].status = "failed_partial"
                => files[ask[r].content] # "absent"
          /\ receipts[r][1].status = "indeterminate"
                => ask[r].content \in created[r]
          /\ receipts[r][1].status = "failed_no_effect"
                => receipts[r][1].after = "unknown" \/ created[r] = {}
    /\ Len(receipts[r]) = 2 /\ receipts[r][2].status = "applied_verified"
          => files[ask[r]] = "exact" /\ ask[r] \in created[r]

\* What a receipt that the broker has worked for says is so ...
Truthful(r) ==
    /\ outcome[r] \in {"succeeded_verified", "committed_unverified"}
          => /\ ask[r] \in created[r]
             /\ files[ask[r]] = "exact" /\ files[ask[r].content] = "exact"
    /\ outcome[r] = "failed_partial" => files[ask[r].content] # "absent"
    /\ outcome[r] = "indeterminate" => ask[r].content \in created[r]
    /\ outcome[r] = "rejected" => created[r] = {}
    /\ outcome[r] = "failed_no_effect" /\ Admission!Observed(r) => created[r] = {}

\* ... and what an answer without an effect says.
Reused(r) ==
    outcome[r] = "reused_existing"
        => /\ created[r] = {}
           /\ \E p \in Runs \ {r} : /\ ask[r] \in created[p]
                                    /\ outcome[p] = "succeeded_verified"
           /\ ReferenceVerifies(ask[r])

RunOK(r) ==
    /\ Ordered(r) /\ HoldsLock(r) /\ InHand(r) /\ Made(r) /\ Founded(r)
    /\ EffectsTrue(r) /\ Truthful(r) /\ Reused(r)

IInv ==
    /\ TypeOK
    /\ Admission!CatalogueConsistent
    /\ \A r \in Runs : RunOK(r)

-----------------------------------------------------------------------------
(* Types                                                                    *)

Act(r) == Step(r) \/ Failure(r)

LEMMA Ranges ==
    ASSUME TypeOK, NEW r \in Runs
    PROVE  /\ ask[r] \in Results /\ ask[r].content \in Contents /\ ask[r].id \in Ids
           /\ receipts[r] \in Seq(Admission!EffectReceipts)
           /\ Len(receipts[r]) \in 0..2
           /\ Admission!Target(r) \in Admission!Targets
           /\ Admission!Scope(r) \in Contents \cup Ids
           /\ LockOf[Admission!Scope(r)] \in Admission!Locks
           /\ ask[r] \in Admission!Targets /\ ask[r].content \in Admission!Targets
           /\ ask[r] # ask[r].content
<1>1. ask[r] \in Results
  BY DEF TypeOK
<1>2. ask[r].content \in Contents /\ ask[r].id \in Ids
  BY <1>1, KnowledgeConstants
<1>3. /\ ask[r] \in Admission!Targets /\ ask[r].content \in Admission!Targets
      /\ ask[r] # ask[r].content
  BY <1>1, <1>2, KnowledgeConstants DEF Admission!Targets
<1>4. /\ Admission!Target(r) \in Admission!Targets
      /\ Admission!Scope(r) \in Contents \cup Ids
  BY <1>2, <1>3 DEF Admission!Target, Admission!Scope
<1>5. LockOf[Admission!Scope(r)] \in Admission!Locks
  BY <1>4 DEF Admission!Locks
<1>6. receipts[r] \in Seq(Admission!EffectReceipts) /\ Len(receipts[r]) <= 2
  BY DEF TypeOK
<1>7. Len(receipts[r]) \in 0..2
  <2> DEFINE n == Len(receipts[r])
  <2>1. n \in Nat /\ n <= 2
    BY <1>6
  <2> HIDE DEF n
  <2>2. n \in 0..2
    BY <2>1
  <2> QED
    BY <2>2 DEF n
<1> QED
  BY <1>1, <1>2, <1>3, <1>4, <1>5, <1>6, <1>7

\* A receipt is added at the end, and the others stay.
LEMMA Recorded ==
    ASSUME TypeOK, NEW r \in Runs, NEW status \in Admission!EffectStatuses,
           NEW after \in Admission!Observations,
           Admission!Record(r, status, after), Len(receipts[r]) <= 1
    PROVE  /\ receipts' \in [Runs -> Seq(Admission!EffectReceipts)]
           /\ \A s \in Runs \ {r} : receipts'[s] = receipts[s]
           /\ Len(receipts'[r]) = Len(receipts[r]) + 1
           /\ Len(receipts[r]) = 0 => receipts'[r][1] = [status |-> status, after |-> after]
           /\ Len(receipts[r]) = 1
                 => /\ receipts'[r][1] = receipts[r][1]
                    /\ receipts'[r][2] = [status |-> status, after |-> after]
<1> DEFINE new == [status |-> status, after |-> after]
<1>1. new \in Admission!EffectReceipts
  BY DEF Admission!EffectReceipts
<1>2. receipts[r] \in Seq(Admission!EffectReceipts) /\ Len(receipts[r]) \in Nat
  BY Ranges
<1>3. receipts' = [receipts EXCEPT ![r] = Append(receipts[r], new)]
  BY DEF Admission!Record
<1>4. receipts'[r] = Append(receipts[r], new)
  BY <1>3 DEF TypeOK
<1>5. Append(receipts[r], new) \in Seq(Admission!EffectReceipts)
  BY <1>1, <1>2
<1>6. receipts' \in [Runs -> Seq(Admission!EffectReceipts)]
  BY <1>3, <1>5 DEF TypeOK
<1> HIDE DEF new
<1>7. /\ Len(receipts'[r]) = Len(receipts[r]) + 1
      /\ Len(receipts[r]) = 0 => receipts'[r][1] = new
      /\ Len(receipts[r]) = 1 => receipts'[r][1] = receipts[r][1] /\ receipts'[r][2] = new
  BY <1>1, <1>2, <1>4
<1>8. \A s \in Runs \ {r} : receipts'[s] = receipts[s]
  BY <1>3 DEF TypeOK
<1> QED
  BY <1>6, <1>7, <1>8 DEF new

\* A broker at an effect holds the receipts of those before it only.
LEMMA FinishTypes ==
    ASSUME TypeOK, NEW r \in Runs, NEW status \in Admission!EffectStatuses,
           NEW after \in Admission!Observations,
           Admission!Finish(r, status, after), Len(receipts[r]) <= 1
    PROVE  /\ receipts' \in [Runs -> Seq(Admission!EffectReceipts)]
           /\ \A s \in Runs : Len(receipts'[s]) <= 2
           /\ lock' \in [Admission!Locks -> Runs \cup {NoRun}]
           /\ pc' \in [Runs -> Preliminary \cup Admission!Steps \cup Ended]
<1>1. Admission!Record(r, status, after)
  BY DEF Admission!Finish
<1>2. /\ receipts' \in [Runs -> Seq(Admission!EffectReceipts)]
      /\ \A s \in Runs : Len(receipts'[s]) <= 2
  <2>1. Len(receipts'[r]) = Len(receipts[r]) + 1 /\ Len(receipts[r]) \in 0..2
    BY <1>1, Recorded, Ranges
  <2>2. Len(receipts'[r]) <= 2
    BY <2>1
  <2>3. \A s \in Runs \ {r} : Len(receipts'[s]) <= 2
    BY <1>1, Recorded DEF TypeOK
  <2> QED
    BY <1>1, Recorded, <2>2, <2>3
<1>3. lock' \in [Admission!Locks -> Runs \cup {NoRun}]
  BY DEF Admission!Finish, Admission!Release, TypeOK
<1>4. pc' \in [Runs -> Preliminary \cup Admission!Steps \cup Ended]
  BY DEF Admission!Finish, Admission!Go, Admission!Steps, TypeOK
<1> QED
  BY <1>2, <1>3, <1>4

\* What becomes of a run that has at least one receipt is a terminal status.
LEMMA StatusType ==
    ASSUME NEW rs \in Seq(Admission!EffectReceipts), Len(rs) \in 1..2,
           NEW verified \in BOOLEAN
    PROVE  Admission!TerminalStatus(rs, verified) \in Statuses
<1>1. rs[Len(rs)] \in Admission!EffectReceipts
  OBVIOUS
<1>2. rs[Len(rs)].status \in Admission!EffectStatuses
  BY <1>1 DEF Admission!EffectReceipts
<1> QED
  BY <1>2 DEF Admission!TerminalStatus, Admission!EffectStatuses, Statuses, Admission!Statuses

-----------------------------------------------------------------------------
(* The two parts of a run                                                   *)

\* Up to the durable intent, and on to the first lock, a run only reads.
Prelude(r) ==
    \/ CheckIdempotency(r) \/ ValidateCandidate(r) \/ ReadBlob(r) \/ Validate(r)
    \/ FindReusable(r) \/ PreliminaryFails(r)

\* Then the broker executes the plan.
Executes(r) ==
    BeforeEffect(r) \/ Execute(r) \/ PostOperation(r) \/ ExecutionFails(r)

LEMMA TwoParts ==
    ASSUME NEW r \in Runs
    PROVE  Act(r) <=> Prelude(r) \/ Executes(r)
BY DEF Act, Prelude, Executes, Step, Failure

LEMMA PreludeReads ==
    ASSUME TypeOK, NEW r \in Runs, Prelude(r)
    PROVE  /\ pc[r] \in Preliminary
           /\ UNCHANGED <<files, lock, ask, key, receipts, created, sound, grounded>>
           /\ saw' \in [Runs -> Admission!FileStates]
           /\ intended' \in [Runs -> BOOLEAN]
           /\ faults' \in 0..MaxFaults
<1>1. pc[r] \in Preliminary /\ UNCHANGED <<files, lock, ask, key, receipts, created, sound, grounded>>
  BY DEF Prelude, CheckIdempotency, ValidateCandidate, ReadBlob, Validate,
         FindReusable, PreliminaryFails, Preliminary, operation
<1>2. saw' \in [Runs -> Admission!FileStates]
  <2>1. files[ask[r].content] \in Admission!FileStates
    BY Ranges DEF TypeOK
  <2> QED
    BY <2>1
    DEF TypeOK, Prelude, CheckIdempotency, ValidateCandidate, ReadBlob, Validate,
        FindReusable, PreliminaryFails, Admission!FileStates
<1>3. intended' \in [Runs -> BOOLEAN]
  BY DEF TypeOK, Prelude, CheckIdempotency, ValidateCandidate, ReadBlob, Validate,
         FindReusable, PreliminaryFails
<1>4. faults' \in 0..MaxFaults
  BY KnowledgeConstants
  DEF TypeOK, Prelude, CheckIdempotency, ValidateCandidate, ReadBlob, Validate,
      FindReusable, PreliminaryFails, Admission!Fault
<1> QED
  BY <1>1, <1>2, <1>3, <1>4

\* It goes on, and past its candidate only over a verified superseded result;
\* or it is rejected, or it answers with a result that another run has admitted.
LEMMA PreludeGoes ==
    ASSUME TypeOK, NEW r \in Runs, Prelude(r)
    PROVE  \/ \E step \in {"candidate", "blob", "validate", "reuse", "lock", "crashed"} :
                 /\ Go(r, step) /\ outcome' = outcome
                 /\ pc[r] = "start" => step = "candidate"
                 /\ pc[r] = "candidate" /\ step # "crashed"
                       => SupersedesVerifies(ask[r])
                 /\ pc[r] # "start" => step # "candidate"
           \/ Decide(r, "rejected")
           \/ Decide(r, "reused_existing") /\ Inspected(ask[r])
<1>1. CASE CheckIdempotency(r)
  BY <1>1 DEF CheckIdempotency, Verdict, SameLock
<1>2. CASE ValidateCandidate(r)
  BY <1>2 DEF ValidateCandidate
<1>3. CASE ReadBlob(r)
  BY <1>3 DEF ReadBlob
<1>4. CASE Validate(r)
  BY <1>4 DEF Validate
<1>5. CASE FindReusable(r)
  BY <1>5 DEF FindReusable
<1>6. CASE PreliminaryFails(r)
  BY <1>6 DEF PreliminaryFails
<1> QED
  BY <1>1, <1>2, <1>3, <1>4, <1>5, <1>6 DEF Prelude

LEMMA ExecutesLeaves ==
    ASSUME NEW r \in Runs, Executes(r)
    PROVE  /\ pc[r] \notin Preliminary \cup Ended
           /\ UNCHANGED <<ask, key, intended, sound, saw>>
           /\ ~BeforeEffect(r) => UNCHANGED grounded
<1>1. UNCHANGED <<ask, saw>>
  <2>1. CASE BeforeEffect(r)
    BY <2>1 DEF BeforeEffect, Admission!BeforeEffect
  <2>2. CASE Execute(r)
    BY <2>2
    DEF Execute, Admission!TakeLock, Admission!Open, Admission!Fill,
        Admission!ReadBack, Admission!Progress, Admission!memory
  <2>3. CASE PostOperation(r)
    BY <2>3 DEF PostOperation, Admission!PostOperation
  <2>4. CASE ExecutionFails(r)
    BY <2>4
    DEF ExecutionFails, Admission!Failure, Admission!ContentUnbound, Admission!Raise,
        Admission!OpenFails, Admission!FillFails, Admission!ReadBackFails,
        Admission!FinalizationFails, Admission!Crash, Admission!memory
  <2> QED
    BY <2>1, <2>2, <2>3, <2>4 DEF Executes
<1>2. pc[r] \notin Preliminary \cup Ended
  <2>1. CASE ExecutionFails(r)
    BY <2>1
    DEF ExecutionFails, Admission!Failure, Admission!ContentUnbound, Admission!Raise,
        Admission!OpenFails, Admission!FillFails, Admission!ReadBackFails,
        Admission!FinalizationFails, Admission!Crash, Admission!Steps,
        Admission!Brokered, Ended
  <2>2. CASE ~ExecutionFails(r)
    BY <2>2
    DEF Executes, BeforeEffect, Execute, PostOperation, Admission!TakeLock,
        Admission!Open, Admission!Fill, Admission!ReadBack, Admission!Progress,
        Admission!PostOperation, Preliminary, Ended
  <2> QED
    BY <2>1, <2>2
<1>3. UNCHANGED <<key, intended, sound>> /\ (~BeforeEffect(r) => UNCHANGED grounded)
  BY DEF Executes, BeforeEffect, Execute, PostOperation, ExecutionFails
<1> QED
  BY <1>1, <1>2, <1>3

\* The effect ends, or the file may be created; and then the grounds of a
\* result were verified.
LEMMA BeforeGoes ==
    ASSUME NEW r \in Runs, BeforeEffect(r)
    PROVE  /\ pc[r] = "before"
           /\ UNCHANGED <<files, outcome, faults, created>>
           /\ \/ Admission!Finish(r, "failed_no_effect", "unknown")
              \/ /\ Go(r, "open") /\ UNCHANGED <<lock, receipts>>
                 /\ Admission!Ordinal(r) # 0
                       => /\ Admission!Placement(ask[r], files[ask[r].content]) = "pass"
                          /\ SourcesVerify(ask[r])
BY DEF BeforeEffect, Admission!BeforeEffect, Go, Admission!Go

LEMMA PreludeTypes ==
    ASSUME TypeOK, NEW r \in Runs, Prelude(r)
    PROVE  TypeOK'
<1>1. /\ pc' \in [Runs -> Preliminary \cup Admission!Steps \cup Ended]
      /\ outcome' \in [Runs -> Statuses]
  <2>1. CASE \E step \in {"candidate", "blob", "validate", "reuse", "lock", "crashed"} :
                Go(r, step) /\ outcome' = outcome
    BY <2>1 DEF Go, TypeOK, Preliminary, Admission!Steps, Ended
  <2>2. CASE Decide(r, "rejected") \/ Decide(r, "reused_existing")
    BY <2>2 DEF Decide, Go, TypeOK, Ended, Statuses, Admission!Statuses
  <2> QED
    BY <2>1, <2>2, PreludeGoes
<1> QED
  BY <1>1, PreludeReads DEF TypeOK

\* What TypeOK says of the broker's variables.
LEMMA BrokerTypes ==
    ASSUME IInv, NEW r \in Runs, Executes(r)
    PROVE  /\ files' \in [Admission!Targets -> Admission!FileStates]
           /\ created' \in [Runs -> SUBSET Admission!Targets]
           /\ lock' \in [Admission!Locks -> Runs \cup {NoRun}]
           /\ receipts' \in [Runs -> Seq(Admission!EffectReceipts)]
           /\ \A s \in Runs : Len(receipts'[s]) <= 2
           /\ pc' \in [Runs -> Preliminary \cup Admission!Steps \cup Ended]
           /\ outcome' \in [Runs -> Statuses]
           /\ faults' \in 0..MaxFaults
<1> USE DEF IInv, RunOK, Ordered
<1>0. /\ ask[r] \in Results /\ Admission!Target(r) \in Admission!Targets
      /\ LockOf[Admission!Scope(r)] \in Admission!Locks
      /\ receipts[r] \in Seq(Admission!EffectReceipts) /\ Len(receipts[r]) \in 0..2
  BY Ranges
<1>1. ASSUME NEW status \in Admission!EffectStatuses,
             NEW after \in Admission!Observations,
             Admission!Finish(r, status, after), pc[r] \in Admission!Brokered
      PROVE  /\ receipts' \in [Runs -> Seq(Admission!EffectReceipts)]
             /\ \A s \in Runs : Len(receipts'[s]) <= 2
             /\ lock' \in [Admission!Locks -> Runs \cup {NoRun}]
             /\ pc' \in [Runs -> Preliminary \cup Admission!Steps \cup Ended]
  BY <1>1, FinishTypes DEF Executing
<1>2. ASSUME Len(receipts[r]) >= 1, NEW verified \in BOOLEAN,
             Admission!Decide(r, Admission!TerminalStatus(receipts[r], verified))
      PROVE  /\ pc' \in [Runs -> Preliminary \cup Admission!Steps \cup Ended]
             /\ outcome' \in [Runs -> Statuses]
  <2>1. Len(receipts[r]) \in 1..2
    BY <1>0, <1>2
  <2>2. Admission!TerminalStatus(receipts[r], verified) \in Statuses
    BY <1>0, <2>1, StatusType
  <2> QED
    BY <1>2, <2>2 DEF Admission!Decide, Admission!Go, TypeOK, Ended
<1>3. CASE ExecutionFails(r)
  <2>1. Admission!Failure(r) /\ faults' \in 0..MaxFaults
    BY <1>3, KnowledgeConstants DEF ExecutionFails, Admission!Failure, Admission!Fault, TypeOK
  <2>2. CASE Admission!ContentUnbound(r)
    BY <2>1, <2>2, <1>1
    DEF Admission!ContentUnbound, TypeOK, Admission!Brokered,
        Admission!EffectStatuses, Admission!Observations
  <2>3. CASE Admission!Raise(r)
    <3>1. /\ pc' \in [Runs -> Preliminary \cup Admission!Steps \cup Ended]
          /\ outcome' \in [Runs -> Statuses]
      <4>1. CASE Admission!Ordinal(r) = 0
        <5>1. Admission!Ordinal(r) # 1
          BY <4>1
        <5>2. \/ Admission!Decide(r, "rejected")
              \/ Admission!Go(r, "crashed") /\ UNCHANGED outcome
          BY <2>3, <5>1, Zenon DEF Admission!Raise
        <5> QED
          BY <5>2 DEF Admission!Decide, Admission!Go, TypeOK, Ended, Statuses, Admission!Statuses
      <4>2. CASE Admission!Ordinal(r) = 1
        <5>1. Admission!Ordinal(r) # 0
          BY <4>2
        <5>2. Admission!Decide(r, Admission!TerminalStatus(receipts[r], FALSE))
          BY <2>3, <5>1, Zenon DEF Admission!Raise
        <5>3. Len(receipts[r]) >= 1
          BY <4>2 DEF Admission!Ordinal
        <5> QED
          BY <5>2, <5>3, <1>2
      <4> QED
        BY <2>3, <4>1, <4>2 DEF Admission!Raise
    <3>2. lock' \in [Admission!Locks -> Runs \cup {NoRun}]
      BY <2>3 DEF Admission!Raise, Admission!Release, TypeOK
    <3> QED
      BY <2>1, <2>3, <3>1, <3>2 DEF Admission!Raise, TypeOK
  <2>4. CASE Admission!OpenFails(r)
    BY <2>1, <2>4, <1>1
    DEF Admission!OpenFails, TypeOK, Admission!Brokered,
        Admission!EffectStatuses, Admission!Observations
  <2>5. CASE Admission!FillFails(r)
    <3>1. files' \in [Admission!Targets -> Admission!FileStates]
      BY <2>5, <1>0 DEF Admission!FillFails, TypeOK, Admission!FileStates
    <3> QED
      BY <2>1, <2>5, <3>1, <1>1
      DEF Admission!FillFails, TypeOK, Admission!Brokered,
          Admission!EffectStatuses, Admission!Observations
  <2>6. CASE Admission!ReadBackFails(r)
    BY <2>1, <2>6, <1>1
    DEF Admission!ReadBackFails, TypeOK, Admission!Brokered,
        Admission!EffectStatuses, Admission!Observations
  <2>7. CASE Admission!FinalizationFails(r)
    BY <2>1, <2>7, <1>2 DEF Admission!FinalizationFails, TypeOK
  <2>8. CASE Admission!Crash(r)
    BY <2>1, <2>8
    DEF Admission!Crash, Admission!Release, Admission!Go, TypeOK, Admission!memory, Ended
  <2> QED
    BY <2>1, <2>2, <2>3, <2>4, <2>5, <2>6, <2>7, <2>8 DEF Admission!Failure
<1>4. CASE BeforeEffect(r)
  <2>1. CASE Admission!Finish(r, "failed_no_effect", "unknown")
    BY <1>4, <2>1, <1>1, BeforeGoes
    DEF TypeOK, Admission!Brokered, Admission!EffectStatuses, Admission!Observations
  <2>2. CASE Go(r, "open") /\ UNCHANGED <<lock, receipts>>
    BY <1>4, <2>2, BeforeGoes DEF Go, TypeOK, Admission!Steps, Admission!Brokered
  <2> QED
    BY <1>4, <2>1, <2>2, BeforeGoes
<1>5. CASE Admission!TakeLock(r)
  BY <1>5, <1>0
  DEF Admission!TakeLock, Admission!Go, TypeOK, Admission!Steps, Admission!Brokered,
      Admission!memory
<1>6. CASE Admission!Open(r)
  <2>1. CASE Admission!Go(r, "fill") /\ UNCHANGED <<lock, receipts>>
    <3>1. pc' \in [Runs -> Preliminary \cup Admission!Steps \cup Ended]
      BY <2>1 DEF Admission!Go, TypeOK, Admission!Steps, Admission!Brokered
    <3>2. files' \in [Admission!Targets -> Admission!FileStates]
      BY <1>6, <1>0 DEF Admission!Open, TypeOK, Admission!FileStates
    <3>3. created' \in [Runs -> SUBSET Admission!Targets]
      BY <1>6, <1>0 DEF Admission!Open, TypeOK
    <3> QED
      BY <1>6, <2>1, <3>1, <3>2, <3>3 DEF Admission!Open, TypeOK
  <2>2. CASE /\ \/ Admission!Finish(r, "applied_verified", "exists")
                \/ Admission!Finish(r, "failed_no_effect", "exists")
             /\ UNCHANGED <<files, created>>
    BY <1>6, <2>2, <1>1
    DEF Admission!Open, TypeOK, Admission!Brokered, Admission!EffectStatuses,
        Admission!Observations
  <2> QED
    BY <1>6, <2>1, <2>2 DEF Admission!Open
<1>7. CASE Admission!Fill(r)
  BY <1>7, <1>0
  DEF Admission!Fill, Admission!Go, TypeOK, Admission!Steps, Admission!Brokered,
      Admission!FileStates, Admission!memory
<1>8. CASE Admission!ReadBack(r)
  BY <1>8, <1>1
  DEF Admission!ReadBack, TypeOK, Admission!Brokered, Admission!EffectStatuses,
      Admission!Observations
<1>9. CASE Admission!Progress(r)
  BY <1>9 DEF Admission!Progress, Admission!Go, TypeOK, Admission!Steps, Admission!memory
<1>10. CASE PostOperation(r)
  <2>1. PICK v \in BOOLEAN :
           Admission!Decide(r, Admission!TerminalStatus(receipts[r], v))
    BY <1>10 DEF PostOperation, Admission!PostOperation
  <2> QED
    BY <1>10, <2>1, <1>2 DEF PostOperation, Admission!PostOperation, TypeOK
<1> QED
  BY <1>3, <1>4, <1>5, <1>6, <1>7, <1>8, <1>9, <1>10 DEF Executes, Execute

LEMMA TypeStep ==
    ASSUME IInv, NEW r \in Runs, Act(r)
    PROVE  TypeOK'
<1>1. CASE Prelude(r)
  BY <1>1, PreludeTypes DEF IInv
<1>2. CASE Executes(r)
  <2>1. grounded' \in SUBSET Results
    <3>1. grounded' = grounded \/ grounded' = grounded \cup {ask[r]}
      BY <1>2, ExecutesLeaves DEF BeforeEffect
    <3> QED
      BY <3>1, Ranges DEF IInv, TypeOK
  <2> QED
    BY <1>2, <2>1, BrokerTypes, ExecutesLeaves DEF IInv, TypeOK
<1> QED
  BY <1>1, <1>2, TwoParts

-----------------------------------------------------------------------------
(* What a step leaves alone                                                 *)

\* A step of r changes nothing that is another run's, and at most one file.
LEMMA Frame ==
    ASSUME TypeOK, NEW r \in Runs, Act(r)
    PROVE  /\ ask' = ask
           /\ \A s \in Runs \ {r} :
                 /\ pc'[s] = pc[s] /\ receipts'[s] = receipts[s]
                 /\ outcome'[s] = outcome[s] /\ created'[s] = created[s]
           /\ \A s \in Runs \ {r}, l \in Admission!Locks : lock[l] = s => lock'[l] = s
           /\ grounded \subseteq grounded'
           /\ \/ created' = created /\ files' = files
              \/ /\ pc[r] = "open" /\ files[Admission!Target(r)] = "absent"
                 /\ files' = [files EXCEPT ![Admission!Target(r)] = "unfinished"]
                 /\ created'[r] = created[r] \cup {Admission!Target(r)}
              \/ /\ pc[r] = "fill" /\ created' = created
                 /\ \E state \in {"unfinished", "exact"} :
                       files' = [files EXCEPT ![Admission!Target(r)] = state]
<1> USE DEF TypeOK, Admission!memory, Go, Decide, Admission!Go, Admission!Decide
<1>1. ASSUME NEW status, NEW after, Admission!Finish(r, status, after)
      PROVE  /\ \A s \in Runs \ {r} : pc'[s] = pc[s] /\ receipts'[s] = receipts[s]
             /\ \A s \in Runs \ {r}, l \in Admission!Locks : lock[l] = s => lock'[l] = s
  BY <1>1 DEF Admission!Finish, Admission!Record, Admission!Release
<1>2. ASSUME Admission!Release(r)
      PROVE  \A s \in Runs \ {r}, l \in Admission!Locks : lock[l] = s => lock'[l] = s
  BY <1>2 DEF Admission!Release
<1>3. CASE Prelude(r)
  <2>1. /\ UNCHANGED <<files, lock, ask, receipts, created, grounded>>
        /\ pc \in [Runs -> Preliminary \cup Admission!Steps \cup Ended]
        /\ outcome \in [Runs -> Statuses]
    BY <1>3, PreludeReads
  <2>2. /\ \E step : pc' = [pc EXCEPT ![r] = step]
        /\ outcome' = outcome \/ \E status : outcome' = [outcome EXCEPT ![r] = status]
    <3>1. CASE Decide(r, "rejected") \/ Decide(r, "reused_existing")
      BY <3>1
    <3>2. CASE \E step \in {"candidate", "blob", "validate", "reuse", "lock", "crashed"} :
                  Go(r, step) /\ outcome' = outcome
      BY <3>2
    <3> QED
      BY <1>3, <3>1, <3>2, PreludeGoes
  <2>3. \A s \in Runs \ {r} : pc'[s] = pc[s] /\ outcome'[s] = outcome[s]
    BY <2>1, <2>2
  <2> QED
    BY <2>1, <2>3
<1>4. CASE BeforeEffect(r)
  <2>1. ask' = ask /\ grounded \subseteq grounded'
    BY <1>4, ExecutesLeaves DEF BeforeEffect, Executes
  <2> QED
    BY <1>4, <1>1, <2>1, BeforeGoes
<1>5. ASSUME Executes(r), ~BeforeEffect(r)
      PROVE  ask' = ask /\ grounded \subseteq grounded'
  BY <1>5, ExecutesLeaves
<1>6. CASE ExecutionFails(r) /\ ~BeforeEffect(r)
  <2>0. ask' = ask /\ grounded \subseteq grounded'
    BY <1>5, <1>6 DEF Executes
  <2>1. CASE Admission!ContentUnbound(r)
    BY <2>0, <2>1, <1>1 DEF Admission!ContentUnbound
  <2>2. CASE Admission!Raise(r)
    BY <2>0, <2>2, <1>2 DEF Admission!Raise
  <2>3. CASE Admission!OpenFails(r)
    BY <2>0, <2>3, <1>1 DEF Admission!OpenFails
  <2>4. CASE Admission!FillFails(r)
    BY <2>0, <2>4, <1>1 DEF Admission!FillFails
  <2>5. CASE Admission!ReadBackFails(r)
    BY <2>0, <2>5, <1>1 DEF Admission!ReadBackFails
  <2>6. CASE Admission!FinalizationFails(r)
    BY <2>0, <2>6 DEF Admission!FinalizationFails
  <2>7. CASE Admission!Crash(r)
    BY <2>0, <2>7, <1>2 DEF Admission!Crash
  <2> QED
    BY <1>6, <2>1, <2>2, <2>3, <2>4, <2>5, <2>6, <2>7
    DEF ExecutionFails, Admission!Failure
<1>7. CASE (Execute(r) \/ PostOperation(r)) /\ ~BeforeEffect(r)
  <2>0. ask' = ask /\ grounded \subseteq grounded'
    BY <1>5, <1>7 DEF Executes
  <2>1. CASE Admission!TakeLock(r)
    BY <2>0, <2>1, KnowledgeConstants DEF Admission!TakeLock
  <2>2. CASE Admission!Open(r)
    <3>1. CASE files[Admission!Target(r)] = "absent"
      BY <2>0, <2>2, <3>1 DEF Admission!Open
    <3>2. CASE files[Admission!Target(r)] # "absent"
      BY <2>0, <2>2, <3>2, <1>1 DEF Admission!Open
    <3> QED
      BY <3>1, <3>2
  <2>3. CASE Admission!Fill(r)
    BY <2>0, <2>3 DEF Admission!Fill
  <2>4. CASE Admission!ReadBack(r)
    BY <2>0, <2>4, <1>1 DEF Admission!ReadBack
  <2>5. CASE Admission!Progress(r)
    BY <2>0, <2>5 DEF Admission!Progress
  <2>6. CASE PostOperation(r)
    BY <2>0, <2>6 DEF PostOperation, Admission!PostOperation
  <2> QED
    BY <1>7, <2>1, <2>2, <2>3, <2>4, <2>5, <2>6 DEF Execute
<1> QED
  BY <1>3, <1>4, <1>6, <1>7, TwoParts DEF Executes

\* What is in place stays, and only the file in hand can change.
LEMMA Monotone ==
    ASSUME IInv, NEW r \in Runs, Act(r), NEW t \in Admission!Targets
    PROVE  /\ files[t] = "exact" => files'[t] = "exact"
           /\ files[t] # "absent" => files'[t] # "absent"
           /\ files'[t] # files[t]
                 => t = Admission!Target(r) /\ pc[r] \in {"open", "fill"}
<1>1. /\ Admission!Target(r) \in Admission!Targets
      /\ files \in [Admission!Targets -> Admission!FileStates]
  BY Ranges DEF IInv, TypeOK
<1>2. pc[r] = "fill" => files[Admission!Target(r)] = "unfinished"
  BY DEF IInv, RunOK, InHand
<1> QED
  BY <1>1, <1>2, Frame DEF IInv

\* A verified receipt is the last of its run.
LEMMA StaysVouched ==
    ASSUME IInv, NEW r \in Runs, Act(r), NEW p \in Runs,
           outcome[p] = "succeeded_verified"
    PROVE  outcome'[p] = "succeeded_verified" /\ created'[p] = created[p]
<1>1. pc[r] # "done"
  <2>1. CASE Prelude(r)
    BY <2>1, PreludeReads DEF IInv, Preliminary
  <2>2. CASE Executes(r)
    BY <2>2, ExecutesLeaves DEF Ended
  <2> QED
    BY <2>1, <2>2, TwoParts
<1>2. p # r
  BY <1>1 DEF IInv, RunOK, Ordered
<1> QED
  BY <1>2, Frame DEF IInv

LEMMA VouchedGrows ==
    ASSUME IInv, NEW r \in Runs, Act(r)
    PROVE  Vouched \subseteq Vouched'
BY StaysVouched, Frame DEF Vouched, IInv

\* Two runs under the lock of one scope are one run.
LEMMA Alone ==
    ASSUME IInv, NEW r \in Runs, NEW s \in Runs,
           pc[r] \in Admission!Brokered, pc[s] \in Admission!Brokered,
           Admission!Scope(r) = Admission!Scope(s)
    PROVE  r = s
BY DEF IInv, RunOK, HoldsLock

\* Nobody else changes the file in hand.
LEMMA InHandAlone ==
    ASSUME IInv, NEW r \in Runs, NEW s \in Runs,
           pc[r] \in Admission!Brokered, pc[s] \in Admission!Brokered,
           Admission!Target(r) = Admission!Target(s)
    PROVE  r = s
<1>1. /\ ask[r] \in Results /\ ask[r].content \in Contents
      /\ ask[s] \in Results /\ ask[s].content \in Contents
  BY Ranges DEF IInv
<1>2. Admission!Scope(r) = Admission!Scope(s)
  BY <1>1, KnowledgeConstants DEF Admission!Target, Admission!Scope
<1> QED
  BY <1>2, Alone

\* What a run has created stays its own: a step creates an absent file only.
LEMMA MadeKept ==
    ASSUME IInv, NEW r \in Runs, Act(r), NEW s \in Runs
    PROVE  Made(s)'
<1>1. /\ \A q \in Runs : created[q] \subseteq {ask[q].content, ask[q]}
      /\ \A q \in Runs : \A t \in created[q] : files[t] # "absent" /\ t \in Admission!Targets
      /\ \A q, p \in Runs : p # q => created[p] \cap created[q] = {}
  BY Ranges DEF IInv, RunOK, Made, TypeOK
<1>2. /\ ask' = ask
      /\ \A q \in Runs \ {r} : created'[q] = created[q]
      /\ \/ created'[r] = created[r]
         \/ /\ files[Admission!Target(r)] = "absent"
            /\ files'[Admission!Target(r)] # "absent"
            /\ created'[r] = created[r] \cup {Admission!Target(r)}
  BY Frame, Ranges DEF IInv, TypeOK
<1>3. Admission!Target(r) \in {ask[r].content, ask[r]}
  BY DEF Admission!Target
<1>4. created'[s] \subseteq {ask[s].content, ask[s]}
  BY <1>1, <1>2, <1>3
<1>5. \A t \in created'[s] : files'[t] # "absent"
  BY <1>1, <1>2, Monotone
<1>6. \A q \in Runs \ {s} : created'[q] \cap created'[s] = {}
  BY <1>1, <1>2
<1> QED
  BY <1>2, <1>4, <1>5, <1>6 DEF Made

\* A step of one run keeps what holds of another.
LEMMA OthersKept ==
    ASSUME IInv, NEW r \in Runs, Act(r), NEW s \in Runs, s # r
    PROVE  RunOK(s)'
<1>1. /\ ask'[s] = ask[s] /\ pc'[s] = pc[s] /\ receipts'[s] = receipts[s]
      /\ outcome'[s] = outcome[s] /\ created'[s] = created[s]
      /\ grounded \subseteq grounded'
      /\ \A l \in Admission!Locks : lock[l] = s => lock'[l] = s
  BY Frame DEF IInv
<1>2. RunOK(s)
  BY DEF IInv
<1>3. /\ ask[s] \in Admission!Targets /\ ask[s].content \in Admission!Targets
      /\ Admission!Target(s) \in Admission!Targets
      /\ LockOf[Admission!Scope(s)] \in Admission!Locks
  BY Ranges DEF IInv
<1>4. Admission!Target(s)' = Admission!Target(s) /\ Admission!Scope(s)' = Admission!Scope(s)
  BY <1>1 DEF Admission!Target, Admission!Scope, Admission!Ordinal
<1>5. Ordered(s)'
  BY <1>1, <1>2 DEF RunOK, Ordered
<1>6. HoldsLock(s)'
  BY <1>1, <1>2, <1>3, <1>4 DEF RunOK, HoldsLock
<1>7. InHand(s)'
  <2>1. pc[s] \in {"fill", "readback"}
        => files'[Admission!Target(s)] = files[Admission!Target(s)]
    BY <1>3, Monotone, InHandAlone DEF Admission!Brokered
  <2>2. ASSUME pc[s] = "open", Len(receipts[s]) = 1
        PROVE  Admission!Rivals(ask[s])' = {}
    <3>1. Admission!Rivals(ask[s]) = {}
      BY <1>2, <2>2 DEF RunOK, InHand
    <3>2. SUFFICES ASSUME NEW p \in Results, p.id = ask[s].id, p # ask[s],
                          files'[p] # "absent"
                   PROVE  FALSE
      BY <1>1 DEF Admission!Rivals
    <3>3. files[p] = "absent" /\ p \in Admission!Targets
      BY <3>1, <3>2 DEF Admission!Rivals, Admission!Targets
    <3>4. p = Admission!Target(r) /\ pc[r] \in {"open", "fill"}
      BY <3>2, <3>3, Monotone
    <3>5. p = ask[r] /\ Admission!Ordinal(r) # 0
      BY <3>4, Ranges, KnowledgeConstants DEF Admission!Target, IInv
    <3>6. Admission!Scope(r) = Admission!Scope(s)
      BY <2>2, <3>2, <3>5 DEF Admission!Scope, Admission!Ordinal
    <3> QED
      BY <2>2, <3>4, <3>6, Alone DEF Admission!Brokered
  <2> QED
    BY <1>1, <1>2, <1>4, <2>1, <2>2 DEF RunOK, InHand
<1>8. EffectsTrue(s)'
  BY <1>1, <1>2, <1>3, Monotone DEF RunOK, EffectsTrue
<1>9. Truthful(s)'
  BY <1>1, <1>2, <1>3, Monotone DEF RunOK, Truthful, Admission!Observed
<1>10. Reused(s)'
  BY <1>1, <1>2, <1>3, Monotone, StaysVouched DEF RunOK, Reused, ReferenceVerifies
<1>11. Founded(s)'
  BY <1>1, <1>2, VouchedGrows DEF RunOK, Founded
<1> QED
  BY <1>5, <1>6, <1>7, <1>8, <1>9, <1>10, <1>11, MadeKept DEF RunOK

-----------------------------------------------------------------------------
(* What a step does to its own run                                          *)

LEMMA OwnFiles ==
    ASSUME IInv, NEW r \in Runs, Act(r)
    PROVE  /\ ask'[r] = ask[r]
           /\ files[ask[r]] = "exact" => files'[ask[r]] = "exact"
           /\ files[ask[r].content] = "exact" => files'[ask[r].content] = "exact"
           /\ files[ask[r].content] # "absent" => files'[ask[r].content] # "absent"
BY Frame, Monotone, Ranges DEF IInv

\* A broker at an effect has no receipt, or that of effect 0.
LEMMA NoneOrOne ==
    ASSUME IInv, NEW r \in Runs, pc[r] \in Executing
    PROVE  Len(receipts[r]) = 0 \/ Len(receipts[r]) = 1
<1> DEFINE n == Len(receipts[r])
<1>1. n \in 0..2 /\ n <= 1
  BY Ranges DEF IInv, RunOK, Ordered
<1> HIDE DEF n
<1>2. n = 0 \/ n = 1
  BY <1>1
<1> QED
  BY <1>2 DEF n

\* A run that the broker works for never answers with another one's result.
LEMMA NotReused ==
    ASSUME IInv, NEW r \in Runs, Executes(r)
    PROVE  Reused(r)'
<1>0. pc[r] \notin Preliminary \cup Ended /\ outcome[r] = "none"
  BY ExecutesLeaves DEF IInv, RunOK, Ordered, Ended
<1>1. outcome'[r] # "reused_existing"
  <2>1. ASSUME NEW v \in BOOLEAN, Len(receipts[r]) >= 1,
               Admission!Decide(r, Admission!TerminalStatus(receipts[r], v))
        PROVE  outcome'[r] # "reused_existing"
    <3>1. receipts[r] \in Seq(Admission!EffectReceipts) /\ Len(receipts[r]) \in 1..2
      BY <2>1, Ranges DEF IInv
    <3>2. receipts[r][Len(receipts[r])].status \in Admission!EffectStatuses
      <4>1. receipts[r][Len(receipts[r])] \in Admission!EffectReceipts
        BY <3>1
      <4> QED
        BY <4>1 DEF Admission!EffectReceipts
    <3>3. Admission!TerminalStatus(receipts[r], v) # "reused_existing"
      BY <3>2 DEF Admission!TerminalStatus, Admission!EffectStatuses
    <3> QED
      BY <2>1, <3>3 DEF Admission!Decide, IInv, TypeOK
  <2>2. CASE outcome' = outcome
    BY <1>0, <2>2
  <2>3. CASE PostOperation(r)
    <3>1. Len(receipts[r]) >= 1
      BY <2>3 DEF PostOperation, Admission!PostOperation, IInv, RunOK, Ordered
    <3>2. PICK v \in BOOLEAN : Admission!Decide(r, Admission!TerminalStatus(receipts[r], v))
      BY <2>3 DEF PostOperation, Admission!PostOperation
    <3> QED
      BY <2>1, <3>1, <3>2
  <2>4. CASE Admission!FinalizationFails(r)
    <3>1. Len(receipts[r]) >= 1
      BY <2>4 DEF Admission!FinalizationFails, IInv, RunOK, Ordered
    <3> QED
      BY <2>1, <2>4, <3>1 DEF Admission!FinalizationFails
  <2>5. CASE Admission!Raise(r)
    <3>1. Len(receipts[r]) \in 0..2
      BY Ranges DEF IInv
    <3>2. Admission!Ordinal(r) = 1 => Len(receipts[r]) >= 1
      BY <3>1 DEF Admission!Ordinal
    <3>3. CASE Admission!Decide(r, "rejected")
      BY <3>3 DEF Admission!Decide, IInv, TypeOK
    <3>4. CASE outcome' = outcome
      BY <1>0, <3>4
    <3>5. CASE Admission!Ordinal(r) = 1 /\ Admission!Decide(r, Admission!TerminalStatus(receipts[r], FALSE))
      BY <2>1, <3>2, <3>5
    <3> QED
      BY <2>5, <3>3, <3>4, <3>5, Zenon DEF Admission!Raise
  <2> QED
    BY <2>2, <2>3, <2>4, <2>5
    DEF Executes, BeforeEffect, Admission!BeforeEffect, Execute, Admission!TakeLock,
        Admission!Open, Admission!Fill, Admission!ReadBack, Admission!Progress,
        ExecutionFails, Admission!Failure, Admission!ContentUnbound,
        Admission!OpenFails, Admission!FillFails, Admission!ReadBackFails,
        Admission!Crash, Admission!memory
<1> QED
  BY <1>1 DEF Reused

\* Of what holds of a run the broker works for, these follow from what was there.
LEMMA BrokerKeeps ==
    ASSUME IInv, NEW r \in Runs, Act(r), Executes(r)
    PROVE  Made(r)' /\ Founded(r)' /\ Reused(r)'
<1>1. /\ pc[r] \notin {"start", "candidate"} \cup Ended
  BY ExecutesLeaves DEF Preliminary
<1>2. ask[r].supersedes \in Vouched \cup {NoResult}
  BY <1>1 DEF IInv, RunOK, Founded
<1>3. Founded(r)'
  BY <1>2, VouchedGrows, OwnFiles DEF Founded
<1> QED
  BY <1>3, MadeKept, NotReused

\* An effect that ends with a true receipt leaves its run in order.
LEMMA Finished ==
    ASSUME IInv, NEW r \in Runs, Act(r), Executes(r), pc[r] \in Admission!Brokered,
           outcome' = outcome,
           NEW status \in Admission!EffectStatuses, NEW after \in Admission!Observations,
           Admission!Finish(r, status, after),
           status = "applied_verified" => after = "exists",
           Len(receipts[r]) = 0 =>
              /\ status = "applied_verified" => files'[ask[r].content] = "exact"
              /\ status = "failed_partial" => files'[ask[r].content] # "absent"
              /\ status = "indeterminate" => ask[r].content \in created'[r]
              /\ status = "failed_no_effect" => after = "unknown" \/ created'[r] = {},
           Len(receipts[r]) = 1 /\ status = "applied_verified"
              => files'[ask[r]] = "exact" /\ ask[r] \in created'[r]
    PROVE  RunOK(r)'
<1>1. RunOK(r) /\ (Len(receipts[r]) = 0 \/ Len(receipts[r]) = 1)
  BY NoneOrOne DEF IInv, Executing
<1>2. /\ Len(receipts'[r]) = Len(receipts[r]) + 1
      /\ Len(receipts[r]) = 0 => receipts'[r][1] = [status |-> status, after |-> after]
      /\ Len(receipts[r]) = 1
            => /\ receipts'[r][1] = Verified
               /\ receipts'[r][2] = [status |-> status, after |-> after]
  BY <1>1, Recorded DEF IInv, Admission!Finish, RunOK, Ordered, Executing
<1>3. pc'[r] = "progress" /\ outcome'[r] = "none"
  BY <1>1
  DEF Admission!Finish, Admission!Go, IInv, TypeOK, RunOK, Ordered, Admission!Brokered
<1>4. Ordered(r)'
  <2>1. /\ Len(receipts'[r]) <= 2 /\ Len(receipts'[r]) >= 1
        /\ Len(receipts'[r]) # 0
    <3> DEFINE n == Len(receipts[r])
               m == Len(receipts'[r])
    <3>1. (n = 0 \/ n = 1) /\ m = n + 1
      BY <1>1, <1>2
    <3> HIDE DEF n, m
    <3>2. m <= 2 /\ m >= 1 /\ m # 0
      BY <3>1
    <3> QED
      BY <3>2 DEF m
  <2>2. Len(receipts'[r]) = 2 => receipts'[r][1] = Verified
    BY <1>1, <1>2
  <2>3. pc'[r] \notin Executing /\ pc'[r] \notin Preliminary
    BY <1>3 DEF Executing, Admission!Brokered, Preliminary
  <2> QED
    BY <1>3, <2>1, <2>2, <2>3 DEF Ordered
<1>5. HoldsLock(r)' /\ InHand(r)' /\ Truthful(r)'
  BY <1>3 DEF HoldsLock, InHand, Truthful, Admission!Brokered, Preliminary
<1>6. EffectsTrue(r)'
  <2>1. CASE Len(receipts[r]) = 0
    BY <1>2, <2>1, OwnFiles DEF EffectsTrue, Verified
  <2>2. CASE Len(receipts[r]) = 1
    <3>1. files[ask[r].content] = "exact"
      BY <1>1, <2>2 DEF RunOK, Ordered, EffectsTrue, Executing, Verified
    <3> QED
      BY <1>2, <2>2, <3>1, OwnFiles DEF EffectsTrue, Verified
  <2> QED
    BY <1>1, <2>1, <2>2
<1> QED
  BY <1>4, <1>5, <1>6, BrokerKeeps DEF RunOK

\* The terminal status tells what the effect receipts tell.
LEMMA Decided ==
    ASSUME IInv, NEW r \in Runs, Act(r), Executes(r), NEW verified \in BOOLEAN,
           pc[r] # "done", Len(receipts[r]) >= 1,
           Admission!Decide(r, Admission!TerminalStatus(receipts[r], verified)),
           receipts' = receipts, created' = created
    PROVE  RunOK(r)'
<1> DEFINE rs == receipts[r]
           status == Admission!TerminalStatus(rs, verified)
<1>1. RunOK(r) /\ rs \in Seq(Admission!EffectReceipts) /\ Len(rs) \in 1..2
  BY Ranges DEF IInv
<1>2. pc'[r] = "done" /\ outcome'[r] = status
  BY DEF Admission!Decide, Admission!Go, IInv, TypeOK
<1>3. Ordered(r)' /\ HoldsLock(r)' /\ InHand(r)'
  BY <1>1, <1>2
  DEF RunOK, Ordered, HoldsLock, InHand, Executing, Admission!Brokered, Preliminary
<1>4. EffectsTrue(r)'
  BY <1>1, OwnFiles DEF RunOK, EffectsTrue
<1>5. CASE Len(rs) = 1
  <2>1. rs[1].status \in Admission!EffectStatuses
    <3>1. rs[1] \in Admission!EffectReceipts
      BY <1>1, <1>5
    <3> QED
      BY <3>1 DEF Admission!EffectReceipts
  <2>2. status = IF rs[1].status = "applied_verified" THEN "failed_partial"
                 ELSE rs[1].status
    BY <1>5 DEF Admission!TerminalStatus
  <2>3. Truthful(r)'
    BY <1>1, <1>2, <1>5, <2>1, <2>2, OwnFiles
    DEF RunOK, EffectsTrue, Truthful, Admission!Observed, Admission!EffectStatuses
  <2> QED
    BY <1>3, <1>4, <2>3, BrokerKeeps DEF RunOK
<1>6. CASE Len(rs) = 2
  <2>1. rs[1] = Verified
    BY <1>1, <1>6 DEF RunOK, Ordered
  <2>2. status = IF rs[2].status # "applied_verified" THEN "failed_partial"
                 ELSE IF verified THEN "succeeded_verified" ELSE "committed_unverified"
    BY <1>6, <2>1 DEF Admission!TerminalStatus, Verified
  <2>3. Truthful(r)'
    BY <1>1, <1>2, <1>6, <2>1, <2>2, OwnFiles
    DEF RunOK, EffectsTrue, Truthful, Verified
  <2> QED
    BY <1>3, <1>4, <2>3, BrokerKeeps DEF RunOK
<1> QED
  BY <1>1, <1>5, <1>6

\* Up to the first lock: an answer is a rejection of a run that did nothing, or
\* a result that another run has created and that is verified.
LEMMA PreludeKeeps ==
    ASSUME IInv, NEW r \in Runs, Prelude(r)
    PROVE  RunOK(r)'
<1>0. Act(r)
  BY TwoParts
<1>1. /\ RunOK(r) /\ TypeOK /\ pc[r] \in Preliminary
      /\ UNCHANGED <<files, lock, ask, key, receipts, created, sound, grounded>>
      /\ pc \in [Runs -> Preliminary \cup Admission!Steps \cup Ended]
      /\ outcome \in [Runs -> Statuses]
  BY PreludeReads DEF IInv, TypeOK
<1>2. /\ Len(receipts'[r]) = 0 /\ Len(receipts[r]) = 0 /\ outcome[r] = "none"
      /\ created[r] = {} /\ created'[r] = {}
  BY <1>1 DEF RunOK, Ordered, InHand, Preliminary
<1>3. EffectsTrue(r)'
  BY <1>2 DEF EffectsTrue
<1>4. Made(r)'
  BY <1>0, MadeKept
<1>5. CASE \E step \in {"candidate", "blob", "validate", "reuse", "lock", "crashed"} :
              /\ Go(r, step) /\ outcome' = outcome
              /\ pc[r] = "start" => step = "candidate"
              /\ pc[r] = "candidate" /\ step # "crashed" => SupersedesVerifies(ask[r])
              /\ pc[r] # "start" => step # "candidate"
  <2>1. PICK step \in {"candidate", "blob", "validate", "reuse", "lock", "crashed"} :
              /\ Go(r, step) /\ outcome' = outcome
              /\ pc[r] = "start" => step = "candidate"
              /\ pc[r] = "candidate" /\ step # "crashed" => SupersedesVerifies(ask[r])
              /\ pc[r] # "start" => step # "candidate"
    BY <1>5
  <2>2. pc'[r] = step /\ outcome'[r] = "none"
    BY <1>1, <1>2, <2>1 DEF Go
  <2>3. Ordered(r)' /\ HoldsLock(r)' /\ InHand(r)'
    BY <1>2, <2>2
    DEF Ordered, HoldsLock, InHand, Preliminary, Executing, Admission!Brokered
  <2>4. Truthful(r)' /\ Reused(r)'
    BY <2>2 DEF Truthful, Reused
  <2>5. Founded(r)'
    <3>1. SUFFICES ASSUME step \notin {"candidate", "crashed"}
                   PROVE  ask[r].supersedes \in Vouched \cup {NoResult}
      BY <1>0, <1>1, <2>2, VouchedGrows DEF Founded, Ended
    <3>2. CASE pc[r] = "candidate" /\ ask[r].supersedes # NoResult
      <4>1. PICK p \in Runs : ask[r].supersedes \in created[p]
                              /\ outcome[p] = "succeeded_verified"
        BY <2>1, <3>1, <3>2 DEF SupersedesVerifies, Inspected
      <4>2. ask[r].supersedes \in Results
        BY <3>2, Ranges, KnowledgeConstants DEF IInv
      <4>3. ask[r].supersedes = ask[p]
        <5>1. created[p] \subseteq {ask[p].content, ask[p]}
          BY DEF IInv, RunOK, Made
        <5>2. ask[p].content \in Contents
          BY Ranges DEF IInv
        <5> QED
          BY <4>1, <4>2, <5>1, <5>2, KnowledgeConstants
      <4> QED
        BY <4>1, <4>3 DEF Vouched
    <3>3. CASE pc[r] # "candidate"
      BY <1>1, <2>1, <3>1, <3>3 DEF RunOK, Founded, Preliminary, Ended
    <3> QED
      BY <3>2, <3>3
  <2> QED
    BY <1>3, <1>4, <2>3, <2>4, <2>5 DEF RunOK
<1>6. CASE Decide(r, "rejected")
  <2>1. pc'[r] = "done" /\ outcome'[r] = "rejected"
    BY <1>1, <1>6 DEF Decide, Go
  <2> QED
    BY <1>2, <1>3, <1>4, <2>1
    DEF RunOK, Ordered, HoldsLock, InHand, Founded, Truthful, Reused, Preliminary,
        Executing, Ended, Admission!Brokered
<1>7. CASE Decide(r, "reused_existing") /\ Inspected(ask[r])
  <2>1. pc'[r] = "done" /\ outcome'[r] = "reused_existing"
    BY <1>1, <1>7 DEF Decide, Go
  <2>2. PICK p \in Runs : ask[r] \in created[p] /\ outcome[p] = "succeeded_verified"
    BY <1>7 DEF Inspected
  <2>3. p # r /\ outcome'[p] = "succeeded_verified"
    BY <1>0, <1>2, <2>2, StaysVouched
  <2>4. Reused(r)'
    BY <1>1, <1>2, <1>7, <2>2, <2>3 DEF Reused, Inspected, ReferenceVerifies
  <2> QED
    BY <1>2, <1>3, <1>4, <2>1, <2>4
    DEF RunOK, Ordered, HoldsLock, InHand, Founded, Truthful, Preliminary,
        Executing, Ended, Admission!Brokered
<1> QED
  BY <1>1, <1>5, <1>6, <1>7, PreludeGoes

\* A failure of a run the broker works for keeps what holds of it.
LEMMA OwnFailures ==
    ASSUME IInv, NEW r \in Runs, Act(r), Executes(r), Admission!Failure(r)
    PROVE  RunOK(r)'
<1>1. /\ RunOK(r) /\ TypeOK /\ ask[r].content \in Admission!Targets
      /\ receipts[r] \in Seq(Admission!EffectReceipts) /\ Len(receipts[r]) \in 0..2
      /\ pc[r] \notin Preliminary
  BY Ranges, ExecutesLeaves DEF IInv
<1>2. CASE Admission!ContentUnbound(r)
  <2>1. Len(receipts[r]) = 1 /\ Admission!Finish(r, "failed_no_effect", "unknown")
    BY <1>2 DEF Admission!ContentUnbound, Admission!Ordinal
  <2> QED
    BY <1>2, <2>1, Finished
    DEF Admission!ContentUnbound, Admission!Brokered, Admission!EffectStatuses,
        Admission!Observations
<1>3. CASE Admission!Raise(r)
  <2>1. CASE Admission!Ordinal(r) = 1
    <3>0. Admission!Ordinal(r) # 0
      BY <2>1
    <3>1. Admission!Decide(r, Admission!TerminalStatus(receipts[r], FALSE))
      BY <1>3, <3>0, Zenon DEF Admission!Raise
    <3>2. Len(receipts[r]) >= 1
      BY <2>1 DEF Admission!Ordinal
    <3>3. pc[r] # "done" /\ receipts' = receipts /\ created' = created
      BY <1>3 DEF Admission!Raise
    <3> QED
      BY <3>1, <3>2, <3>3, Decided
  <2>2. CASE Admission!Ordinal(r) = 0
    <3>1. /\ Len(receipts'[r]) = 0 /\ receipts' = receipts /\ created'[r] = {}
          /\ outcome[r] = "none"
      BY <1>1, <1>3, <2>2
      DEF Admission!Raise, Admission!Ordinal, RunOK, InHand, Ordered, Preliminary
    <3>2. \/ pc'[r] = "done" /\ outcome'[r] = "rejected"
          \/ pc'[r] = "crashed" /\ outcome'[r] = "none"
      BY <1>1, <1>3, <2>2, <3>1 DEF Admission!Raise, Admission!Decide, Admission!Go, TypeOK
    <3> QED
      BY <3>1, <3>2, BrokerKeeps
      DEF RunOK, Ordered, HoldsLock, InHand, EffectsTrue, Truthful, Executing,
          Admission!Brokered, Preliminary
  <2> QED
    BY <1>3, <2>1, <2>2 DEF Admission!Raise
<1>4. CASE Admission!OpenFails(r)
  <2>1. PICK after \in {"absent", "unknown"} :
           Admission!Finish(r, "failed_no_effect", after)
    BY <1>4 DEF Admission!OpenFails
  <2>2. Len(receipts[r]) = 0 => created'[r] = {}
    BY <1>1, <1>4 DEF Admission!OpenFails, RunOK, InHand
  <2> QED
    BY <1>4, <2>1, <2>2, Finished
    DEF Admission!OpenFails, Admission!Brokered, Admission!EffectStatuses,
        Admission!Observations
<1>5. CASE Admission!FillFails(r)
  <2>1. Len(receipts[r]) = 0 => files'[ask[r].content] # "absent"
    BY <1>1, <1>5
    DEF Admission!FillFails, Admission!Target, Admission!Ordinal, TypeOK
  <2>2. CASE Admission!Finish(r, "failed_partial", "exists")
    BY <1>5, <2>1, <2>2, Finished
    DEF Admission!FillFails, Admission!Brokered, Admission!EffectStatuses,
        Admission!Observations
  <2>3. CASE Admission!Finish(r, "failed_no_effect", "unknown")
    BY <1>5, <2>3, Finished
    DEF Admission!FillFails, Admission!Brokered, Admission!EffectStatuses,
        Admission!Observations
  <2> QED
    BY <1>5, <2>2, <2>3 DEF Admission!FillFails
<1>6. CASE Admission!ReadBackFails(r)
  <2>1. Len(receipts[r]) = 0 => ask[r].content \in created'[r]
    BY <1>1, <1>6
    DEF Admission!ReadBackFails, RunOK, InHand, Admission!Target, Admission!Ordinal
  <2> QED
    BY <1>6, <2>1, Finished
    DEF Admission!ReadBackFails, Admission!Brokered, Admission!EffectStatuses,
        Admission!Observations
<1>7. CASE Admission!FinalizationFails(r)
  <2>1. Len(receipts[r]) >= 1
    BY <1>1, <1>7 DEF Admission!FinalizationFails, RunOK, Ordered
  <2> QED
    BY <1>7, <2>1, Decided DEF Admission!FinalizationFails
<1>8. CASE Admission!Crash(r)
  <2>1. /\ receipts' = receipts /\ outcome' = outcome /\ files' = files
        /\ created' = created /\ ask' = ask /\ pc'[r] = "crashed"
    BY <1>1, <1>8 DEF Admission!Crash, Admission!memory, Admission!Go, TypeOK
  <2>2. outcome[r] = "none"
    BY <1>1, <1>8 DEF Admission!Crash, Admission!Steps, Admission!Brokered, RunOK, Ordered
  <2> QED
    BY <1>1, <2>1, <2>2, BrokerKeeps
    DEF RunOK, Ordered, HoldsLock, InHand, EffectsTrue, Truthful, Executing,
        Admission!Brokered, Preliminary
<1> QED
  BY <1>2, <1>3, <1>4, <1>5, <1>6, <1>7, <1>8 DEF Admission!Failure

\* A step of the broker for a run keeps what holds of it.
LEMMA OwnSteps ==
    ASSUME IInv, NEW r \in Runs, Act(r),
           BeforeEffect(r) \/ Execute(r) \/ PostOperation(r)
    PROVE  RunOK(r)'
<1>0. Executes(r)
  BY DEF Executes
<1>1. /\ RunOK(r) /\ TypeOK /\ ask[r].content \in Admission!Targets
      /\ Admission!Target(r) \in Admission!Targets
      /\ LockOf[Admission!Scope(r)] \in Admission!Locks
      /\ receipts[r] \in Seq(Admission!EffectReceipts) /\ Len(receipts[r]) \in 0..2
      /\ pc[r] \notin Preliminary
  BY <1>0, Ranges, ExecutesLeaves DEF IInv
<1>2. ASSUME receipts' = receipts, created' = created, outcome' = outcome,
             pc[r] # "done", pc'[r] # "done"
      PROVE  /\ EffectsTrue(r)' /\ Truthful(r)'
             /\ outcome'[r] = "none"
  BY <1>1, <1>2, OwnFiles DEF RunOK, Ordered, EffectsTrue, Truthful
<1>3. CASE Admission!TakeLock(r)
  <2>1. /\ lock'[LockOf[Admission!Scope(r)]] = r
        /\ Admission!Scope(r)' = Admission!Scope(r)
    BY <1>1, <1>3
    DEF Admission!TakeLock, TypeOK, Admission!Scope, Admission!Ordinal, Admission!memory
  <2> QED
    BY <1>0, <1>1, <1>2, <1>3, <2>1, BrokerKeeps
    DEF Admission!TakeLock, Admission!Go, TypeOK, RunOK, Ordered, HoldsLock, InHand,
        Executing, Admission!Brokered, Admission!memory, Preliminary
<1>4. CASE BeforeEffect(r)
  <2>1. CASE Admission!Finish(r, "failed_no_effect", "unknown")
    BY <1>0, <1>4, <2>1, Finished, BeforeGoes
    DEF Admission!Brokered, Admission!EffectStatuses, Admission!Observations
  <2>2. CASE /\ Go(r, "open") /\ UNCHANGED <<lock, receipts>>
             /\ Admission!Ordinal(r) # 0
                   => Admission!Placement(ask[r], files[ask[r].content]) = "pass"
    <3>0. /\ pc[r] = "before" /\ UNCHANGED <<ask, files, outcome, created>>
          /\ pc'[r] = "open"
      BY <1>0, <1>1, <1>4, <2>2, BeforeGoes, ExecutesLeaves DEF Go, TypeOK
    <3>1. Len(receipts[r]) = 1 => Admission!Rivals(ask[r]) = {}
      BY <2>2 DEF Admission!Placement, Admission!Ordinal
    <3>2. Len(receipts[r]) = 1 => ask[r] \in grounded'
      BY <1>4, <3>0 DEF BeforeEffect, Admission!Ordinal
    <3>3. /\ Admission!Rivals(ask[r])' = Admission!Rivals(ask[r])
          /\ Admission!Scope(r)' = Admission!Scope(r)
      BY <2>2, <3>0 DEF Admission!Rivals, Admission!Scope, Admission!Ordinal
    <3>4. Ordered(r)' /\ HoldsLock(r)' /\ InHand(r)'
      BY <1>1, <2>2, <3>0, <3>1, <3>2, <3>3
      DEF RunOK, Ordered, HoldsLock, InHand, Executing, Admission!Brokered, Preliminary
    <3>5. EffectsTrue(r)' /\ Truthful(r)'
      BY <1>2, <2>2, <3>0
    <3> QED
      BY <1>0, <3>4, <3>5, BrokerKeeps DEF RunOK
  <2> QED
    BY <1>4, <2>1, <2>2, BeforeGoes
<1>5. CASE Admission!Open(r)
  <2>1. CASE files[Admission!Target(r)] = "absent"
    <3>1. /\ files'[Admission!Target(r)] = "unfinished"
          /\ Admission!Target(r) \in created'[r]
          /\ pc'[r] = "fill" /\ pc[r] = "open" /\ lock' = lock
          /\ receipts' = receipts /\ outcome' = outcome /\ ask' = ask
      BY <1>1, <1>5, <2>1 DEF Admission!Open, Admission!Go, TypeOK
    <3>2. /\ Admission!Target(r)' = Admission!Target(r)
          /\ Admission!Scope(r)' = Admission!Scope(r)
      BY <3>1 DEF Admission!Target, Admission!Scope, Admission!Ordinal
    <3>3. created[r] \subseteq created'[r] /\ grounded \subseteq grounded'
      BY Frame, <1>1
    <3>4. Ordered(r)' /\ HoldsLock(r)' /\ InHand(r)'
      BY <1>1, <3>1, <3>2, <3>3
      DEF RunOK, Ordered, HoldsLock, InHand, Executing, Admission!Brokered, Preliminary
    <3>5. Len(receipts[r]) = 0 \/ Len(receipts[r]) = 1
      BY <3>1, NoneOrOne DEF Executing, Admission!Brokered
    <3>6. EffectsTrue(r)'
      BY <1>1, <3>1, <3>5, OwnFiles
      DEF RunOK, Ordered, EffectsTrue, Executing, Admission!Brokered, Verified
    <3>7. Truthful(r)'
      BY <1>1, <3>1 DEF RunOK, Ordered, Truthful
    <3> QED
      BY <1>0, <3>4, <3>6, <3>7, BrokerKeeps DEF RunOK
  <2>2. CASE files[Admission!Target(r)] # "absent"
    <3>1. /\ created' = created /\ files' = files
          /\ outcome' = outcome /\ pc[r] = "open"
          /\ \/ /\ files[Admission!Target(r)] = "exact" /\ Len(receipts[r]) = 0
                /\ Admission!Finish(r, "applied_verified", "exists")
             \/ Admission!Finish(r, "failed_no_effect", "exists")
      BY <1>5, <2>2 DEF Admission!Open, Admission!Ordinal
    <3>2. Len(receipts[r]) = 0
             => created'[r] = {} /\ Admission!Target(r) = ask[r].content
      BY <1>1, <3>1 DEF RunOK, InHand, Admission!Target, Admission!Ordinal
    <3> QED
      BY <1>0, <3>1, <3>2, Finished
      DEF Admission!Brokered, Admission!EffectStatuses, Admission!Observations
  <2> QED
    BY <2>1, <2>2
<1>6. CASE Admission!Fill(r)
  <2>1. /\ Admission!Target(r)' = Admission!Target(r)
        /\ Admission!Scope(r)' = Admission!Scope(r)
        /\ files'[Admission!Target(r)] = "exact"
    BY <1>1, <1>6
    DEF Admission!Fill, Admission!Target, Admission!Scope, Admission!Ordinal, TypeOK,
        Admission!memory
  <2> QED
    BY <1>0, <1>1, <1>2, <1>6, <2>1, BrokerKeeps
    DEF Admission!Fill, Admission!Go, TypeOK, RunOK, Ordered, HoldsLock, InHand,
        Executing, Admission!Brokered, Admission!memory, Preliminary
<1>7. CASE Admission!ReadBack(r)
  <2>1. files'[Admission!Target(r)] = "exact" /\ Admission!Target(r) \in created'[r]
    BY <1>1, <1>7 DEF Admission!ReadBack, RunOK, InHand
  <2>2. /\ Len(receipts[r]) = 0 => Admission!Target(r) = ask[r].content
        /\ Len(receipts[r]) = 1 => Admission!Target(r) = ask[r]
    <3>1. Len(receipts[r]) = 1 => Len(receipts[r]) # 0
      OBVIOUS
    <3> QED
      BY <3>1, Zenon DEF Admission!Target, Admission!Ordinal
  <2> QED
    BY <1>0, <1>7, <2>1, <2>2, Finished
    DEF Admission!ReadBack, Admission!Brokered, Admission!EffectStatuses,
        Admission!Observations
<1>8. CASE Admission!Progress(r)
  <2>1. /\ Len(receipts[r]) >= 1 /\ receipts' = receipts
        /\ pc'[r] = "post" \/ /\ pc'[r] = "lock" /\ Len(receipts[r]) = 1
                              /\ receipts[r][1].status = "applied_verified"
    BY <1>1, <1>8
    DEF Admission!Progress, RunOK, Ordered, Admission!Ordinal, Admission!Go, TypeOK,
        Admission!memory
  <2>2. pc'[r] = "lock" => receipts[r][1] = Verified
    BY <1>1, <2>1 DEF RunOK, EffectsTrue
  <2>3. EffectsTrue(r)' /\ Truthful(r)' /\ outcome'[r] = "none"
    BY <1>2, <1>8, <2>1 DEF Admission!Progress, Admission!memory
  <2>4. Ordered(r)'
    BY <1>1, <2>1, <2>2, <2>3
    DEF RunOK, Ordered, Executing, Admission!Brokered, Preliminary
  <2>5. HoldsLock(r)' /\ InHand(r)'
    BY <2>1 DEF HoldsLock, InHand, Admission!Brokered, Preliminary
  <2> QED
    BY <1>0, <2>3, <2>4, <2>5, BrokerKeeps DEF RunOK
<1>9. CASE PostOperation(r)
  <2>1. PICK v \in BOOLEAN :
           Admission!Decide(r, Admission!TerminalStatus(receipts[r], v))
    BY <1>9 DEF PostOperation, Admission!PostOperation
  <2>2. Len(receipts[r]) >= 1
    BY <1>1, <1>9 DEF PostOperation, Admission!PostOperation, RunOK, Ordered
  <2> QED
    BY <1>0, <1>9, <2>1, <2>2, Decided DEF PostOperation, Admission!PostOperation
<1> QED
  BY <1>3, <1>4, <1>5, <1>6, <1>7, <1>8, <1>9 DEF Execute

-----------------------------------------------------------------------------
(* The knowledge base                                                       *)

\* A descriptor that appears is that of the run that steps, which found no
\* rival under the lock and has the content in place.
LEMMA NewDescriptor ==
    ASSUME IInv, NEW r \in Runs, Act(r), NEW q \in Results,
           files[q] = "absent", files'[q] # "absent"
    PROVE  q = ask[r] /\ Admission!Rivals(q) = {} /\ files[q.content] = "exact"
<1>1. q \in Admission!Targets
  BY DEF Admission!Targets
<1>2. q = Admission!Target(r) /\ pc[r] \in {"open", "fill"}
  BY <1>1, Monotone
<1>3. pc[r] = "open" /\ RunOK(r)
  BY <1>2 DEF IInv, RunOK, InHand
<1>4. q = ask[r] /\ Len(receipts[r]) # 0
  BY <1>2, Ranges, KnowledgeConstants DEF Admission!Target, Admission!Ordinal, IInv
<1>5. Len(receipts[r]) = 1
  BY <1>3, <1>4, NoneOrOne DEF Executing, Admission!Brokered
<1>6. receipts[r][1] = Verified /\ Len(receipts[r]) >= 1
  BY <1>3, <1>5 DEF RunOK, Ordered, Executing, Admission!Brokered
<1>7. files[ask[r].content] = "exact"
  BY <1>3, <1>6 DEF RunOK, EffectsTrue, Verified
<1> QED
  BY <1>3, <1>4, <1>5, <1>7 DEF RunOK, InHand

LEMMA CatalogueKept ==
    ASSUME IInv, NEW r \in Runs, Act(r)
    PROVE  Admission!CatalogueConsistent'
<1>1. ASSUME NEW p \in Results, NEW q \in Results, files'[p] # "absent",
             files'[q] # "absent", p.id = q.id, p # q
      PROVE  FALSE
  <2>1. CASE files[p] # "absent" /\ files[q] # "absent"
    BY <1>1, <2>1 DEF IInv, Admission!CatalogueConsistent
  <2>2. CASE files[p] = "absent"
    <3>1. p = ask[r] /\ Admission!Rivals(p) = {}
      BY <1>1, <2>2, NewDescriptor
    <3>2. files[q] = "absent"
      BY <1>1, <3>1 DEF Admission!Rivals
    <3> QED
      BY <1>1, <3>1, <3>2, NewDescriptor
  <2>3. CASE files[q] = "absent"
    <3>1. q = ask[r] /\ Admission!Rivals(q) = {}
      BY <1>1, <2>3, NewDescriptor
    <3>2. files[p] = "absent"
      BY <1>1, <3>1 DEF Admission!Rivals
    <3> QED
      BY <1>1, <3>1, <3>2, NewDescriptor
  <2> QED
    BY <2>1, <2>2, <2>3
<1>2. ASSUME NEW q \in Results, files'[q] # "absent"
      PROVE  files'[q.content] = "exact"
  <2>1. q.content \in Admission!Targets
    BY KnowledgeConstants DEF Admission!Targets
  <2>2. files[q.content] = "exact"
    BY <1>2, NewDescriptor DEF IInv, Admission!CatalogueConsistent
  <2> QED
    BY <2>1, <2>2, Monotone
<1> QED
  BY <1>1, <1>2 DEF Admission!CatalogueConsistent

\* Only the source changes when one is spoilt: what was verified with it stays
\* admitted, and no receipt is about it.
LEMMA SpoilKeeps ==
    ASSUME IInv,
           faults' \in 0..MaxFaults, sound' \in SUBSET Sources,
           UNCHANGED <<files, lock, pc, operation, saw, receipts, outcome, created,
                       intended, grounded>>
    PROVE  IInv'
<1> USE DEF operation
<1>1. TypeOK' /\ Admission!CatalogueConsistent'
  BY DEF IInv, TypeOK, Admission!CatalogueConsistent
<1>2. ASSUME NEW r \in Runs
      PROVE  RunOK(r)'
  <2>1. Ordered(r)' /\ HoldsLock(r)'
    BY DEF IInv, RunOK, Ordered, HoldsLock, Admission!Scope, Admission!Ordinal
  <2>2. InHand(r)' /\ Made(r)'
    BY DEF IInv, RunOK, InHand, Made, Admission!Rivals, Admission!Target,
           Admission!Ordinal
  <2>3. EffectsTrue(r)' /\ Truthful(r)'
    BY DEF IInv, RunOK, EffectsTrue, Truthful, Admission!Observed
  <2>4. Founded(r)' /\ Reused(r)'
    BY DEF IInv, RunOK, Founded, Vouched, Reused, ReferenceVerifies
  <2> QED
    BY <2>1, <2>2, <2>3, <2>4 DEF RunOK
<1> QED
  BY <1>1, <1>2 DEF IInv

-----------------------------------------------------------------------------
(* Theorems                                                                 *)

LEMMA InitIInv == Init => IInv
<1> SUFFICES ASSUME Init
             PROVE  IInv
  OBVIOUS
<1>1. TypeOK
  BY KnowledgeConstants
  DEF Init, Admission!Init, TypeOK, Admission!FileStates, Preliminary, Statuses,
      Admission!Statuses
<1>2. Admission!CatalogueConsistent
  BY DEF Init, Admission!Init, Admission!CatalogueConsistent
<1>3. ASSUME NEW r \in Runs
      PROVE  RunOK(r)
  <2>1. /\ pc[r] = "start" /\ receipts[r] = <<>> /\ Len(receipts[r]) = 0
        /\ outcome[r] = "none" /\ created[r] = {}
    BY DEF Init, Admission!Init
  <2> QED
    BY <2>1
    DEF RunOK, Ordered, HoldsLock, InHand, Made, Founded, EffectsTrue, Truthful,
        Reused, Executing, Preliminary, Admission!Brokered
<1> QED
  BY <1>1, <1>2, <1>3 DEF IInv

LEMMA ActKeeps ==
    ASSUME IInv, NEW r \in Runs, Act(r)
    PROVE  IInv'
<1>1. CASE Prelude(r)
  BY <1>1, PreludeKeeps, OthersKept, TypeStep, CatalogueKept DEF IInv
<1>2. CASE Executes(r)
  <2>1. RunOK(r)'
    BY <1>2, OwnSteps, OwnFailures DEF Executes, ExecutionFails
  <2> QED
    BY <2>1, OthersKept, TypeStep, CatalogueKept DEF IInv
<1> QED
  BY <1>1, <1>2, TwoParts

LEMMA NextIInv == IInv /\ [Next]_vars => IInv'
<1> SUFFICES ASSUME IInv, [Next]_vars
             PROVE  IInv'
  OBVIOUS
<1>1. CASE UNCHANGED vars
  BY <1>1, SpoilKeeps DEF vars, operation, IInv, TypeOK
<1>2. CASE \E s \in Sources : Spoil(s)
  <2>1. faults' \in 0..MaxFaults
    BY <1>2, KnowledgeConstants DEF Spoil, Admission!Fault, IInv, TypeOK
  <2> QED
    BY <1>2, <2>1, SpoilKeeps DEF Spoil, IInv, TypeOK
<1>3. CASE \E r \in Runs : Step(r) \/ Failure(r)
  BY <1>3, ActKeeps DEF Act
<1> QED
  BY <1>1, <1>2, <1>3 DEF Next

LEMMA Invariance == Spec => []IInv
BY InitIInv, NextIInv, PTL DEF Spec

\* Every variable keeps its type, whatever fails.
THEOREM KnowledgeTypeCorrect == Spec => []TypeOK
<1>1. IInv => TypeOK
  BY DEF IInv
<1> QED
  BY <1>1, Invariance, PTL

\* What the receipt of a run says of its two effects is so and stays so, and a
\* result that is answered with is there, verified, and the work of another run.
THEOREM KnowledgeReceiptsTrue == Spec => []ReceiptsAreTrue
<1>1. IInv => ReceiptsAreTrue
  BY DEF IInv, RunOK, Truthful, Reused, ReceiptsAreTrue, Admission!ReceiptsAreTrue
<1> QED
  BY <1>1, Invariance, PTL

\* What a step does to the results with a verified receipt: none, or that of
\* its run, which nobody has admitted before.
LEMMA VouchedStep ==
    ASSUME IInv, IInv', NEW r \in Runs, Act(r)
    PROVE  \/ Vouched' = Vouched
           \/ /\ Vouched' = Vouched \cup {ask[r]} /\ outcome'[r] = "succeeded_verified"
              /\ ask[r] \notin Vouched /\ files'[ask[r]] = "exact"
<1>1. /\ ask' = ask /\ Vouched \subseteq Vouched'
      /\ \A s \in Runs \ {r} : outcome'[s] = outcome[s]
  BY Frame, VouchedGrows DEF IInv
<1>2. CASE outcome'[r] # "succeeded_verified"
  BY <1>1, <1>2 DEF Vouched
<1>3. CASE outcome'[r] = "succeeded_verified" /\ outcome[r] = "succeeded_verified"
  BY <1>1, <1>3 DEF Vouched
<1>4. CASE outcome'[r] = "succeeded_verified" /\ outcome[r] # "succeeded_verified"
  <2>1. Vouched' = Vouched \cup {ask[r]}
    BY <1>1, <1>4 DEF Vouched
  <2>2. ask[r] \in created'[r] /\ files'[ask[r]] = "exact"
    BY <1>1, <1>4 DEF IInv, RunOK, Truthful
  <2>3. ASSUME NEW p \in Runs, outcome[p] = "succeeded_verified", ask[p] = ask[r]
        PROVE  FALSE
    <3>1. p # r /\ ask[p] \in created[p]
      BY <1>4, <2>3 DEF IInv, RunOK, Truthful
    <3>2. ask[p] \in created'[p]
      BY <2>3, <3>1, StaysVouched
    <3>3. created'[p] \cap created'[r] = {}
      BY <3>1 DEF IInv, RunOK, Made
    <3> QED
      BY <2>2, <2>3, <3>2, <3>3
  <2> QED
    BY <1>4, <2>1, <2>2, <2>3 DEF Vouched
<1> QED
  BY <1>2, <1>3, <1>4

\* No step changes a file and a terminal status at once.
LEMMA OneAtATime ==
    ASSUME IInv, NEW r \in Runs, Act(r), files' # files
    PROVE  /\ outcome' = outcome /\ grounded' = grounded
<1>1. ~Prelude(r)
  BY PreludeReads DEF IInv
<1>2. ~BeforeEffect(r)
  BY BeforeGoes
<1>3. Executes(r)
  BY <1>1, TwoParts
<1>4. grounded' = grounded
  BY <1>2, <1>3, ExecutesLeaves
<1>5. outcome' = outcome
  BY <1>2, <1>3
  DEF Executes, Execute, Admission!TakeLock, Admission!Open, Admission!Fill,
      Admission!ReadBack, Admission!Progress, PostOperation, Admission!PostOperation,
      ExecutionFails, Admission!Failure, Admission!ContentUnbound, Admission!Raise,
      Admission!OpenFails, Admission!FillFails, Admission!ReadBackFails,
      Admission!FinalizationFails, Admission!Crash, Admission!memory
<1> QED
  BY <1>4, <1>5

\* The grounds of a result hold when its descriptor is about to be created.
LEMMA GroundedStep ==
    ASSUME IInv, NEW r \in Runs, Act(r), grounded' # grounded
    PROVE  /\ grounded' = grounded \cup {ask[r]} /\ SourcesVerify(ask[r])
           /\ ask[r].supersedes \in Vouched \cup {NoResult}
           /\ UNCHANGED <<files, outcome, ask>>
<1>1. BeforeEffect(r)
  BY TwoParts, PreludeReads, ExecutesLeaves DEF IInv, Executes
<1>2. /\ grounded' = grounded \cup {ask[r]}
      /\ pc'[r] = "open" /\ Admission!Ordinal(r) = 1
  BY <1>1 DEF BeforeEffect
<1>3. SourcesVerify(ask[r])
  <2>1. Admission!Ordinal(r) # 0
    BY <1>2
  <2>2. CASE Admission!Finish(r, "failed_no_effect", "unknown")
    BY <1>2, <2>2 DEF Admission!Finish, Admission!Go, IInv, TypeOK
  <2> QED
    BY <1>1, <2>1, <2>2, BeforeGoes
<1>4. ask[r].supersedes \in Vouched \cup {NoResult}
  BY <1>1, BeforeGoes DEF IInv, RunOK, Founded, Ended
<1> QED
  BY <1>1, <1>2, <1>3, <1>4, BeforeGoes, ExecutesLeaves DEF Executes

\* Every step spoils a source, stores bytes, verifies grounds, admits a result
\* whose grounds were verified, whose bytes are stored and whose logical id is
\* free, vouches for one, or changes nothing that can be relied on.
THEOREM KnowledgeImplementsBase == Spec => ImplementsKnowledgeBase
<1> DEFINE stored == {c \in Contents : files[c] = "exact"}
           base == {q \in Results : files[q] = "exact"}
<1>0. USE DEF Vouched
<1>1. Init => Base!Init
  BY DEF Init, Admission!Init, Base!Init
<1>2. ASSUME IInv, IInv', [Next]_vars
      PROVE  [Base!Next]_(Base!vars)
  <2>1. CASE UNCHANGED vars
    BY <2>1 DEF vars, operation, Base!vars
  <2>2. CASE \E s \in Sources : Spoil(s)
    BY <2>2 DEF Spoil, operation, Base!Next, Base!Spoil
  <2>3. ASSUME NEW r \in Runs, Act(r)
        PROVE  Base!Next \/ UNCHANGED Base!vars
    <3>0. /\ ask[r] \in Results
          /\ sound' = sound /\ ask' = ask
      BY <1>2, <2>3, Ranges, TwoParts, PreludeReads, ExecutesLeaves DEF IInv
    <3>1. CASE grounded' # grounded
      <4>1. Base!Ground(ask[r])
        BY <1>2, <2>3, <3>0, <3>1, GroundedStep DEF Base!Ground, SourcesVerify
      <4> QED
        BY <3>0, <4>1 DEF Base!Next, Base!Ground
    <3>2. CASE grounded' = grounded /\ files' = files
      <4>1. UNCHANGED <<stored, base>>
        BY <3>2
      <4>2. CASE Vouched' = Vouched
        BY <3>0, <3>2, <4>1, <4>2 DEF Base!vars
      <4>3. CASE /\ Vouched' = Vouched \cup {ask[r]}
                 /\ ask[r] \notin Vouched /\ files'[ask[r]] = "exact"
        <5>1. Base!Vouch(ask[r])
          BY <3>0, <3>2, <4>1, <4>3 DEF Base!Vouch
        <5>2. Base!Next
          BY <3>0, <5>1 DEF Base!Next, Base!Vouch
        <5> QED
          BY <5>2
      <4> QED
        BY <1>2, <2>3, <4>2, <4>3, VouchedStep
    <3>3. CASE grounded' = grounded /\ files' # files
      <4>0. Vouched' = Vouched /\ sound' = sound
        BY <1>2, <2>3, <3>0, <3>3, OneAtATime
      <4>1. /\ Admission!Target(r) \in Admission!Targets
            /\ files \in [Admission!Targets -> Admission!FileStates]
        BY <1>2, <2>3, Ranges DEF IInv, TypeOK
      <4>2. \A t \in Admission!Targets :
              /\ files[t] = "exact" => files'[t] = "exact"
              /\ files'[t] = "exact" => files[t] = "exact" \/ t = Admission!Target(r)
        BY <1>2, <2>3, Monotone
      <4>3. CASE Admission!Target(r) \in Contents
        <5>1. UNCHANGED base
          BY <4>2, <4>3, KnowledgeConstants DEF Admission!Targets
        <5>2. stored' = stored \/ stored' = stored \cup {Admission!Target(r)}
          BY <4>2, <4>3 DEF Admission!Targets
        <5>3. CASE stored' = stored
          BY <3>3, <4>0, <5>1, <5>3 DEF Base!vars
        <5>4. CASE stored' = stored \cup {Admission!Target(r)}
          <6>1. Base!Store(Admission!Target(r))
            BY <3>3, <4>0, <5>1, <5>4 DEF Base!Store
          <6>2. Base!Next
            BY <4>3, <6>1 DEF Base!Next, Base!Store
          <6> QED
            BY <6>2
        <5> QED
          BY <5>2, <5>3, <5>4
      <4>4. CASE Admission!Target(r) \in Results
        <5> DEFINE q == Admission!Target(r)
        <5>1. UNCHANGED stored
          BY <4>2, <4>4, KnowledgeConstants DEF Admission!Targets
        <5>2. base' = base \/ base' = base \cup {q}
          BY <4>2, <4>4 DEF Admission!Targets
        <5>3. CASE base' = base
          BY <3>3, <4>0, <5>1, <5>3 DEF Base!vars
        <5>4. CASE base' # base
          <6>1. files'[q] = "exact" /\ files[q] # "exact"
            BY <4>2, <4>4, <5>2, <5>4 DEF Admission!Targets
          <6>2. Admission!CatalogueConsistent /\ Admission!CatalogueConsistent'
            BY <1>2 DEF IInv
          <6>3. q.content \in Contents
            BY <4>4, KnowledgeConstants
          <6>4. q.content \in stored'
            BY <4>4, <6>1, <6>2, <6>3 DEF Admission!CatalogueConsistent
          <6>5. \A p \in base : p.id # q.id
            BY <4>2, <4>4, <6>1, <6>2
            DEF Admission!CatalogueConsistent, Admission!Targets
          <6>6. q \in grounded
            <7>1. pc[r] = "fill"
              BY <1>2, <2>3, <3>3, <4>1, <6>1, Frame DEF IInv
            <7>2. q = ask[r] /\ Len(receipts[r]) # 0
              BY <1>2, <4>4, Ranges, KnowledgeConstants
              DEF Admission!Target, Admission!Ordinal, IInv
            <7>3. Len(receipts[r]) = 1
              BY <1>2, <7>1, <7>2, NoneOrOne DEF Executing, Admission!Brokered
            <7> QED
              BY <1>2, <7>1, <7>2, <7>3 DEF IInv, RunOK, InHand
          <6>7. Base!Admit(q)
            BY <3>3, <4>0, <5>1, <5>2, <5>4, <6>4, <6>5, <6>6 DEF Base!Admit
          <6>8. Base!Next
            BY <4>4, <6>7 DEF Base!Next, Base!Admit
          <6> QED
            BY <6>8
        <5> QED
          BY <5>3, <5>4
      <4> QED
        BY <4>1, <4>3, <4>4 DEF Admission!Targets
    <3> QED
      BY <3>1, <3>2, <3>3
  <2> QED
    BY <1>2, <2>1, <2>2, <2>3 DEF Next, Act
<1> QED
  BY <1>1, <1>2, Invariance, PTL DEF Spec, ImplementsKnowledgeBase, Base!Spec

-----------------------------------------------------------------------------
(* The catalogue                                                            *)

\* However runs race, fail and die and whatever is spoilt, a logical id never
\* gets two results, and no result lacks its bytes: the two effects keep under
\* the lock what they keep in a source admission.
THEOREM KnowledgeCatalogueConsistent == Spec => []Admission!CatalogueConsistent
<1>1. IInv => Admission!CatalogueConsistent
  BY DEF IInv
<1> QED
  BY <1>1, Invariance, PTL

\* A run that executes admits, and the rest of its steps admits nothing.
LEMMA CatalogueStep ==
    ASSUME IInv, IInv', NEW r \in Runs, Act(r), files' # files
    PROVE  LET stored  == {c \in Contents : files[c] = "exact"}
               admitted == {q \in Results : files[q] = "exact"}
           IN
           \/ UNCHANGED <<stored, admitted>>
           \/ \E c \in Contents : stored' = stored \cup {c} /\ UNCHANGED admitted
           \/ \E q \in Results :
                 /\ q.content \in stored /\ UNCHANGED stored
                 /\ \A p \in admitted : p.id # q.id
                 /\ admitted' = admitted \cup {q}
<1> DEFINE stored == {c \in Contents : files[c] = "exact"}
           admitted == {q \in Results : files[q] = "exact"}
<1>1. /\ Admission!Target(r) \in Admission!Targets
      /\ files \in [Admission!Targets -> Admission!FileStates]
  BY Ranges DEF IInv, TypeOK
<1>2. \A t \in Admission!Targets :
        /\ files[t] = "exact" => files'[t] = "exact"
        /\ files'[t] = "exact" => files[t] = "exact" \/ t = Admission!Target(r)
  BY Monotone
<1>3. CASE Admission!Target(r) \in Contents
  <2>1. UNCHANGED admitted
    BY <1>2, <1>3, KnowledgeConstants DEF Admission!Targets
  <2>2. stored' = stored \/ stored' = stored \cup {Admission!Target(r)}
    BY <1>2, <1>3 DEF Admission!Targets
  <2> QED
    BY <1>3, <2>1, <2>2
<1>4. CASE Admission!Target(r) \in Results
  <2> DEFINE q == Admission!Target(r)
  <2>1. UNCHANGED stored
    BY <1>2, <1>4, KnowledgeConstants DEF Admission!Targets
  <2>2. admitted' = admitted \/ admitted' = admitted \cup {q}
    BY <1>2, <1>4 DEF Admission!Targets
  <2>3. CASE admitted' # admitted
    <3>1. files'[q] = "exact" /\ files[q] # "exact" /\ q.content \in Contents
      BY <1>2, <1>4, <2>2, <2>3, KnowledgeConstants DEF Admission!Targets
    <3>2. Admission!CatalogueConsistent /\ Admission!CatalogueConsistent'
      BY DEF IInv
    <3>3. q.content \in stored
      BY <1>4, <2>1, <3>1, <3>2 DEF Admission!CatalogueConsistent
    <3>4. \A p \in admitted : p.id # q.id
      BY <1>2, <1>4, <3>1, <3>2 DEF Admission!CatalogueConsistent, Admission!Targets
    <3> QED
      BY <1>4, <2>1, <2>2, <2>3, <3>3, <3>4
  <2> QED
    BY <2>1, <2>2, <2>3
<1> QED
  BY <1>1, <1>3, <1>4 DEF Admission!Targets

\* A knowledge admission is an admission: with all that comes before its effects,
\* it adds contents and results as the catalogue of sources allows.
THEOREM KnowledgeImplementsCatalogue == Spec => Admission!ImplementsCatalogue
<1>1. Init => Admission!Catalogue!Init
  BY DEF Init, Admission!Init, Admission!Catalogue!Init
<1>2. ASSUME IInv, IInv', [Next]_vars
      PROVE  [Admission!Catalogue!Next]_(Admission!Catalogue!vars)
  <2>1. CASE files' = files
    BY <2>1 DEF Admission!Catalogue!vars
  <2>2. CASE files' # files
    <3>1. PICK r \in Runs : Act(r)
      BY <1>2, <2>2 DEF Next, Act, Spoil, vars
    <3> QED
      BY <1>2, <2>2, <3>1, CatalogueStep
      DEF Admission!Catalogue!Next, Admission!Catalogue!Store, Admission!Catalogue!Admit,
          Admission!Catalogue!vars
  <2> QED
    BY <2>1, <2>2
<1> QED
  BY <1>1, <1>2, Invariance, PTL
  DEF Spec, Admission!ImplementsCatalogue, Admission!Catalogue!Spec

-----------------------------------------------------------------------------
(* Who made what, and on what grounds                                       *)

\* Every descriptor was made by a run that was asked for it.
EachHasMaker ==
    \A q \in Results :
        files[q] # "absent" => \E r \in Runs : ask[r] = q /\ q \in created[r]

\* Of the runs that race for a logical id one at most is told that its result
\* is in place, be it verified or not.
OneWinner ==
    \A r, s \in Runs :
        /\ outcome[r] \in {"succeeded_verified", "committed_unverified"}
        /\ outcome[s] \in {"succeeded_verified", "committed_unverified"}
        /\ ask[r].id = ask[s].id
        => r = s

\* A descriptor, an unfinished one too, is one whose grounds held; what
\* it supersedes is still there as it was, under the verified receipt of its run.
ChainUnbroken ==
    \A q \in Results :
        files[q] # "absent" =>
            /\ q \in grounded
            /\ q.supersedes # NoResult =>
                  /\ ReferenceVerifies(q.supersedes)
                  /\ \E p \in Runs : /\ q.supersedes \in created[p]
                                     /\ outcome[p] = "succeeded_verified"

\* What is grounded supersedes a result that was vouched for, or none.
Grounds ==
    /\ \A q \in Results : files[q] # "absent" => q \in grounded
    /\ \A q \in grounded : q.supersedes \in Vouched \cup {NoResult}

LEMMA MakersKept ==
    ASSUME IInv, EachHasMaker, NEW r \in Runs, Act(r)
    PROVE  EachHasMaker'
<1>1. /\ ask' = ask /\ files \in [Admission!Targets -> Admission!FileStates]
      /\ \A s \in Runs : created[s] \subseteq created'[s]
  BY Frame DEF IInv, TypeOK
<1>2. SUFFICES ASSUME NEW q \in Results, files'[q] # "absent"
               PROVE  \E s \in Runs : ask[s] = q /\ q \in created'[s]
  BY <1>1 DEF EachHasMaker
<1>3. CASE files[q] # "absent"
  BY <1>1, <1>3 DEF EachHasMaker
<1>4. CASE files[q] = "absent"
  <2>1. q = ask[r] /\ q \in Admission!Targets
    BY <1>2, <1>4, NewDescriptor DEF Admission!Targets
  <2>2. q = Admission!Target(r)
    BY <1>2, <1>4, <2>1, Monotone
  <2>3. ~(pc[r] = "fill")
    BY <1>4, <2>2 DEF IInv, RunOK, InHand
  <2>4. q \in created'[r]
    BY <1>2, <1>4, <2>2, <2>3, Frame DEF IInv
  <2> QED
    BY <2>1, <2>4
<1> QED
  BY <1>3, <1>4

LEMMA GroundsKept ==
    ASSUME IInv, Grounds, NEW r \in Runs, Act(r)
    PROVE  Grounds'
<1>1. Vouched \subseteq Vouched' /\ grounded \subseteq grounded'
  BY VouchedGrows, Frame DEF IInv
<1>2. \A q \in grounded' : q.supersedes \in Vouched' \cup {NoResult}
  <2>1. CASE grounded' = grounded
    BY <1>1, <2>1 DEF Grounds
  <2>2. CASE grounded' # grounded
    BY <1>1, <2>2, GroundedStep DEF Grounds
  <2> QED
    BY <2>1, <2>2
<1>3. ASSUME NEW q \in Results, files'[q] # "absent"
      PROVE  q \in grounded'
  <2>1. CASE files[q] # "absent"
    BY <1>1, <2>1 DEF Grounds
  <2>2. CASE files[q] = "absent"
    <3>1. q = ask[r] /\ q \in Admission!Targets
      BY <1>3, <2>2, NewDescriptor DEF Admission!Targets
    <3>2. q = Admission!Target(r) /\ pc[r] \in {"open", "fill"}
      BY <1>3, <2>2, <3>1, Monotone
    <3>3. Len(receipts[r]) # 0
      BY <3>1, <3>2, Ranges DEF Admission!Target, Admission!Ordinal, IInv
    <3>4. Len(receipts[r]) = 1
      BY <3>2, <3>3, NoneOrOne DEF Executing, Admission!Brokered
    <3> QED
      BY <1>1, <3>1, <3>2, <3>4 DEF IInv, RunOK, InHand
  <2> QED
    BY <2>1, <2>2
<1> QED
  BY <1>2, <1>3 DEF Grounds

LEMMA GroundsInvariance == Spec => [](IInv /\ EachHasMaker /\ Grounds)
<1>1. Init => EachHasMaker /\ Grounds
  BY DEF Init, Admission!Init, EachHasMaker, Grounds
<1>2. IInv /\ EachHasMaker /\ Grounds /\ [Next]_vars => EachHasMaker' /\ Grounds'
  <2> SUFFICES ASSUME IInv, EachHasMaker, Grounds, [Next]_vars
               PROVE  EachHasMaker' /\ Grounds'
    OBVIOUS
  <2>1. CASE UNCHANGED <<files, operation, outcome, created, grounded>>
    BY <2>1 DEF operation, EachHasMaker, Grounds, Vouched
  <2>2. ASSUME NEW r \in Runs, Act(r)
        PROVE  EachHasMaker' /\ Grounds'
    BY <2>2, MakersKept, GroundsKept
  <2> QED
    BY <2>1, <2>2 DEF Next, Act, Spoil, vars
<1> QED
  BY <1>1, <1>2, Invariance, PTL DEF Spec

\* A descriptor comes from a run that was asked for it, and by the invariant
\* from no other: no run ever takes over the file that another one has made.
THEOREM KnowledgeEachHasMaker == Spec => []EachHasMaker
BY GroundsInvariance, PTL

\* Two runs are never both told that their result for a logical id is in place,
\* be it for the same result or under the same key: the loser of a race hears of it.
THEOREM KnowledgeOneWinner == Spec => []OneWinner
<1>1. IInv => OneWinner
  <2> SUFFICES ASSUME IInv, NEW r \in Runs, NEW s \in Runs, r # s,
                      outcome[r] \in {"succeeded_verified", "committed_unverified"},
                      outcome[s] \in {"succeeded_verified", "committed_unverified"},
                      ask[r].id = ask[s].id
               PROVE  FALSE
    BY DEF OneWinner
  <2>1. /\ ask[r] \in created[r] /\ files[ask[r]] = "exact" /\ ask[r] \in Results
        /\ ask[s] \in created[s] /\ files[ask[s]] = "exact" /\ ask[s] \in Results
    BY Ranges DEF IInv, RunOK, Truthful
  <2>2. ask[r] = ask[s]
    BY <2>1 DEF IInv, Admission!CatalogueConsistent
  <2>3. created[s] \cap created[r] = {}
    BY DEF IInv, RunOK, Made
  <2> QED
    BY <2>1, <2>2, <2>3
<1> QED
  BY <1>1, Invariance, PTL

\* No descriptor appears before its grounds were seen to hold, not even one that is
\* left unfinished, and none loses the result that it supersedes: a chain of
\* versions can be followed to its first.
THEOREM KnowledgeChainUnbroken == Spec => []ChainUnbroken
<1>1. IInv /\ Grounds => ChainUnbroken
  <2> SUFFICES ASSUME IInv, Grounds, NEW q \in Results, files[q] # "absent"
               PROVE  /\ q \in grounded
                      /\ q.supersedes # NoResult =>
                            /\ ReferenceVerifies(q.supersedes)
                            /\ \E p \in Runs : /\ q.supersedes \in created[p]
                                               /\ outcome[p] = "succeeded_verified"
    BY DEF ChainUnbroken
  <2>1. q \in grounded
    BY DEF Grounds
  <2>2. ASSUME q.supersedes # NoResult
        PROVE  \E p \in Runs : ask[p] = q.supersedes /\ outcome[p] = "succeeded_verified"
    BY <2>1, <2>2 DEF Grounds, Vouched
  <2> QED
    BY <2>1, <2>2 DEF IInv, RunOK, Truthful, ReferenceVerifies
<1> QED
  BY <1>1, GroundsInvariance, PTL

-----------------------------------------------------------------------------
(* The key lock and the durable intent                                      *)

\* Between the lock of its key and its end.
Active(r) == pc[r] \notin {"start"} \cup Ended

\* Two runs of the same request are never both at work.
KeySerializes ==
    \A p, r \in Runs : p # r /\ SameLock(p, r) => ~Active(p) \/ ~Active(r)

\* Of all the runs of a request at most one plans it, for ever, dead or alive.
OneIntentPerRequest ==
    \A p, r \in Runs : p # r /\ SameLock(p, r) => ~intended[p] \/ ~intended[r]

\* Whoever holds a lock of an effect, has an effect receipt or has created a
\* file has a durable intent.
IntentComesFirst ==
    \A r \in Runs :
        \/ pc[r] \in Admission!Brokered \/ receipts[r] # <<>> \/ created[r] # {}
        => intended[r]

\* A run past the check of its key is the only one of its request with an intent.
Unrivalled ==
    \A p, r \in Runs : p # r /\ SameLock(p, r) /\ Active(r) => ~intended[p]

\* The broker works for runs with an intent, and nobody else does anything.
Planned ==
    \A r \in Runs :
        \/ Active(r) /\ pc[r] \notin Preliminary
        \/ receipts[r] # <<>> \/ created[r] # {}
        => intended[r]

Keyed == KeySerializes /\ OneIntentPerRequest /\ Unrivalled /\ Planned

\* Where a run goes before its first effect.
LEMMA PreludeCourse ==
    ASSUME TypeOK, NEW r \in Runs, Prelude(r)
    PROVE  \/ /\ pc[r] = "start" /\ pc'[r] = "candidate" /\ intended' = intended
              /\ LockIsFree(r) /\ \A p \in Runs \ {r} : SameLock(p, r) => ~intended[p]
           \/ pc[r] = "candidate" /\ pc'[r] = "blob" /\ intended' = intended
           \/ pc[r] = "blob" /\ pc'[r] = "validate" /\ intended' = intended
           \/ pc[r] = "validate" /\ pc'[r] = "lock" /\ intended' = intended /\ intended[r]
           \/ pc[r] = "validate" /\ pc'[r] = "reuse" /\ intended' = intended /\ ~intended[r]
           \/ /\ pc[r] = "reuse" /\ pc'[r] = "blob"
              /\ intended' = [intended EXCEPT ![r] = TRUE]
           \/ pc'[r] \in Ended /\ intended' = intended
<1>1. ASSUME NEW step, Go(r, step)
      PROVE  pc'[r] = step
  BY <1>1 DEF Go, TypeOK
<1>2. ASSUME NEW status, Decide(r, status)
      PROVE  pc'[r] = "done"
  BY <1>1, <1>2 DEF Decide
<1>3. CASE CheckIdempotency(r)
  BY <1>1, <1>2, <1>3 DEF CheckIdempotency, Ended
<1>4. CASE ValidateCandidate(r)
  BY <1>1, <1>2, <1>4 DEF ValidateCandidate, Ended
<1>5. CASE ReadBlob(r)
  BY <1>1, <1>2, <1>5 DEF ReadBlob, Ended
<1>6. CASE Validate(r)
  BY <1>1, <1>2, <1>6 DEF Validate, Ended
<1>7. CASE FindReusable(r)
  BY <1>1, <1>2, <1>7 DEF FindReusable, Ended
<1>8. CASE PreliminaryFails(r)
  BY <1>1, <1>2, <1>8 DEF PreliminaryFails, Ended
<1> QED
  BY <1>3, <1>4, <1>5, <1>6, <1>7, <1>8 DEF Prelude

LEMMA KeyedKept ==
    ASSUME IInv, Keyed, NEW r \in Runs, Act(r)
    PROVE  Keyed'
<1>1. /\ TypeOK /\ ask' = ask /\ key' = key
      /\ \A s \in Runs \ {r} : /\ pc'[s] = pc[s] /\ receipts'[s] = receipts[s]
                               /\ created'[s] = created[s]
  BY Frame, TwoParts, PreludeReads, ExecutesLeaves DEF IInv
<1>2. /\ \A p, s \in Runs : SameLock(p, s)' <=> SameLock(p, s)
      /\ \A p, s \in Runs : SameLock(p, s) <=> SameLock(s, p)
  BY <1>1 DEF SameLock
<1>3. CASE Executes(r)
  <2>1. Active(r) /\ pc[r] \notin Preliminary /\ intended' = intended
    BY <1>3, ExecutesLeaves DEF Active, Preliminary
  <2>2. intended[r]
    BY <2>1 DEF Keyed, Planned
  <2>3. \A s \in Runs : Active(s)' => Active(s)
    BY <1>1, <2>1 DEF Active
  <2>4. KeySerializes' /\ OneIntentPerRequest' /\ Unrivalled'
    BY <1>2, <2>1, <2>3 DEF Keyed, KeySerializes, OneIntentPerRequest, Unrivalled
  <2>5. Planned'
    BY <1>1, <2>1, <2>2 DEF Keyed, Planned, Active
  <2> QED
    BY <2>4, <2>5 DEF Keyed
<1>4. CASE Prelude(r)
  <2>1. pc[r] \in Preliminary /\ receipts' = receipts /\ created' = created
    BY <1>1, <1>4, PreludeReads
  <2>2. \A s \in Runs \ {r} : /\ Active(s)' <=> Active(s)
                              /\ intended'[s] <=> intended[s]
    BY <1>1, <1>4, PreludeCourse DEF Active, TypeOK
  <2>3. intended[r] => intended'[r]
    BY <1>1, <1>4, PreludeCourse DEF TypeOK
  <2>4. Active(r)' => \/ Active(r)
                      \/ /\ LockIsFree(r)
                         /\ \A p \in Runs \ {r} : SameLock(p, r) => ~intended[p]
    BY <1>1, <1>4, PreludeCourse DEF Active, Ended
  <2>5. intended'[r] => intended[r] \/ Active(r)
    BY <1>1, <1>4, PreludeCourse DEF Active, Ended
  <2>6. ASSUME NEW p \in Runs \ {r}, SameLock(p, r), Active(r)'
        PROVE  ~Active(p) /\ ~intended[p]
    BY <1>2, <2>4, <2>6 DEF Active, LockIsFree, Keyed, KeySerializes, Unrivalled
  <2>7. KeySerializes'
    BY <1>2, <2>2, <2>6 DEF Keyed, KeySerializes
  <2>8. OneIntentPerRequest'
    BY <1>2, <2>2, <2>5 DEF Keyed, OneIntentPerRequest, Unrivalled
  <2>9. Unrivalled'
    <3>1. ASSUME NEW p \in Runs \ {r}, SameLock(p, r), Active(p)
          PROVE  ~intended'[r]
      BY <1>2, <2>5, <3>1 DEF Keyed, KeySerializes, Unrivalled
    <3> QED
      BY <1>2, <2>2, <2>6, <3>1 DEF Keyed, Unrivalled
  <2>10. Planned'
    <3>1. Active(r)' /\ pc'[r] \notin Preliminary => intended'[r]
      BY <1>1, <1>4, PreludeCourse DEF Active, Preliminary, Ended
    <3> QED
      BY <2>1, <2>2, <2>3, <3>1, <1>1 DEF Keyed, Planned, Active
  <2> QED
    BY <2>7, <2>8, <2>9, <2>10 DEF Keyed
<1> QED
  BY <1>3, <1>4, TwoParts

LEMMA KeyedInvariance == Spec => [](IInv /\ Keyed)
<1>1. Init => Keyed
  BY DEF Init, Admission!Init, Keyed, KeySerializes, OneIntentPerRequest, Unrivalled,
         Planned, Active
<1>2. IInv /\ Keyed /\ [Next]_vars => Keyed'
  <2> SUFFICES ASSUME IInv, Keyed, [Next]_vars
               PROVE  Keyed'
    OBVIOUS
  <2>1. CASE UNCHANGED <<pc, operation, receipts, created, intended>>
    BY <2>1 DEF operation, Keyed, KeySerializes, OneIntentPerRequest, Unrivalled,
                Planned, Active, SameLock
  <2>2. ASSUME NEW r \in Runs, Act(r)
        PROVE  Keyed'
    BY <2>2, KeyedKept
  <2> QED
    BY <2>1, <2>2 DEF Next, Act, Spoil, vars
<1> QED
  BY <1>1, <1>2, Invariance, PTL DEF Spec

\* However many runs repeat a request, with crashes in between: they do not
\* overlap, and once one of them has a durable intent no other one gets one.
THEOREM KnowledgeOneIntent == Spec => [](KeySerializes /\ OneIntentPerRequest)
<1>1. Keyed => KeySerializes /\ OneIntentPerRequest
  BY DEF Keyed
<1> QED
  BY <1>1, KeyedInvariance, PTL

\* No run locks, records or creates anything without a durable intent, which a
\* later run of the key then finds.
THEOREM KnowledgeIntentComesFirst == Spec => []IntentComesFirst
<1>1. Keyed => IntentComesFirst
  BY DEF Keyed, Planned, IntentComesFirst, Active, Preliminary, Ended, Admission!Brokered
<1> QED
  BY <1>1, KeyedInvariance, PTL

-----------------------------------------------------------------------------
(* That runs end: what does not need fairness                               *)

\* Whoever holds a lock is at the effect that the lock is for, and holds no other.
HolderLives ==
    \A l \in Admission!Locks :
        lock[l] # NoRun => /\ lock[l] \in Runs /\ pc[lock[l]] \in Admission!Brokered
                           /\ l = LockOf[Admission!Scope(lock[l])]

\* The lock that the next step of a run waits for is free.
Ready(r) ==
    /\ pc[r] \notin Ended
    /\ pc[r] = "start" => LockIsFree(r)
    /\ pc[r] = "lock" => lock[LockOf[Admission!Scope(r)]] = NoRun

\* While there is a run that has not ended, there is one that waits for nobody.
NoCircularWait == (\E r \in Runs : pc[r] \notin Ended) => \E r \in Runs : Ready(r)

\* The steps that a run has before it, at most, when n effects have receipts.
Remaining(step, planned, n) ==
    CASE step = "start" -> 20
      [] step = "candidate" -> 19
      [] step = "blob" /\ ~planned -> 18
      [] step = "validate" /\ ~planned -> 17
      [] step = "reuse" -> 16
      [] step = "blob" /\ planned -> 15
      [] step = "validate" /\ planned -> 14
      [] step = "lock" -> 13 - 6 * n
      [] step = "before" -> 12 - 6 * n
      [] step = "open" -> 11 - 6 * n
      [] step = "fill" -> 10 - 6 * n
      [] step = "readback" -> 9 - 6 * n
      [] step = "progress" -> 14 - 6 * n
      [] step = "post" -> 1
      [] OTHER -> 0

\* Whatever a run does takes it nearer to its end: no effect is tried again, and
\* nothing another run does, and no spoilt source, takes it further away.
RunsOut ==
    \A r \in Runs :
        /\ Act(r) =>
              /\ Remaining(pc'[r], intended'[r], Len(receipts'[r])) \in Nat
              /\ Remaining(pc'[r], intended'[r], Len(receipts'[r]))
                    < Remaining(pc[r], intended[r], Len(receipts[r]))
        /\ ~Act(r) => /\ pc'[r] = pc[r] /\ receipts'[r] = receipts[r]
                      /\ intended'[r] = intended[r]

\* A run that has ended is not heard of again.
EndIsFinal ==
    \A r \in Runs :
        pc[r] \in Ended =>
            /\ pc'[r] = pc[r] /\ outcome'[r] = outcome[r] /\ intended'[r] = intended[r]
            /\ receipts'[r] = receipts[r] /\ created'[r] = created[r]

\* Where a step of the broker leads, and how many receipts it adds.
LEMMA BrokerCourse ==
    ASSUME IInv, NEW r \in Runs, Executes(r)
    PROVE  LET n == Len(receipts[r])
               m == Len(receipts'[r])
           IN
           \/ pc[r] = "lock" /\ pc'[r] = "before" /\ m = n
           \/ pc[r] = "before" /\ pc'[r] = "open" /\ m = n
           \/ pc[r] = "open" /\ pc'[r] = "fill" /\ m = n
           \/ pc[r] = "fill" /\ pc'[r] = "readback" /\ m = n
           \/ pc[r] \in Admission!Brokered /\ pc'[r] = "progress" /\ m = n + 1
           \/ pc[r] = "progress" /\ pc'[r] = "lock" /\ m = n /\ n = 1
           \/ pc[r] = "progress" /\ pc'[r] = "post" /\ m = n
           \/ pc'[r] \in Ended /\ m = n
<1> DEFINE n == Len(receipts[r])
           m == Len(receipts'[r])
<1>1. TypeOK /\ (pc[r] \in Executing => n <= 1)
  BY DEF IInv, RunOK, Ordered
<1>2. ASSUME NEW step, Admission!Go(r, step)
      PROVE  pc'[r] = step
  BY <1>1, <1>2 DEF Admission!Go, TypeOK
<1>3. ASSUME NEW status \in Admission!EffectStatuses,
             NEW after \in Admission!Observations,
             Admission!Finish(r, status, after), pc[r] \in Admission!Brokered
      PROVE  pc'[r] = "progress" /\ m = n + 1
  BY <1>1, <1>2, <1>3, Recorded DEF Admission!Finish, Executing
<1> HIDE DEF n, m
<1>4. receipts' = receipts => m = n
  BY DEF m, n
<1>5. CASE Admission!TakeLock(r) \/ Admission!Fill(r) \/ PostOperation(r)
  BY <1>2, <1>4, <1>5
  DEF Admission!TakeLock, Admission!Fill, PostOperation, Admission!PostOperation,
      Admission!Decide, Admission!memory, Ended, n, m
<1>6. CASE BeforeEffect(r)
  <2>1. CASE Admission!Finish(r, "failed_no_effect", "unknown")
    BY <1>3, <1>6, <2>1, BeforeGoes
    DEF Admission!EffectStatuses, Admission!Observations, Admission!Brokered, n, m
  <2>2. CASE Go(r, "open") /\ UNCHANGED <<lock, receipts>>
    BY <1>2, <1>4, <1>6, <2>2, BeforeGoes DEF Go, Admission!Go, n, m
  <2> QED
    BY <1>6, <2>1, <2>2, BeforeGoes
<1>7. CASE Admission!Open(r)
  BY <1>2, <1>3, <1>4, <1>7
  DEF Admission!Open, Admission!EffectStatuses, Admission!Observations,
      Admission!Brokered, n, m
<1>8. CASE Admission!ReadBack(r)
  BY <1>3, <1>8
  DEF Admission!ReadBack, Admission!EffectStatuses, Admission!Observations,
      Admission!Brokered, n, m
<1>9. CASE Admission!Progress(r)
  BY <1>2, <1>4, <1>9
  DEF Admission!Progress, Admission!memory, Admission!Ordinal, n, m
<1>10. CASE ExecutionFails(r)
  <2>0. Admission!Failure(r)
    BY <1>10 DEF ExecutionFails
  <2>1. CASE Admission!ContentUnbound(r)
    BY <1>3, <2>1
    DEF Admission!ContentUnbound, Admission!EffectStatuses, Admission!Observations,
        Admission!Brokered, n, m
  <2>2. CASE Admission!Raise(r)
    BY <1>2, <1>4, <2>2 DEF Admission!Raise, Admission!Decide, Ended, n, m
  <2>3. CASE Admission!OpenFails(r)
    BY <1>3, <2>3
    DEF Admission!OpenFails, Admission!EffectStatuses, Admission!Observations,
        Admission!Brokered, n, m
  <2>4. CASE Admission!FillFails(r)
    BY <1>3, <2>4
    DEF Admission!FillFails, Admission!EffectStatuses, Admission!Observations,
        Admission!Brokered, n, m
  <2>5. CASE Admission!ReadBackFails(r)
    BY <1>3, <2>5
    DEF Admission!ReadBackFails, Admission!EffectStatuses, Admission!Observations,
        Admission!Brokered, n, m
  <2>6. CASE Admission!FinalizationFails(r)
    BY <1>2, <1>4, <2>6
    DEF Admission!FinalizationFails, Admission!Decide, Ended, n, m
  <2>7. CASE Admission!Crash(r)
    BY <1>2, <1>4, <2>7 DEF Admission!Crash, Admission!memory, Ended, n, m
  <2> QED
    BY <2>0, <2>1, <2>2, <2>3, <2>4, <2>5, <2>6, <2>7 DEF Admission!Failure
<1> QED
  BY <1>5, <1>6, <1>7, <1>8, <1>9, <1>10 DEF Executes, Execute, n, m

\* A run changes no intent but its own.
LEMMA OwnIntent ==
    ASSUME IInv, NEW s \in Runs, Act(s), NEW r \in Runs, s # r
    PROVE  intended'[r] = intended[r]
<1>1. intended' = intended \/ intended' = [intended EXCEPT ![s] = TRUE]
  <2>1. CASE Prelude(s)
    BY <2>1, PreludeCourse DEF IInv
  <2>2. CASE Executes(s)
    BY <2>2, ExecutesLeaves
  <2> QED
    BY <2>1, <2>2, TwoParts
<1> QED
  BY <1>1 DEF IInv, TypeOK

\* A lock is taken for the effect at hand, and all are given back by whoever
\* leaves it.
LEMMA Handing ==
    ASSUME IInv, HolderLives, NEW r \in Runs, Executes(r), NEW l \in Admission!Locks
    PROVE  /\ lock'[l] \in {lock[l], NoRun, r}
           /\ lock'[l] = r => /\ pc'[r] \in Admission!Brokered
                              /\ receipts'[r] = receipts[r]
                              /\ l = LockOf[Admission!Scope(r)]
<1> USE DEF Admission!memory
<1>1. TypeOK /\ NoRun # r /\ LockOf[Admission!Scope(r)] \in Admission!Locks
  BY KnowledgeConstants, Ranges DEF IInv
<1>2. ASSUME NEW step, Admission!Go(r, step)
      PROVE  pc'[r] = step
  BY <1>1, <1>2 DEF Admission!Go, TypeOK
<1>3. ASSUME Admission!Release(r)
      PROVE  lock'[l] \in {lock[l], NoRun} /\ lock'[l] # r
  BY <1>1, <1>3 DEF Admission!Release
<1>4. lock[l] = r => pc[r] \in Admission!Brokered /\ l = LockOf[Admission!Scope(r)]
  BY <1>1 DEF HolderLives
<1>5. CASE Admission!Progress(r) \/ PostOperation(r)
  BY <1>4, <1>5
  DEF Admission!Progress, PostOperation, Admission!PostOperation, Admission!Brokered
<1>6. CASE Admission!TakeLock(r)
  BY <1>1, <1>2, <1>4, <1>6 DEF Admission!TakeLock, TypeOK, Admission!Brokered
<1>7. CASE BeforeEffect(r)
  <2>1. CASE Admission!Finish(r, "failed_no_effect", "unknown")
    BY <1>3, <2>1 DEF Admission!Finish
  <2>2. CASE Go(r, "open") /\ UNCHANGED <<lock, receipts>>
    BY <1>2, <1>4, <2>2 DEF Go, Admission!Go, Admission!Brokered
  <2> QED
    BY <1>7, <2>1, <2>2, BeforeGoes
<1>8. CASE Admission!Open(r) \/ Admission!Fill(r) \/ Admission!ReadBack(r)
  BY <1>2, <1>3, <1>4, <1>8
  DEF Admission!Open, Admission!Fill, Admission!ReadBack, Admission!Finish,
      Admission!Brokered
<1>9. CASE ExecutionFails(r)
  <2>1. CASE Admission!FinalizationFails(r)
    BY <1>4, <2>1 DEF Admission!FinalizationFails, Admission!Brokered
  <2>2. CASE ~Admission!FinalizationFails(r)
    <3>1. Admission!Release(r)
      BY <1>9, <2>2
      DEF ExecutionFails, Admission!Failure, Admission!ContentUnbound, Admission!Raise,
          Admission!OpenFails, Admission!FillFails, Admission!ReadBackFails,
          Admission!Crash, Admission!Finish
    <3> QED
      BY <1>3, <3>1
  <2> QED
    BY <2>1, <2>2
<1> QED
  BY <1>5, <1>6, <1>7, <1>8, <1>9 DEF Executes, Execute

LEMMA HolderInvariance == Spec => [](IInv /\ HolderLives)
<1>1. Init => HolderLives
  BY DEF Init, Admission!Init, HolderLives
<1>2. IInv /\ HolderLives /\ [Next]_vars => HolderLives'
  <2> SUFFICES ASSUME IInv, HolderLives, [Next]_vars, NEW l \in Admission!Locks,
                      lock'[l] # NoRun
               PROVE  /\ lock'[l] \in Runs /\ pc'[lock'[l]] \in Admission!Brokered
                      /\ l = LockOf[Admission!Scope(lock[l])']
    BY DEF HolderLives
  <2>1. CASE UNCHANGED <<lock, pc, operation, receipts>>
    BY <2>1 DEF operation, HolderLives, Admission!Scope, Admission!Ordinal
  <2>2. ASSUME NEW r \in Runs, Act(r)
        PROVE  /\ lock'[l] \in Runs /\ pc'[lock'[l]] \in Admission!Brokered
               /\ l = LockOf[Admission!Scope(lock[l])']
    <3>1. ask' = ask
      BY <2>2, Frame DEF IInv
    <3>2. /\ lock'[l] \in {lock[l], NoRun, r}
          /\ lock'[l] = r => /\ pc'[r] \in Admission!Brokered
                             /\ receipts'[r] = receipts[r]
                             /\ l = LockOf[Admission!Scope(r)]
      <4>1. CASE Executes(r)
        BY <4>1, Handing
      <4>2. CASE Prelude(r)
        <5>1. lock' = lock /\ pc[r] \notin Admission!Brokered
          BY <4>2, PreludeReads DEF IInv, Preliminary, Admission!Brokered
        <5>2. lock[l] # r
          BY <5>1, KnowledgeConstants DEF HolderLives
        <5> QED
          BY <5>1, <5>2
      <4> QED
        BY <2>2, <4>1, <4>2, TwoParts
    <3>3. CASE lock'[l] = r
      BY <3>1, <3>2, <3>3 DEF Admission!Scope, Admission!Ordinal
    <3>4. CASE lock'[l] # r
      <4>1. /\ lock'[l] = lock[l] /\ lock[l] \in Runs \ {r}
            /\ pc[lock[l]] \in Admission!Brokered
            /\ l = LockOf[Admission!Scope(lock[l])]
        BY <3>2, <3>4 DEF HolderLives
      <4> QED
        BY <2>2, <3>1, <4>1, Frame DEF IInv, Admission!Scope, Admission!Ordinal
    <3> QED
      BY <3>3, <3>4
  <2> QED
    BY <2>1, <2>2 DEF Next, Act, Spoil, vars
<1> QED
  BY <1>1, <1>2, Invariance, PTL DEF Spec

\* Three kinds of locks, and no circle: who waits for a key waits for a run that
\* is at work, which may wait for the lock of an effect, whose holder waits for
\* nobody.  None of them is dead or has returned.
THEOREM KnowledgeNoCircularWait == Spec => [](HolderLives /\ NoCircularWait)
<1>1. IInv /\ HolderLives => NoCircularWait
  <2> SUFFICES ASSUME IInv, HolderLives, NEW r \in Runs, pc[r] \notin Ended
               PROVE  \E s \in Runs : Ready(s)
    BY DEF NoCircularWait
  <2>1. ASSUME NEW p \in Runs, pc[p] \notin {"start"} \cup Ended
        PROVE  \E s \in Runs : Ready(s)
    <3>1. CASE Ready(p)
      BY <3>1
    <3>2. CASE ~Ready(p)
      <4>1. /\ lock[LockOf[Admission!Scope(p)]] # NoRun
            /\ LockOf[Admission!Scope(p)] \in Admission!Locks
        BY <2>1, <3>2, Ranges DEF IInv, Ready
      <4>2. PICK s \in Runs : pc[s] \in Admission!Brokered
        BY <4>1 DEF HolderLives
      <4>3. Ready(s)
        BY <4>2 DEF Ready, Admission!Brokered, Ended
      <4> QED
        BY <4>3
    <3> QED
      BY <3>1, <3>2
  <2>2. CASE pc[r] = "start" /\ ~LockIsFree(r)
    BY <2>1, <2>2 DEF LockIsFree
  <2>3. CASE pc[r] = "start" /\ LockIsFree(r)
    BY <2>3 DEF Ready, Ended
  <2>4. CASE pc[r] # "start"
    BY <2>1, <2>4
  <2> QED
    BY <2>2, <2>3, <2>4
<1> QED
  BY <1>1, HolderInvariance, PTL

\* A run takes at most twenty steps, however its validations and its two effects
\* go, and no other run adds to them.
THEOREM KnowledgeRunsOut == Spec => [][RunsOut]_vars
<1>1. IInv /\ IInv' /\ [Next]_vars => [RunsOut]_vars
  <2> SUFFICES ASSUME IInv, IInv', Next, NEW r \in Runs
               PROVE  /\ Act(r) =>
                            /\ Remaining(pc'[r], intended'[r], Len(receipts'[r])) \in Nat
                            /\ Remaining(pc'[r], intended'[r], Len(receipts'[r]))
                                  < Remaining(pc[r], intended[r], Len(receipts[r]))
                      /\ ~Act(r) => /\ pc'[r] = pc[r] /\ receipts'[r] = receipts[r]
                                    /\ intended'[r] = intended[r]
    BY DEF RunsOut
  <2> DEFINE n == Len(receipts[r])
             m == Len(receipts'[r])
             left == Remaining(pc[r], intended[r], n)
             next == Remaining(pc'[r], intended'[r], m)
  <2>1. /\ n \in 0..2 /\ (pc[r] \in Executing => n <= 1)
        /\ pc[r] \in Preliminary => n = 0
        /\ pc[r] \in {"progress", "post"} => n >= 1
    BY Ranges DEF IInv, RunOK, Ordered
  <2>2. m \in 0..2
    <3>1. receipts'[r] \in Seq(Admission!EffectReceipts) /\ m <= 2
      BY DEF IInv, TypeOK
    <3>2. m \in Nat
      BY <3>1
    <3> HIDE DEF m
    <3> QED
      BY <3>1, <3>2
  <2>3. ASSUME Executes(r)
        PROVE  next \in Nat /\ next < left
    <3>1. \/ pc[r] = "lock" /\ pc'[r] = "before" /\ m = n
          \/ pc[r] = "before" /\ pc'[r] = "open" /\ m = n
          \/ pc[r] = "open" /\ pc'[r] = "fill" /\ m = n
          \/ pc[r] = "fill" /\ pc'[r] = "readback" /\ m = n
          \/ pc[r] \in Admission!Brokered /\ pc'[r] = "progress" /\ m = n + 1
          \/ pc[r] = "progress" /\ pc'[r] = "lock" /\ m = n /\ n = 1
          \/ pc[r] = "progress" /\ pc'[r] = "post" /\ m = n
          \/ pc'[r] \in Ended /\ m = n
      BY <2>3, BrokerCourse
    <3>2. pc[r] \in {"lock", "before", "open", "fill", "readback", "progress", "post"}
      BY <2>3, ExecutesLeaves
      DEF IInv, TypeOK, Admission!Steps, Admission!Brokered, Preliminary
    <3> HIDE DEF n, m
    <3>3. CASE pc'[r] \in Ended
      BY <2>1, <3>2, <3>3 DEF Remaining, Ended, Executing, Admission!Brokered
    <3>4. CASE pc'[r] \notin Ended
      BY <2>1, <2>2, <3>1, <3>4 DEF Remaining, Executing, Admission!Brokered
    <3> QED
      BY <3>3, <3>4
  <2>4. ASSUME Prelude(r)
        PROVE  next \in Nat /\ next < left
    <3>1. pc[r] \in Preliminary /\ m = n /\ n = 0
      BY <2>1, <2>4, PreludeReads DEF IInv
    <3>2. \/ pc[r] = "start" /\ pc'[r] = "candidate"
          \/ pc[r] = "candidate" /\ pc'[r] = "blob"
          \/ pc[r] = "blob" /\ pc'[r] = "validate" /\ intended'[r] = intended[r]
          \/ pc[r] = "validate" /\ pc'[r] = "lock" /\ intended[r]
          \/ pc[r] = "validate" /\ pc'[r] = "reuse" /\ ~intended[r]
          \/ pc[r] = "reuse" /\ pc'[r] = "blob" /\ intended'[r]
          \/ pc'[r] \in Ended
      BY <2>4, PreludeCourse DEF IInv, TypeOK
    <3>3. intended[r] \in BOOLEAN /\ intended'[r] \in BOOLEAN
      BY DEF IInv, TypeOK
    <3> HIDE DEF n, m
    <3> QED
      BY <3>1, <3>2, <3>3 DEF Remaining, Preliminary, Ended
  <2>5. ASSUME ~Act(r)
        PROVE  pc'[r] = pc[r] /\ receipts'[r] = receipts[r] /\ intended'[r] = intended[r]
    <3>1. CASE UNCHANGED <<pc, receipts, intended>>
      BY <3>1
    <3>2. ASSUME NEW s \in Runs, Act(s)
          PROVE  pc'[r] = pc[r] /\ receipts'[r] = receipts[r] /\ intended'[r] = intended[r]
      <4>1. s # r
        BY <2>5, <3>2
      <4>2. intended'[r] = intended[r]
        BY <3>2, <4>1, OwnIntent
      <4> QED
        BY <3>2, <4>1, <4>2, Frame DEF IInv
    <3> QED
      BY <3>1, <3>2 DEF Next, Act, Spoil
  <2> QED
    BY <2>3, <2>4, <2>5, TwoParts
<1> QED
  BY <1>1, Invariance, PTL DEF Spec

\* The receipts of a run that has returned or died are those it has for ever, and
\* so is its intent: no retry, recovery or failure changes them.
THEOREM KnowledgeEndIsFinal == Spec => [][EndIsFinal]_vars
<1>1. IInv /\ [Next]_vars => [EndIsFinal]_vars
  <2> SUFFICES ASSUME IInv, Next, NEW r \in Runs, pc[r] \in Ended
               PROVE  /\ pc'[r] = pc[r] /\ outcome'[r] = outcome[r]
                      /\ intended'[r] = intended[r]
                      /\ receipts'[r] = receipts[r] /\ created'[r] = created[r]
    BY DEF EndIsFinal
  <2>1. CASE UNCHANGED <<pc, outcome, intended, receipts, created>>
    BY <2>1
  <2>2. ASSUME NEW s \in Runs, Act(s)
        PROVE  /\ pc'[r] = pc[r] /\ outcome'[r] = outcome[r]
               /\ intended'[r] = intended[r]
               /\ receipts'[r] = receipts[r] /\ created'[r] = created[r]
    <3>1. s # r
      BY <2>2, TwoParts, PreludeReads, ExecutesLeaves DEF IInv, Preliminary, Ended
    <3>2. intended'[r] = intended[r]
      BY <2>2, <3>1, OwnIntent
    <3> QED
      BY <2>2, <3>1, <3>2, Frame DEF IInv
  <2> QED
    BY <2>1, <2>2 DEF Next, Act, Spoil
<1> QED
  BY <1>1, Invariance, PTL DEF Spec
=============================================================================
