----------------------- MODULE SourceAdmissionProofs -----------------------
(***************************************************************************)
(* Theorems about SourceAdmission, for every set of runs, logical ids,     *)
(* contents and results, for every assignment of locks to scopes (those of *)
(* POSIX and of Windows are two of them) and any number of failures.       *)
(***************************************************************************)
EXTENDS SourceAdmission, TLAPS

-----------------------------------------------------------------------------
(* The inductive invariant                                                  *)

Verified == [status |-> "applied_verified", after |-> "exists"]

\* At the lock of an effect, or under it.
Executing == {"lock"} \cup Brokered

\* Which receipts there are, by the step the run is about to take: it came to
\* a second effect only over a first one that is verified.
Ordered(r) ==
    /\ Len(receipts[r]) <= 2
    /\ pc[r] # "done" => outcome[r] = "none"
    /\ pc[r] \in {"start", "validate"} => Len(receipts[r]) = 0
    /\ pc[r] \in {"progress", "post"} => Len(receipts[r]) >= 1
    /\ pc[r] \in Executing => Len(receipts[r]) <= 1
    /\ Len(receipts[r]) = 1 /\ pc[r] \in Executing => receipts[r][1] = Verified
    /\ Len(receipts[r]) = 2 => receipts[r][1] = Verified

HoldsLock(r) == pc[r] \in Brokered => lock[LockOf[Scope(r)]] = r

\* The file that the run is working on, and what it relies on.
InHand(r) ==
    /\ pc[r] = "open" /\ Len(receipts[r]) = 1 => Rivals(ask[r]) = {}
    /\ pc[r] = "fill" => files[Target(r)] = "unfinished" /\ Target(r) \in created[r]
    /\ pc[r] = "readback" => files[Target(r)] = "exact" /\ Target(r) \in created[r]
    /\ /\ pc[r] \in {"start", "validate", "lock", "before", "open"}
       /\ Len(receipts[r]) = 0
       => created[r] = {}

\* What the receipts of the effects say is so.
EffectsTrue(r) ==
    /\ Len(receipts[r]) >= 1 =>
          /\ receipts[r][1].status = "applied_verified"
                => receipts[r][1] = Verified /\ files[ask[r].content] = "exact"
          /\ receipts[r][1].status = "failed_partial"
                => files[ask[r].content] # "absent"
          /\ receipts[r][1].status = "indeterminate"
                => ask[r].content \in created[r]
          /\ receipts[r][1].status = "failed_no_effect"
                => receipts[r][1].after = "unknown" \/ created[r] = {}
    /\ Len(receipts[r]) = 2 /\ receipts[r][2].status = "applied_verified"
          => files[ask[r]] = "exact" /\ ask[r] \in created[r]

\* ReceiptsAreTrue, for one run.
Truthful(r) ==
    /\ outcome[r] \in {"succeeded_verified", "committed_unverified"}
          => /\ ask[r] \in created[r]
             /\ files[ask[r]] = "exact" /\ files[ask[r].content] = "exact"
    /\ outcome[r] = "failed_partial" => files[ask[r].content] # "absent"
    /\ outcome[r] = "indeterminate" => ask[r].content \in created[r]
    /\ outcome[r] = "rejected" => created[r] = {}
    /\ outcome[r] = "failed_no_effect" /\ Observed(r) => created[r] = {}

RunOK(r) ==
    Ordered(r) /\ HoldsLock(r) /\ InHand(r) /\ EffectsTrue(r) /\ Truthful(r)

IInv ==
    /\ TypeOK
    /\ CatalogueConsistent
    /\ \A r \in Runs : RunOK(r)
-----------------------------------------------------------------------------
(* Types                                                                    *)

Act(r) == Step(r) \/ Failure(r)

LEMMA Ranges ==
    ASSUME TypeOK, NEW r \in Runs
    PROVE  /\ ask[r] \in Results /\ ask[r].content \in Contents /\ ask[r].id \in Ids
           /\ receipts[r] \in Seq(EffectReceipts) /\ Len(receipts[r]) \in 0..2
           /\ Target(r) \in Targets
           /\ Scope(r) \in Contents \cup Ids /\ LockOf[Scope(r)] \in Locks
           /\ ask[r] \in Targets /\ ask[r].content \in Targets
           /\ ask[r] # ask[r].content
<1>1. ask[r] \in Results
  BY DEF TypeOK
<1>2. ask[r].content \in Contents /\ ask[r].id \in Ids
  BY <1>1, AdmissionConstants
<1>3. ask[r] \in Targets /\ ask[r].content \in Targets /\ ask[r] # ask[r].content
  BY <1>1, <1>2, AdmissionConstants DEF Targets
<1>4. Target(r) \in Targets /\ Scope(r) \in Contents \cup Ids
  BY <1>2, <1>3 DEF Target, Scope
<1>5. LockOf[Scope(r)] \in Locks
  BY <1>4 DEF Locks
<1>6. receipts[r] \in Seq(EffectReceipts) /\ Len(receipts[r]) <= 2
  BY DEF TypeOK
<1>7. Len(receipts[r]) \in 0..2
  <2> DEFINE n == Len(receipts[r])
  <2>1. n \in Nat /\ n <= 2
    BY <1>6
  <2> HIDE DEF n
  <2>2. n \in 0..2
    BY <2>1
  <2> QED
    BY <2>2 DEF n
<1> QED
  BY <1>1, <1>2, <1>3, <1>4, <1>5, <1>6, <1>7

\* A receipt is added at the end, and the others stay.
LEMMA Recorded ==
    ASSUME TypeOK, NEW r \in Runs, NEW status \in EffectStatuses,
           NEW after \in Observations, Record(r, status, after),
           Len(receipts[r]) <= 1
    PROVE  /\ receipts' \in [Runs -> Seq(EffectReceipts)]
           /\ \A s \in Runs \ {r} : receipts'[s] = receipts[s]
           /\ Len(receipts'[r]) = Len(receipts[r]) + 1
           /\ Len(receipts[r]) = 0 => receipts'[r][1] = [status |-> status, after |-> after]
           /\ Len(receipts[r]) = 1
                 => /\ receipts'[r][1] = receipts[r][1]
                    /\ receipts'[r][2] = [status |-> status, after |-> after]
<1> DEFINE new == [status |-> status, after |-> after]
<1>1. new \in EffectReceipts
  BY DEF EffectReceipts
<1>2. receipts[r] \in Seq(EffectReceipts) /\ Len(receipts[r]) \in Nat
  BY Ranges
<1>3. receipts' = [receipts EXCEPT ![r] = Append(receipts[r], new)]
  BY DEF Record
<1>4. receipts'[r] = Append(receipts[r], new)
  BY <1>3 DEF TypeOK
<1>5. Append(receipts[r], new) \in Seq(EffectReceipts)
  BY <1>1, <1>2
<1>6. receipts' \in [Runs -> Seq(EffectReceipts)]
  BY <1>3, <1>5 DEF TypeOK
<1> HIDE DEF new
<1>7. /\ Len(receipts'[r]) = Len(receipts[r]) + 1
      /\ Len(receipts[r]) = 0 => receipts'[r][1] = new
      /\ Len(receipts[r]) = 1 => receipts'[r][1] = receipts[r][1] /\ receipts'[r][2] = new
  BY <1>1, <1>2, <1>4
<1>8. \A s \in Runs \ {r} : receipts'[s] = receipts[s]
  BY <1>3 DEF TypeOK
<1> QED
  BY <1>6, <1>7, <1>8 DEF new

\* A broker at an effect holds the receipts of those before it only.
LEMMA FinishTypes ==
    ASSUME TypeOK, NEW r \in Runs, NEW status \in EffectStatuses,
           NEW after \in Observations, Finish(r, status, after),
           Len(receipts[r]) <= 1
    PROVE  /\ receipts' \in [Runs -> Seq(EffectReceipts)]
           /\ \A s \in Runs : Len(receipts'[s]) <= 2
           /\ lock' \in [Locks -> Runs \cup {NoRun}]
           /\ pc' \in [Runs -> Steps \cup {"done", "crashed"}]
<1>1. Record(r, status, after)
  BY DEF Finish
<1>2. receipts' \in [Runs -> Seq(EffectReceipts)] /\ \A s \in Runs : Len(receipts'[s]) <= 2
  <2>1. Len(receipts'[r]) = Len(receipts[r]) + 1 /\ Len(receipts[r]) \in 0..2
    BY <1>1, Recorded, Ranges
  <2>3. Len(receipts'[r]) <= 2
    BY <2>1
  <2>2. \A s \in Runs \ {r} : Len(receipts'[s]) <= 2
    BY <1>1, Recorded DEF TypeOK
  <2> QED
    BY <1>1, Recorded, <2>2, <2>3
<1>3. lock' \in [Locks -> Runs \cup {NoRun}]
  BY DEF Finish, Release, TypeOK
<1>4. pc' \in [Runs -> Steps \cup {"done", "crashed"}]
  BY DEF Finish, Go, Steps, TypeOK
<1> QED
  BY <1>2, <1>3, <1>4

\* What becomes of a run that has at least one receipt is a terminal status.
LEMMA StatusType ==
    ASSUME NEW rs \in Seq(EffectReceipts), Len(rs) \in 1..2
    PROVE  /\ TerminalStatus(rs, TRUE) \in Statuses
           /\ TerminalStatus(rs, FALSE) \in Statuses
<1>1. rs[Len(rs)] \in EffectReceipts
  OBVIOUS
<1>2. rs[Len(rs)].status \in EffectStatuses
  BY <1>1 DEF EffectReceipts
<1> QED
  BY <1>2 DEF TerminalStatus, EffectStatuses, Statuses

LEMMA TypeStep ==
    ASSUME IInv, NEW r \in Runs, Act(r)
    PROVE  TypeOK'
<1> USE DEF IInv, RunOK, Ordered
<1>0. /\ ask[r] \in Results /\ Target(r) \in Targets /\ LockOf[Scope(r)] \in Locks
      /\ ask[r].content \in Targets
      /\ receipts[r] \in Seq(EffectReceipts) /\ Len(receipts[r]) \in 0..2
  BY Ranges
<1>1. CASE Failure(r)
  <2>1. faults' \in 0..MaxFaults
    BY <1>1, AdmissionConstants DEF Failure, Fault, TypeOK
  <2>2. CASE ContentUnbound(r)
    BY <2>1, <2>2, <1>0, FinishTypes
    DEF ContentUnbound, TypeOK, Executing, Brokered, EffectStatuses, Observations
  <2>3. CASE Raise(r)
    <3>1. Ordinal(r) = 1 => TerminalStatus(receipts[r], FALSE) \in Statuses
      <4>1. Ordinal(r) = 1 => Len(receipts[r]) \in 1..2
        BY DEF Ordinal
      <4> QED
        BY <4>1, <1>0, StatusType
    <3>2. outcome' \in [Runs -> Statuses]
      BY <2>3, <3>1 DEF Raise, Decide, TypeOK, Statuses
    <3>3. pc' \in [Runs -> Steps \cup {"done", "crashed"}]
      BY <2>3 DEF Raise, Decide, Go, TypeOK
    <3>4. lock' \in [Locks -> Runs \cup {NoRun}]
      BY <2>3 DEF Raise, Release, TypeOK
    <3> QED
      BY <2>1, <2>3, <3>2, <3>3, <3>4 DEF Raise, TypeOK
  <2>4. CASE OpenFails(r)
    BY <2>1, <2>4, <1>0, FinishTypes
    DEF OpenFails, TypeOK, Executing, Brokered, EffectStatuses, Observations
  <2>5. CASE FillFails(r)
    <3>1. files' \in [Targets -> FileStates]
      BY <2>5, <1>0 DEF FillFails, TypeOK, FileStates
    <3> QED
      BY <2>1, <2>5, <3>1, <1>0, FinishTypes
      DEF FillFails, TypeOK, Executing, Brokered, EffectStatuses, Observations
  <2>6. CASE ReadBackFails(r)
    BY <2>1, <2>6, <1>0, FinishTypes
    DEF ReadBackFails, TypeOK, Executing, Brokered, EffectStatuses, Observations
  <2>7. CASE FinalizationFails(r)
    <3>1. TerminalStatus(receipts[r], FALSE) \in Statuses
      <4>1. Len(receipts[r]) \in 1..2
        BY <2>7, <1>0 DEF FinalizationFails
      <4> QED
        BY <4>1, <1>0, StatusType
    <3> QED
      BY <2>1, <2>7, <3>1 DEF FinalizationFails, Decide, Go, TypeOK
  <2>8. CASE Crash(r)
    BY <2>1, <2>8 DEF Crash, Release, Go, TypeOK, memory
  <2> QED
    BY <1>1, <2>2, <2>3, <2>4, <2>5, <2>6, <2>7, <2>8 DEF Failure
<1>2. CASE Step(r)
  <2>1. CASE ReadBlob(r)
    BY <2>1, <1>0 DEF ReadBlob, Go, TypeOK, Steps
  <2>2. CASE Validate(r)
    <3>1. CASE Go(r, "lock") /\ UNCHANGED outcome
      BY <2>2, <3>1 DEF Validate, Go, TypeOK, Steps, FileStates
    <3>2. CASE Decide(r, "rejected")
      BY <2>2, <3>2 DEF Validate, Decide, Go, TypeOK, Statuses, FileStates
    <3> QED
      BY <2>2, <3>1, <3>2 DEF Validate
  <2>3. CASE TakeLock(r)
    BY <2>3, <1>0 DEF TakeLock, Go, TypeOK, Steps, Brokered, memory
  <2>4. CASE BeforeEffect(r)
    <3>1. CASE Go(r, "open") /\ UNCHANGED <<lock, receipts>>
      BY <2>4, <3>1 DEF BeforeEffect, Go, TypeOK, Steps, Brokered
    <3>2. CASE Finish(r, "failed_no_effect", "unknown")
      BY <2>4, <3>2, <1>0, FinishTypes
      DEF BeforeEffect, TypeOK, Executing, Brokered, EffectStatuses, Observations
    <3> QED
      BY <2>4, <3>1, <3>2 DEF BeforeEffect
  <2>5. CASE Open(r)
    <3>1. CASE Go(r, "fill") /\ UNCHANGED <<lock, receipts>>
      <4>1. pc' \in [Runs -> Steps \cup {"done", "crashed"}]
        BY <3>1 DEF Go, TypeOK, Steps, Brokered
      <4>2. files' \in [Targets -> FileStates]
        BY <2>5, <1>0 DEF Open, TypeOK, FileStates
      <4>3. created' \in [Runs -> SUBSET Targets]
        BY <2>5, <1>0 DEF Open, TypeOK
      <4> QED
        BY <2>5, <3>1, <4>1, <4>2, <4>3 DEF Open, TypeOK
    <3>2. CASE /\ Finish(r, "applied_verified", "exists") \/ Finish(r, "failed_no_effect", "exists")
               /\ UNCHANGED <<files, created>>
      BY <2>5, <3>2, <1>0, FinishTypes
      DEF Open, TypeOK, Executing, Brokered, EffectStatuses, Observations
    <3> QED
      BY <2>5, <3>1, <3>2 DEF Open
  <2>6. CASE Fill(r)
    BY <2>6, <1>0 DEF Fill, Go, TypeOK, Steps, Brokered, FileStates, memory
  <2>7. CASE ReadBack(r)
    BY <2>7, <1>0, FinishTypes
    DEF ReadBack, TypeOK, Executing, Brokered, EffectStatuses, Observations
  <2>8. CASE Progress(r)
    BY <2>8 DEF Progress, Go, TypeOK, Steps, memory
  <2>9. CASE PostOperation(r)
    <3>1. Len(receipts[r]) \in 1..2
      BY <2>9, <1>0 DEF PostOperation
    <3>2. /\ TerminalStatus(receipts[r], TRUE) \in Statuses
          /\ TerminalStatus(receipts[r], FALSE) \in Statuses
      BY <3>1, <1>0, StatusType
    <3>3. PICK v \in BOOLEAN : Decide(r, TerminalStatus(receipts[r], v))
      BY <2>9 DEF PostOperation
    <3>4. TerminalStatus(receipts[r], v) \in Statuses
      BY <3>2, <3>3
    <3> QED
      BY <2>9, <3>3, <3>4 DEF PostOperation, Decide, Go, TypeOK
  <2> QED
    BY <1>2, <2>1, <2>2, <2>3, <2>4, <2>5, <2>6, <2>7, <2>8, <2>9 DEF Step
<1> QED
  BY <1>1, <1>2 DEF Act
-----------------------------------------------------------------------------
(* What a step leaves alone                                                 *)

\* A step of r changes nothing that is another run's, and at most one file.
LEMMA Frame ==
    ASSUME TypeOK, NEW r \in Runs, Act(r)
    PROVE  /\ ask' = ask
           /\ \A s \in Runs \ {r} :
                 /\ pc'[s] = pc[s] /\ receipts'[s] = receipts[s]
                 /\ outcome'[s] = outcome[s] /\ created'[s] = created[s]
           /\ \A s \in Runs \ {r}, l \in Locks : lock[l] = s => lock'[l] = s
           /\ created[r] \subseteq created'[r]
           /\ \/ files' = files
              \/ /\ pc[r] = "open" /\ files[Target(r)] = "absent"
                 /\ files' = [files EXCEPT ![Target(r)] = "unfinished"]
              \/ /\ pc[r] = "fill"
                 /\ \E state \in {"unfinished", "exact"} :
                       files' = [files EXCEPT ![Target(r)] = state]
<1> USE DEF TypeOK, memory, Go, Decide
<1>1. ASSUME NEW status, NEW after, Finish(r, status, after)
      PROVE  /\ \A s \in Runs \ {r} : pc'[s] = pc[s] /\ receipts'[s] = receipts[s]
             /\ \A s \in Runs \ {r}, l \in Locks : lock[l] = s => lock'[l] = s
  BY <1>1 DEF Finish, Record, Release
<1>2. ASSUME Release(r)
      PROVE  \A s \in Runs \ {r}, l \in Locks : lock[l] = s => lock'[l] = s
  BY <1>2 DEF Release
<1>3. CASE Failure(r)
  <2>1. CASE ContentUnbound(r)
    BY <2>1, <1>1 DEF ContentUnbound
  <2>2. CASE Raise(r)
    BY <2>2, <1>2 DEF Raise
  <2>3. CASE OpenFails(r)
    BY <2>3, <1>1 DEF OpenFails
  <2>4. CASE FillFails(r)
    BY <2>4, <1>1 DEF FillFails
  <2>5. CASE ReadBackFails(r)
    BY <2>5, <1>1 DEF ReadBackFails
  <2>6. CASE FinalizationFails(r)
    BY <2>6 DEF FinalizationFails
  <2>7. CASE Crash(r)
    BY <2>7, <1>2 DEF Crash
  <2> QED
    BY <1>3, <2>1, <2>2, <2>3, <2>4, <2>5, <2>6, <2>7 DEF Failure
<1>4. CASE Step(r)
  <2>1. CASE ReadBlob(r)
    BY <2>1 DEF ReadBlob
  <2>2. CASE Validate(r)
    BY <2>2 DEF Validate
  <2>3. CASE TakeLock(r)
    BY <2>3, AdmissionConstants DEF TakeLock
  <2>4. CASE BeforeEffect(r)
    BY <2>4, <1>1 DEF BeforeEffect
  <2>5. CASE Open(r)
    <3>1. CASE files[Target(r)] = "absent"
      BY <2>5, <3>1 DEF Open
    <3>2. CASE files[Target(r)] # "absent"
      BY <2>5, <3>2, <1>1 DEF Open
    <3> QED
      BY <3>1, <3>2
  <2>6. CASE Fill(r)
    BY <2>6 DEF Fill
  <2>7. CASE ReadBack(r)
    BY <2>7, <1>1 DEF ReadBack
  <2>8. CASE Progress(r)
    BY <2>8 DEF Progress
  <2>9. CASE PostOperation(r)
    BY <2>9 DEF PostOperation
  <2> QED
    BY <1>4, <2>1, <2>2, <2>3, <2>4, <2>5, <2>6, <2>7, <2>8, <2>9 DEF Step
<1> QED
  BY <1>3, <1>4 DEF Act

\* What is in place stays, and only the file in hand can change.
LEMMA Monotone ==
    ASSUME IInv, NEW r \in Runs, Act(r), NEW t \in Targets
    PROVE  /\ files[t] = "exact" => files'[t] = "exact"
           /\ files[t] # "absent" => files'[t] # "absent"
           /\ files'[t] # files[t] => t = Target(r) /\ pc[r] \in {"open", "fill"}
<1>1. Target(r) \in Targets /\ files \in [Targets -> FileStates]
  BY Ranges DEF IInv, TypeOK
<1>2. pc[r] = "fill" => files[Target(r)] = "unfinished"
  BY DEF IInv, RunOK, InHand
<1> QED
  BY <1>1, <1>2, Frame DEF IInv

\* Two runs under the lock of one scope are one run.
LEMMA Alone ==
    ASSUME IInv, NEW r \in Runs, NEW s \in Runs,
           pc[r] \in Brokered, pc[s] \in Brokered, Scope(r) = Scope(s)
    PROVE  r = s
BY DEF IInv, RunOK, HoldsLock

\* Nobody else changes the file in hand.
LEMMA InHandAlone ==
    ASSUME IInv, NEW r \in Runs, NEW s \in Runs,
           pc[r] \in Brokered, pc[s] \in Brokered, Target(r) = Target(s)
    PROVE  r = s
<1>1. /\ ask[r] \in Results /\ ask[r].content \in Contents
      /\ ask[s] \in Results /\ ask[s].content \in Contents
  BY Ranges DEF IInv
<1>2. Scope(r) = Scope(s)
  BY <1>1, AdmissionConstants DEF Target, Scope
<1> QED
  BY <1>2, Alone

\* A step of one run keeps what holds of another.
LEMMA OthersKept ==
    ASSUME IInv, NEW r \in Runs, Act(r), NEW s \in Runs, s # r
    PROVE  RunOK(s)'
<1>1. /\ ask'[s] = ask[s] /\ pc'[s] = pc[s] /\ receipts'[s] = receipts[s]
      /\ outcome'[s] = outcome[s] /\ created'[s] = created[s]
      /\ \A l \in Locks : lock[l] = s => lock'[l] = s
  BY Frame DEF IInv
<1>2. RunOK(s)
  BY DEF IInv
<1>3. /\ ask[s] \in Targets /\ ask[s].content \in Targets /\ Target(s) \in Targets
      /\ LockOf[Scope(s)] \in Locks
  BY Ranges DEF IInv
<1>4. Target(s)' = Target(s) /\ Scope(s)' = Scope(s)
  BY <1>1 DEF Target, Scope, Ordinal
<1>5. Ordered(s)'
  BY <1>1, <1>2 DEF RunOK, Ordered
<1>6. HoldsLock(s)'
  BY <1>1, <1>2, <1>3, <1>4 DEF RunOK, HoldsLock
<1>7. InHand(s)'
  <2>1. pc[s] \in {"fill", "readback"} => files'[Target(s)] = files[Target(s)]
    BY <1>3, Monotone, InHandAlone DEF Brokered
  <2>2. ASSUME pc[s] = "open", Len(receipts[s]) = 1
        PROVE  Rivals(ask[s])' = {}
    <3>1. Rivals(ask[s]) = {}
      BY <1>2, <2>2 DEF RunOK, InHand
    <3>2. SUFFICES ASSUME NEW p \in Results, p.id = ask[s].id, p # ask[s],
                          files'[p] # "absent"
                   PROVE  FALSE
      BY <1>1 DEF Rivals
    <3>3. files[p] = "absent" /\ p \in Targets
      BY <3>1, <3>2 DEF Rivals, Targets
    <3>4. p = Target(r) /\ pc[r] \in {"open", "fill"}
      BY <3>2, <3>3, Monotone
    <3>5. p = ask[r] /\ Ordinal(r) # 0
      BY <3>4, Ranges, AdmissionConstants DEF Target, IInv
    <3>6. Scope(r) = Scope(s)
      BY <2>2, <3>2, <3>5 DEF Scope, Ordinal
    <3> QED
      BY <2>2, <3>4, <3>6, Alone DEF Brokered
  <2> QED
    BY <1>1, <1>2, <1>4, <2>1, <2>2 DEF RunOK, InHand
<1>8. EffectsTrue(s)'
  BY <1>1, <1>2, <1>3, Monotone DEF RunOK, EffectsTrue
<1>9. Truthful(s)'
  BY <1>1, <1>2, <1>3, Monotone DEF RunOK, Truthful, Observed
<1> QED
  BY <1>5, <1>6, <1>7, <1>8, <1>9 DEF RunOK
-----------------------------------------------------------------------------
(* What a step does to its own run                                          *)

LEMMA OwnFiles ==
    ASSUME IInv, NEW r \in Runs, Act(r)
    PROVE  /\ ask'[r] = ask[r]
           /\ files[ask[r]] = "exact" => files'[ask[r]] = "exact"
           /\ files[ask[r].content] = "exact" => files'[ask[r].content] = "exact"
           /\ files[ask[r].content] # "absent" => files'[ask[r].content] # "absent"
BY Frame, Monotone, Ranges DEF IInv

\* A broker at an effect has no receipt, or that of effect 0.
LEMMA NoneOrOne ==
    ASSUME IInv, NEW r \in Runs, pc[r] \in Executing
    PROVE  Len(receipts[r]) = 0 \/ Len(receipts[r]) = 1
<1> DEFINE n == Len(receipts[r])
<1>1. n \in 0..2 /\ n <= 1
  BY Ranges DEF IInv, RunOK, Ordered
<1> HIDE DEF n
<1>2. n = 0 \/ n = 1
  BY <1>1
<1> QED
  BY <1>2 DEF n

\* An effect that ends with a true receipt leaves its run in order.
LEMMA Finished ==
    ASSUME IInv, NEW r \in Runs, Act(r), pc[r] \in Brokered, outcome' = outcome,
           NEW status \in EffectStatuses, NEW after \in Observations,
           Finish(r, status, after),
           status = "applied_verified" => after = "exists",
           Len(receipts[r]) = 0 =>
              /\ status = "applied_verified" => files'[ask[r].content] = "exact"
              /\ status = "failed_partial" => files'[ask[r].content] # "absent"
              /\ status = "indeterminate" => ask[r].content \in created'[r]
              /\ status = "failed_no_effect" => after = "unknown" \/ created'[r] = {},
           Len(receipts[r]) = 1 /\ status = "applied_verified"
              => files'[ask[r]] = "exact" /\ ask[r] \in created'[r]
    PROVE  RunOK(r)'
<1>1. RunOK(r) /\ (Len(receipts[r]) = 0 \/ Len(receipts[r]) = 1)
  BY NoneOrOne DEF IInv, Executing
<1>2. /\ Len(receipts'[r]) = Len(receipts[r]) + 1
      /\ Len(receipts[r]) = 0 => receipts'[r][1] = [status |-> status, after |-> after]
      /\ Len(receipts[r]) = 1
            => /\ receipts'[r][1] = Verified
               /\ receipts'[r][2] = [status |-> status, after |-> after]
  BY <1>1, Recorded DEF IInv, Finish, RunOK, Ordered, Executing
<1>3. pc'[r] = "progress" /\ outcome'[r] = "none"
  BY <1>1 DEF Finish, Go, IInv, TypeOK, RunOK, Ordered, Brokered
<1>4. Ordered(r)'
  <2>1. /\ Len(receipts'[r]) <= 2 /\ Len(receipts'[r]) >= 1
        /\ Len(receipts'[r]) # 0
    <3> DEFINE n == Len(receipts[r])
               m == Len(receipts'[r])
    <3>1. (n = 0 \/ n = 1) /\ m = n + 1
      BY <1>1, <1>2
    <3> HIDE DEF n, m
    <3>2. m <= 2 /\ m >= 1 /\ m # 0
      BY <3>1
    <3> QED
      BY <3>2 DEF m
  <2>2. Len(receipts'[r]) = 2 => receipts'[r][1] = Verified
    BY <1>1, <1>2
  <2>3. pc'[r] \notin Executing /\ pc'[r] \notin {"start", "validate"}
    BY <1>3 DEF Executing, Brokered
  <2> QED
    BY <1>3, <2>1, <2>2, <2>3 DEF Ordered
<1>5. HoldsLock(r)' /\ InHand(r)' /\ Truthful(r)'
  BY <1>3 DEF HoldsLock, InHand, Truthful, Brokered
<1>6. EffectsTrue(r)'
  <2>1. CASE Len(receipts[r]) = 0
    BY <1>2, <2>1, OwnFiles DEF EffectsTrue, Verified
  <2>2. CASE Len(receipts[r]) = 1
    <3>1. files[ask[r].content] = "exact"
      BY <1>1, <2>2 DEF RunOK, Ordered, EffectsTrue, Executing, Verified
    <3> QED
      BY <1>2, <2>2, <3>1, OwnFiles DEF EffectsTrue, Verified
  <2> QED
    BY <1>1, <2>1, <2>2
<1> QED
  BY <1>4, <1>5, <1>6 DEF RunOK

\* The terminal status tells what the effect receipts tell.
LEMMA Decided ==
    ASSUME IInv, NEW r \in Runs, Act(r), NEW verified \in BOOLEAN,
           pc[r] # "done", Len(receipts[r]) >= 1,
           Decide(r, TerminalStatus(receipts[r], verified)),
           receipts' = receipts, created' = created
    PROVE  RunOK(r)'
<1> DEFINE rs == receipts[r]
           status == TerminalStatus(rs, verified)
<1>1. RunOK(r) /\ rs \in Seq(EffectReceipts) /\ Len(rs) \in 1..2
  BY Ranges DEF IInv
<1>2. pc'[r] = "done" /\ outcome'[r] = status
  BY DEF Decide, Go, IInv, TypeOK
<1>3. Ordered(r)' /\ HoldsLock(r)' /\ InHand(r)'
  BY <1>1, <1>2 DEF RunOK, Ordered, HoldsLock, InHand, Executing, Brokered
<1>4. EffectsTrue(r)'
  BY <1>1, OwnFiles DEF RunOK, EffectsTrue
<1>5. CASE Len(rs) = 1
  <2>1. rs[1].status \in EffectStatuses
    <3>1. rs[1] \in EffectReceipts
      BY <1>1, <1>5
    <3> QED
      BY <3>1 DEF EffectReceipts
  <2>2. status = IF rs[1].status = "applied_verified" THEN "failed_partial"
                 ELSE rs[1].status
    BY <1>5 DEF TerminalStatus
  <2>3. Truthful(r)'
    BY <1>1, <1>2, <1>5, <2>1, <2>2, OwnFiles
    DEF RunOK, EffectsTrue, Truthful, Observed, EffectStatuses
  <2> QED
    BY <1>3, <1>4, <2>3 DEF RunOK
<1>6. CASE Len(rs) = 2
  <2>1. rs[1] = Verified
    BY <1>1, <1>6 DEF RunOK, Ordered
  <2>2. status = IF rs[2].status # "applied_verified" THEN "failed_partial"
                 ELSE IF verified THEN "succeeded_verified" ELSE "committed_unverified"
    BY <1>6, <2>1 DEF TerminalStatus, Verified
  <2>3. Truthful(r)'
    BY <1>1, <1>2, <1>6, <2>1, <2>2, OwnFiles
    DEF RunOK, EffectsTrue, Truthful, Verified
  <2> QED
    BY <1>3, <1>4, <2>3 DEF RunOK
<1> QED
  BY <1>1, <1>5, <1>6

\* A step of a run keeps what holds of it: failures.
LEMMA OwnFailures ==
    ASSUME IInv, NEW r \in Runs, Act(r), Failure(r)
    PROVE  RunOK(r)'
<1>1. /\ RunOK(r) /\ TypeOK /\ ask[r].content \in Targets
      /\ receipts[r] \in Seq(EffectReceipts) /\ Len(receipts[r]) \in 0..2
  BY Ranges DEF IInv
<1>2. CASE ContentUnbound(r)
  <2>1. Len(receipts[r]) = 1 /\ Finish(r, "failed_no_effect", "unknown")
    BY <1>2 DEF ContentUnbound, Ordinal
  <2> QED
    BY <1>2, <2>1, Finished DEF ContentUnbound, Brokered, EffectStatuses, Observations
<1>3. CASE Raise(r)
  <2>1. CASE Ordinal(r) = 1
    <3>0. Ordinal(r) # 0
      BY <2>1
    <3>1. Decide(r, TerminalStatus(receipts[r], FALSE))
      BY <1>3, <3>0, Zenon DEF Raise
    <3>2. Len(receipts[r]) >= 1
      BY <2>1 DEF Ordinal
    <3>3. pc[r] # "done" /\ receipts' = receipts /\ created' = created
      BY <1>3 DEF Raise
    <3> QED
      BY <3>1, <3>2, <3>3, Decided
  <2>2. CASE Ordinal(r) = 0
    <3>1. /\ Len(receipts'[r]) = 0 /\ receipts' = receipts /\ created'[r] = {}
          /\ outcome[r] = "none"
      BY <1>1, <1>3, <2>2 DEF Raise, Ordinal, RunOK, InHand, Ordered
    <3>2. \/ pc'[r] = "done" /\ outcome'[r] = "rejected"
          \/ pc'[r] = "crashed" /\ outcome'[r] = "none"
      BY <1>1, <1>3, <2>2, <3>1 DEF Raise, Decide, Go, TypeOK
    <3> QED
      BY <3>1, <3>2
      DEF RunOK, Ordered, HoldsLock, InHand, EffectsTrue, Truthful, Executing, Brokered
  <2> QED
    BY <1>3, <2>1, <2>2 DEF Raise
<1>4. CASE OpenFails(r)
  <2>1. PICK after \in {"absent", "unknown"} : Finish(r, "failed_no_effect", after)
    BY <1>4 DEF OpenFails
  <2>2. Len(receipts[r]) = 0 => created'[r] = {}
    BY <1>1, <1>4 DEF OpenFails, RunOK, InHand
  <2> QED
    BY <1>4, <2>1, <2>2, Finished
    DEF OpenFails, Brokered, EffectStatuses, Observations
<1>5. CASE FillFails(r)
  <2>1. Len(receipts[r]) = 0 => files'[ask[r].content] # "absent"
    BY <1>1, <1>5 DEF FillFails, Target, Ordinal, TypeOK
  <2>2. CASE Finish(r, "failed_partial", "exists")
    BY <1>5, <2>1, <2>2, Finished DEF FillFails, Brokered, EffectStatuses, Observations
  <2>3. CASE Finish(r, "failed_no_effect", "unknown")
    BY <1>5, <2>3, Finished DEF FillFails, Brokered, EffectStatuses, Observations
  <2> QED
    BY <1>5, <2>2, <2>3 DEF FillFails
<1>6. CASE ReadBackFails(r)
  <2>1. Len(receipts[r]) = 0 => ask[r].content \in created'[r]
    BY <1>1, <1>6 DEF ReadBackFails, RunOK, InHand, Target, Ordinal
  <2> QED
    BY <1>6, <2>1, Finished
    DEF ReadBackFails, Brokered, EffectStatuses, Observations
<1>7. CASE FinalizationFails(r)
  <2>1. Len(receipts[r]) >= 1
    BY <1>1, <1>7 DEF FinalizationFails, RunOK, Ordered
  <2> QED
    BY <1>7, <2>1, Decided DEF FinalizationFails
<1>8. CASE Crash(r)
  <2>1. /\ receipts' = receipts /\ outcome' = outcome /\ files' = files
        /\ created' = created /\ ask' = ask /\ pc'[r] = "crashed"
    BY <1>1, <1>8 DEF Crash, memory, Go, TypeOK
  <2>2. pc[r] # "done"
    BY <1>8 DEF Crash, Steps, Brokered
  <2> QED
    BY <1>1, <2>1, <2>2
    DEF RunOK, Ordered, HoldsLock, InHand, EffectsTrue, Truthful, Observed, Executing, Brokered
<1> QED
  BY <1>2, <1>3, <1>4, <1>5, <1>6, <1>7, <1>8 DEF Failure

\* A step of a run keeps what holds of it: the steps that succeed.
LEMMA OwnSteps ==
    ASSUME IInv, NEW r \in Runs, Act(r), Step(r)
    PROVE  RunOK(r)'
<1>1. /\ RunOK(r) /\ TypeOK /\ ask[r].content \in Targets /\ Target(r) \in Targets
      /\ LockOf[Scope(r)] \in Locks
      /\ receipts[r] \in Seq(EffectReceipts) /\ Len(receipts[r]) \in 0..2
  BY Ranges DEF IInv
<1>2. ASSUME receipts' = receipts, created' = created, outcome' = outcome,
             pc[r] # "done", pc'[r] # "done"
      PROVE  /\ EffectsTrue(r)' /\ Truthful(r)'
             /\ outcome'[r] = "none"
  BY <1>1, <1>2, OwnFiles DEF RunOK, Ordered, EffectsTrue, Truthful
<1>3. CASE ReadBlob(r)
  BY <1>1, <1>2, <1>3
  DEF ReadBlob, Go, TypeOK, RunOK, Ordered, HoldsLock, InHand, Executing, Brokered
<1>4. CASE Validate(r)
  <2>1. CASE Go(r, "lock") /\ UNCHANGED outcome
    BY <1>1, <1>2, <1>4, <2>1
    DEF Validate, Go, TypeOK, RunOK, Ordered, HoldsLock, InHand, Executing, Brokered
  <2>2. CASE Decide(r, "rejected")
    <3>1. /\ receipts' = receipts /\ Len(receipts[r]) = 0 /\ created'[r] = {}
          /\ pc'[r] = "done" /\ outcome'[r] = "rejected"
      BY <1>1, <1>4, <2>2 DEF Validate, Decide, Go, TypeOK, RunOK, Ordered, InHand
    <3> QED
      BY <3>1 DEF RunOK, Ordered, HoldsLock, InHand, EffectsTrue, Truthful, Executing, Brokered
  <2> QED
    BY <1>4, <2>1, <2>2 DEF Validate
<1>5. CASE TakeLock(r)
  <2>1. lock'[LockOf[Scope(r)]] = r /\ Scope(r)' = Scope(r)
    BY <1>1, <1>5 DEF TakeLock, TypeOK, Scope, Ordinal, memory
  <2> QED
    BY <1>1, <1>2, <1>5, <2>1
    DEF TakeLock, Go, TypeOK, RunOK, Ordered, HoldsLock, InHand, Executing, Brokered, memory
<1>6. CASE BeforeEffect(r)
  <2>1. CASE Finish(r, "failed_no_effect", "unknown")
    BY <1>6, <2>1, Finished DEF BeforeEffect, Brokered, EffectStatuses, Observations
  <2>2. CASE /\ Ordinal(r) = 0 \/ Placement(ask[r], files[ask[r].content]) = "pass"
             /\ Go(r, "open") /\ UNCHANGED <<lock, receipts>>
    <3>1. Len(receipts[r]) = 1 => Rivals(ask[r]) = {}
      BY <2>2 DEF Placement, Ordinal
    <3>2. Rivals(ask[r])' = Rivals(ask[r]) /\ Scope(r)' = Scope(r)
      BY <1>6, <2>2 DEF BeforeEffect, Rivals, Scope, Ordinal
    <3> QED
      BY <1>1, <1>2, <1>6, <2>2, <3>1, <3>2
      DEF BeforeEffect, Go, TypeOK, RunOK, Ordered, HoldsLock, InHand, Executing, Brokered
  <2> QED
    BY <1>6, <2>1, <2>2 DEF BeforeEffect
<1>7. CASE Open(r)
  <2>1. CASE files[Target(r)] = "absent"
    <3>1. /\ files'[Target(r)] = "unfinished" /\ Target(r) \in created'[r]
          /\ pc'[r] = "fill" /\ pc[r] = "open" /\ lock' = lock
          /\ receipts' = receipts /\ outcome' = outcome /\ ask' = ask
      BY <1>1, <1>7, <2>1 DEF Open, Go, TypeOK
    <3>2. Target(r)' = Target(r) /\ Scope(r)' = Scope(r)
      BY <3>1 DEF Target, Scope, Ordinal
    <3>3. Ordered(r)' /\ HoldsLock(r)' /\ InHand(r)'
      BY <1>1, <3>1, <3>2 DEF RunOK, Ordered, HoldsLock, InHand, Executing, Brokered
    <3>4. created[r] \subseteq created'[r]
      BY Frame, <1>1
    <3>5. Len(receipts[r]) = 0 \/ Len(receipts[r]) = 1
      BY <3>1, NoneOrOne DEF Executing, Brokered
    <3>6. EffectsTrue(r)'
      BY <1>1, <3>1, <3>5, OwnFiles DEF RunOK, Ordered, EffectsTrue, Executing, Brokered, Verified
    <3>7. Truthful(r)'
      BY <1>1, <3>1 DEF RunOK, Ordered, Truthful
    <3> QED
      BY <3>3, <3>6, <3>7 DEF RunOK
  <2>2. CASE files[Target(r)] # "absent"
    <3>1. /\ created' = created /\ files' = files
          /\ outcome' = outcome /\ pc[r] = "open"
          /\ \/ /\ files[Target(r)] = "exact" /\ Len(receipts[r]) = 0
                /\ Finish(r, "applied_verified", "exists")
             \/ Finish(r, "failed_no_effect", "exists")
      BY <1>7, <2>2 DEF Open, Ordinal
    <3>2. Len(receipts[r]) = 0 => created'[r] = {} /\ Target(r) = ask[r].content
      BY <1>1, <3>1 DEF RunOK, InHand, Target, Ordinal
    <3> QED
      BY <3>1, <3>2, Finished DEF Brokered, EffectStatuses, Observations
  <2> QED
    BY <2>1, <2>2
<1>8. CASE Fill(r)
  <2>1. Target(r)' = Target(r) /\ Scope(r)' = Scope(r) /\ files'[Target(r)] = "exact"
    BY <1>1, <1>8 DEF Fill, Target, Scope, Ordinal, TypeOK, memory
  <2> QED
    BY <1>1, <1>2, <1>8, <2>1
    DEF Fill, Go, TypeOK, RunOK, Ordered, HoldsLock, InHand, Executing, Brokered, memory
<1>9. CASE ReadBack(r)
  <2>1. /\ files'[Target(r)] = "exact" /\ Target(r) \in created'[r]
    BY <1>1, <1>9 DEF ReadBack, RunOK, InHand
  <2>2. /\ Len(receipts[r]) = 0 => Target(r) = ask[r].content
        /\ Len(receipts[r]) = 1 => Target(r) = ask[r]
    <3>1. Len(receipts[r]) = 1 => Len(receipts[r]) # 0
      OBVIOUS
    <3> QED
      BY <3>1, Zenon DEF Target, Ordinal
  <2> QED
    BY <1>9, <2>1, <2>2, Finished DEF ReadBack, Brokered, EffectStatuses, Observations
<1>10. CASE Progress(r)
  <2>1. /\ Len(receipts[r]) >= 1 /\ receipts' = receipts
        /\ pc'[r] = "post" \/ /\ pc'[r] = "lock" /\ Len(receipts[r]) = 1
                              /\ receipts[r][1].status = "applied_verified"
    BY <1>1, <1>10 DEF Progress, RunOK, Ordered, Ordinal, Go, TypeOK, memory
  <2>2. pc'[r] = "lock" => receipts[r][1] = Verified
    BY <1>1, <2>1 DEF RunOK, EffectsTrue
  <2>3. EffectsTrue(r)' /\ Truthful(r)' /\ outcome'[r] = "none"
    BY <1>2, <1>10, <2>1 DEF Progress, memory
  <2>4. Ordered(r)'
    BY <1>1, <2>1, <2>2, <2>3 DEF RunOK, Ordered, Executing, Brokered
  <2>5. HoldsLock(r)' /\ InHand(r)'
    BY <2>1 DEF HoldsLock, InHand, Brokered
  <2> QED
    BY <2>3, <2>4, <2>5 DEF RunOK
<1>11. CASE PostOperation(r)
  <2>1. PICK v \in BOOLEAN : Decide(r, TerminalStatus(receipts[r], v))
    BY <1>11 DEF PostOperation
  <2>2. Len(receipts[r]) >= 1
    BY <1>1, <1>11 DEF PostOperation, RunOK, Ordered
  <2> QED
    BY <1>11, <2>1, <2>2, Decided DEF PostOperation
<1> QED
  BY <1>3, <1>4, <1>5, <1>6, <1>7, <1>8, <1>9, <1>10, <1>11 DEF Step

-----------------------------------------------------------------------------
(* The catalogue                                                            *)

\* A descriptor that appears is that of the run that steps, which found no
\* rival under the lock and has the content in place.
LEMMA NewDescriptor ==
    ASSUME IInv, NEW r \in Runs, Act(r), NEW q \in Results,
           files[q] = "absent", files'[q] # "absent"
    PROVE  q = ask[r] /\ Rivals(q) = {} /\ files[q.content] = "exact"
<1>1. q \in Targets
  BY DEF Targets
<1>2. q = Target(r) /\ pc[r] \in {"open", "fill"}
  BY <1>1, Monotone
<1>3. pc[r] = "open" /\ RunOK(r)
  BY <1>2 DEF IInv, RunOK, InHand
<1>4. q = ask[r] /\ Len(receipts[r]) # 0
  BY <1>2, Ranges, AdmissionConstants DEF Target, Ordinal, IInv
<1>5. Len(receipts[r]) = 1
  BY <1>3, <1>4, NoneOrOne DEF Executing, Brokered
<1>6. receipts[r][1] = Verified /\ Len(receipts[r]) >= 1
  BY <1>3, <1>5 DEF RunOK, Ordered, Executing, Brokered
<1>7. files[ask[r].content] = "exact"
  BY <1>3, <1>6 DEF RunOK, EffectsTrue, Verified
<1> QED
  BY <1>3, <1>4, <1>5, <1>7 DEF RunOK, InHand

LEMMA CatalogueKept ==
    ASSUME IInv, NEW r \in Runs, Act(r)
    PROVE  CatalogueConsistent'
<1>1. ASSUME NEW p \in Results, NEW q \in Results, files'[p] # "absent",
             files'[q] # "absent", p.id = q.id, p # q
      PROVE  FALSE
  <2>1. CASE files[p] # "absent" /\ files[q] # "absent"
    BY <1>1, <2>1 DEF IInv, CatalogueConsistent
  <2>2. CASE files[p] = "absent"
    <3>1. p = ask[r] /\ Rivals(p) = {}
      BY <1>1, <2>2, NewDescriptor
    <3>2. files[q] = "absent"
      BY <1>1, <3>1 DEF Rivals
    <3> QED
      BY <1>1, <3>1, <3>2, NewDescriptor
  <2>3. CASE files[q] = "absent"
    <3>1. q = ask[r] /\ Rivals(q) = {}
      BY <1>1, <2>3, NewDescriptor
    <3>2. files[p] = "absent"
      BY <1>1, <3>1 DEF Rivals
    <3> QED
      BY <1>1, <3>1, <3>2, NewDescriptor
  <2> QED
    BY <2>1, <2>2, <2>3
<1>2. ASSUME NEW q \in Results, files'[q] # "absent"
      PROVE  files'[q.content] = "exact"
  <2>1. q.content \in Targets
    BY AdmissionConstants DEF Targets
  <2>2. files[q.content] = "exact"
    BY <1>2, NewDescriptor DEF IInv, CatalogueConsistent
  <2> QED
    BY <2>1, <2>2, Monotone
<1> QED
  BY <1>1, <1>2 DEF CatalogueConsistent

-----------------------------------------------------------------------------
(* Theorems                                                                 *)

LEMMA InitIInv == Init => IInv
<1> SUFFICES ASSUME Init
             PROVE  IInv
  OBVIOUS
<1>1. TypeOK
  BY AdmissionConstants
  DEF Init, TypeOK, FileStates, Steps, Statuses
<1>2. CatalogueConsistent
  BY DEF Init, CatalogueConsistent
<1>3. ASSUME NEW r \in Runs
      PROVE  RunOK(r)
  <2>1. /\ pc[r] = "start" /\ receipts[r] = <<>> /\ Len(receipts[r]) = 0
        /\ outcome[r] = "none" /\ created[r] = {}
    BY DEF Init
  <2> QED
    BY <2>1 DEF RunOK, Ordered, HoldsLock, InHand, EffectsTrue, Truthful, Executing, Brokered
<1> QED
  BY <1>1, <1>2, <1>3 DEF IInv

LEMMA NextIInv == IInv /\ [Next]_vars => IInv'
<1> SUFFICES ASSUME IInv, [Next]_vars
             PROVE  IInv'
  OBVIOUS
<1>1. CASE UNCHANGED vars
  <2>1. TypeOK' /\ CatalogueConsistent'
    BY <1>1 DEF vars, memory, IInv, TypeOK, CatalogueConsistent
  <2>2. ASSUME NEW r \in Runs
        PROVE  RunOK(r)'
    <3>1. Ordered(r)' /\ HoldsLock(r)'
      BY <1>1 DEF vars, memory, IInv, RunOK, Ordered, HoldsLock, Scope, Ordinal
    <3>2. InHand(r)'
      BY <1>1 DEF vars, memory, IInv, RunOK, InHand, Rivals, Target, Ordinal
    <3>3. EffectsTrue(r)' /\ Truthful(r)'
      BY <1>1 DEF vars, memory, IInv, RunOK, EffectsTrue, Truthful, Observed
    <3> QED
      BY <3>1, <3>2, <3>3 DEF RunOK
  <2> QED
    BY <2>1, <2>2 DEF IInv
<1>2. CASE Next
  <2>1. PICK r \in Runs : Act(r)
    BY <1>2 DEF Next, Act
  <2>2. RunOK(r)'
    BY <2>1, OwnSteps, OwnFailures DEF Act
  <2>3. \A s \in Runs : RunOK(s)'
    BY <2>1, <2>2, OthersKept
  <2> QED
    BY <2>1, <2>3, TypeStep, CatalogueKept DEF IInv
<1> QED
  BY <1>1, <1>2

LEMMA Invariance == Spec => []IInv
BY InitIInv, NextIInv, PTL DEF Spec

\* Every variable keeps its type, whatever fails.
THEOREM AdmissionTypeCorrect == Spec => []TypeOK
<1>1. IInv => TypeOK
  BY DEF IInv
<1> QED
  BY <1>1, Invariance, PTL

\* However many runs race, fail and die: a logical id never gets descriptors
\* of two results, and no descriptor lacks its content.
THEOREM CatalogueStaysConsistent == Spec => []CatalogueConsistent
<1>1. IInv => CatalogueConsistent
  BY DEF IInv
<1> QED
  BY <1>1, Invariance, PTL

\* What the Phase receipt of a run says of its two effects is so, and stays so.
THEOREM AdmissionReceiptsTrue == Spec => []ReceiptsAreTrue
<1>1. IInv => ReceiptsAreTrue
  BY DEF IInv, RunOK, Truthful, ReceiptsAreTrue
<1> QED
  BY <1>1, Invariance, PTL

\* Every step stores a content, admits a result whose content is stored and
\* whose logical id is free, or changes nothing that can be relied on.
THEOREM AdmissionImplementsCatalogue == Spec => ImplementsCatalogue
<1> DEFINE stored == {c \in Contents : files[c] = "exact"}
           catalogue == {q \in Results : files[q] = "exact"}
<1>1. Init => Catalogue!Init
  BY DEF Init, Catalogue!Init
<1>2. ASSUME IInv, [Next]_vars
      PROVE  [Catalogue!Next]_(Catalogue!vars)
  <2>1. CASE UNCHANGED vars
    BY <2>1 DEF vars, Catalogue!vars
  <2>2. CASE Next
    <3>1. PICK r \in Runs : Act(r)
      BY <2>2 DEF Next, Act
    <3>2. Target(r) \in Targets /\ files \in [Targets -> FileStates]
      BY <1>2, Ranges DEF IInv, TypeOK
    <3>3. \A t \in Targets :
            /\ files[t] = "exact" => files'[t] = "exact"
            /\ files'[t] = "exact" => files[t] = "exact" \/ t = Target(r)
      BY <1>2, <3>1, Monotone
    <3>4. CASE Target(r) \in Contents
      <4>1. UNCHANGED catalogue
        BY <3>3, <3>4, AdmissionConstants DEF Targets
      <4>2. stored' = stored \/ stored' = stored \cup {Target(r)}
        BY <3>3, <3>4 DEF Targets
      <4> QED
        BY <3>4, <4>1, <4>2 DEF Catalogue!vars, Catalogue!Next, Catalogue!Store
    <3>5. CASE Target(r) \in Results
      <4> DEFINE q == Target(r)
      <4>1. UNCHANGED stored
        BY <3>3, <3>5, AdmissionConstants DEF Targets
      <4>2. catalogue' = catalogue \/ catalogue' = catalogue \cup {q}
        BY <3>3, <3>5 DEF Targets
      <4>3. CASE catalogue' = catalogue
        BY <4>1, <4>3 DEF Catalogue!vars
      <4>4. CASE catalogue' # catalogue
        <5>1. files'[q] = "exact" /\ files[q] # "exact"
          BY <3>3, <3>5, <4>2, <4>4 DEF Targets
        <5>2. CatalogueConsistent /\ CatalogueConsistent'
          BY <1>2, <3>1, CatalogueKept DEF IInv
        <5>3. q.content \in Contents
          BY <3>5, AdmissionConstants
        <5>4. q.content \in stored'
          BY <3>5, <5>1, <5>2, <5>3 DEF CatalogueConsistent
        <5>5. \A p \in catalogue : p.id # q.id
          BY <3>3, <3>5, <5>1, <5>2 DEF CatalogueConsistent, Targets
        <5> QED
          BY <3>5, <4>1, <4>2, <4>4, <5>4, <5>5
          DEF Catalogue!Next, Catalogue!Admit
      <4> QED
        BY <4>3, <4>4
    <3> QED
      BY <3>2, <3>4, <3>5 DEF Targets
  <2> QED
    BY <1>2, <2>1, <2>2
<1> QED
  BY <1>1, <1>2, Invariance, PTL DEF Spec, ImplementsCatalogue, Catalogue!Spec

-----------------------------------------------------------------------------
(* Who made what                                                            *)

\* Every descriptor was made by a run that was asked for it, and no file by two.
OneMaker ==
    /\ \A q \in Results :
          files[q] # "absent" => \E r \in Runs : ask[r] = q /\ q \in created[r]
    /\ \A r, s \in Runs : r # s => created[r] \cap created[s] = {}

\* Of the runs that race for a logical id one at most is told that its result
\* is in place, be it verified or not.
OneWinner ==
    \A r, s \in Runs :
        /\ outcome[r] \in {"succeeded_verified", "committed_unverified"}
        /\ outcome[s] \in {"succeeded_verified", "committed_unverified"}
        /\ ask[r].id = ask[s].id
        => r = s

\* What a run has created is its own and is there.
Made == \A r \in Runs : /\ created[r] \subseteq {ask[r].content, ask[r]}
                        /\ \A t \in created[r] : files[t] # "absent"

\* A run creates the file in hand, which was not there, or nothing.
LEMMA Creates ==
    ASSUME TypeOK, NEW r \in Runs, Act(r)
    PROVE  \/ created' = created /\ ~(pc[r] = "open" /\ files' # files)
           \/ /\ files[Target(r)] = "absent" /\ files'[Target(r)] = "unfinished"
              /\ created' = [created EXCEPT ![r] = @ \cup {Target(r)}]
<1>1. Target(r) \in Targets
  BY Ranges
<1>2. CASE Open(r)
  BY <1>1, <1>2 DEF Open, TypeOK
<1>3. CASE Act(r) /\ ~Open(r)
  <2>1. created' = created
    BY <1>3 DEF Act, Step, ReadBlob, Validate, TakeLock, BeforeEffect, Fill, ReadBack,
                Progress, PostOperation, Failure, ContentUnbound, Raise, OpenFails,
                FillFails, ReadBackFails, FinalizationFails, Crash
  <2>2. pc[r] = "open" => files' = files
    BY <1>3 DEF Act, Step, ReadBlob, Validate, TakeLock, BeforeEffect, Fill, ReadBack,
                Progress, PostOperation, Failure, ContentUnbound, Raise, OpenFails,
                FillFails, ReadBackFails, FinalizationFails, Crash
  <2> QED
    BY <2>1, <2>2
<1> QED
  BY <1>2, <1>3

LEMMA MadeKept ==
    ASSUME IInv, Made, OneMaker, NEW r \in Runs, Act(r)
    PROVE  Made' /\ OneMaker'
<1>1. /\ TypeOK /\ ask' = ask /\ Target(r) \in Targets
      /\ Target(r) \in {ask[r].content, ask[r]}
  BY Ranges, Frame DEF IInv, Target
<1>2. /\ \A s \in Runs \ {r} : created'[s] = created[s]
      /\ \/ created'[r] = created[r]
         \/ /\ files[Target(r)] = "absent" /\ files'[Target(r)] = "unfinished"
            /\ created'[r] = created[r] \cup {Target(r)}
  BY <1>1, Creates DEF TypeOK
<1>3. \A s \in Runs : \A t \in created[s] : t \in Targets /\ files[t] # "absent"
  BY <1>1 DEF Made, TypeOK
<1>4. ASSUME NEW s \in Runs
      PROVE  /\ created'[s] \subseteq {ask'[s].content, ask'[s]}
             /\ \A t \in created'[s] : files'[t] # "absent"
  <2>1. \A t \in created[s] : files'[t] # "absent"
    BY <1>3, Monotone
  <2> QED
    BY <1>1, <1>2, <2>1 DEF Made
<1>5. ASSUME NEW p \in Runs, NEW s \in Runs, p # s
      PROVE  created'[p] \cap created'[s] = {}
  BY <1>2, <1>3, <1>5 DEF OneMaker
<1>6. ASSUME NEW q \in Results, files'[q] # "absent"
      PROVE  \E s \in Runs : ask'[s] = q /\ q \in created'[s]
  <2>1. CASE files[q] # "absent"
    <3>1. PICK s \in Runs : ask[s] = q /\ q \in created[s]
      BY <2>1 DEF OneMaker
    <3> QED
      BY <1>1, <1>2, <3>1
  <2>2. CASE files[q] = "absent"
    <3>1. q = ask[r] /\ q \in Targets
      BY <1>6, <2>2, NewDescriptor DEF Targets
    <3>2. q = Target(r) /\ pc[r] \in {"open", "fill"}
      BY <1>6, <2>2, <3>1, Monotone
    <3>3. pc[r] = "open"
      BY <2>2, <3>2 DEF IInv, RunOK, InHand
    <3>4. q \in created'[r]
      BY <1>1, <1>6, <2>2, <3>2, <3>3, Creates DEF TypeOK
    <3> QED
      BY <1>1, <3>1, <3>4
  <2> QED
    BY <2>1, <2>2
<1> QED
  BY <1>4, <1>5, <1>6 DEF Made, OneMaker

LEMMA MadeInvariance == Spec => [](IInv /\ Made /\ OneMaker)
<1>1. Init => Made /\ OneMaker
  BY DEF Init, Made, OneMaker
<1>2. IInv /\ Made /\ OneMaker /\ [Next]_vars => Made' /\ OneMaker'
  <2> SUFFICES ASSUME IInv, Made, OneMaker, [Next]_vars
               PROVE  Made' /\ OneMaker'
    OBVIOUS
  <2>1. CASE UNCHANGED vars
    BY <2>1 DEF vars, memory, Made, OneMaker
  <2>2. CASE Next
    BY <2>2, MadeKept DEF Next, Act
  <2> QED
    BY <2>1, <2>2
<1> QED
  BY <1>1, <1>2, Invariance, PTL DEF Spec

\* A descriptor comes from exactly one run, which was asked for it; no file that
\* one run has made is ever claimed by another.
THEOREM AdmissionOneMaker == Spec => []OneMaker
BY MadeInvariance, PTL

\* Two runs are never both told that their result for a logical id is in place,
\* not even for the same result: the loser of a race hears of it.
THEOREM AdmissionOneWinner == Spec => []OneWinner
<1>1. IInv /\ OneMaker => OneWinner
  <2> SUFFICES ASSUME IInv, OneMaker, NEW r \in Runs, NEW s \in Runs,
                      outcome[r] \in {"succeeded_verified", "committed_unverified"},
                      outcome[s] \in {"succeeded_verified", "committed_unverified"},
                      ask[r].id = ask[s].id
               PROVE  r = s
    BY DEF OneWinner
  <2>1. /\ ask[r] \in created[r] /\ files[ask[r]] = "exact" /\ ask[r] \in Results
        /\ ask[s] \in created[s] /\ files[ask[s]] = "exact" /\ ask[s] \in Results
    BY Ranges DEF IInv, RunOK, Truthful
  <2>2. ask[r] = ask[s]
    BY <2>1 DEF IInv, CatalogueConsistent
  <2> QED
    BY <2>1, <2>2 DEF OneMaker
<1> QED
  BY <1>1, MadeInvariance, PTL

-----------------------------------------------------------------------------
(* That runs end: what does not need fairness                               *)

\* Whoever holds a lock is at the effect that the lock is for, and holds no other.
HolderLives ==
    \A l \in Locks :
        lock[l] # NoRun => /\ lock[l] \in Runs /\ pc[lock[l]] \in Brokered
                           /\ l = LockOf[Scope(lock[l])]

\* The lock that the next step of a run waits for is free.
Ready(r) ==
    /\ pc[r] \in Steps
    /\ pc[r] = "lock" => lock[LockOf[Scope(r)]] = NoRun

\* While there is a run that has not ended, there is one that waits for nobody.
NoCircularWait == (\E r \in Runs : pc[r] \in Steps) => \E r \in Runs : Ready(r)

\* The steps that a run has before it, at most, when n effects have receipts.
Remaining(step, n) ==
    CASE step = "start" -> 15
      [] step = "validate" -> 14
      [] step = "lock" -> 13 - 6 * n
      [] step = "before" -> 12 - 6 * n
      [] step = "open" -> 11 - 6 * n
      [] step = "fill" -> 10 - 6 * n
      [] step = "readback" -> 9 - 6 * n
      [] step = "progress" -> 14 - 6 * n
      [] step = "post" -> 1
      [] OTHER -> 0

\* Whatever a run does takes it nearer to its end: no effect is tried again, and
\* nothing another run does takes it further away.
RunsOut ==
    \A r \in Runs :
        /\ Act(r) => /\ Remaining(pc'[r], Len(receipts'[r])) \in Nat
                     /\ Remaining(pc'[r], Len(receipts'[r]))
                           < Remaining(pc[r], Len(receipts[r]))
        /\ ~Act(r) => pc'[r] = pc[r] /\ receipts'[r] = receipts[r]

\* A run that has ended is not heard of again.
EndIsFinal ==
    \A r \in Runs :
        pc[r] \in {"done", "crashed"} =>
            /\ pc'[r] = pc[r] /\ outcome'[r] = outcome[r]
            /\ receipts'[r] = receipts[r] /\ created'[r] = created[r]

\* Where a step leads, and how many receipts it adds.
LEMMA Course ==
    ASSUME IInv, NEW r \in Runs, Act(r)
    PROVE  LET n == Len(receipts[r])
               m == Len(receipts'[r])
           IN
           \/ pc[r] = "start" /\ pc'[r] = "validate" /\ m = n
           \/ pc[r] = "validate" /\ pc'[r] = "lock" /\ m = n
           \/ pc[r] = "lock" /\ pc'[r] = "before" /\ m = n
           \/ pc[r] = "before" /\ pc'[r] = "open" /\ m = n
           \/ pc[r] = "open" /\ pc'[r] = "fill" /\ m = n
           \/ pc[r] = "fill" /\ pc'[r] = "readback" /\ m = n
           \/ pc[r] \in Brokered /\ pc'[r] = "progress" /\ m = n + 1
           \/ pc[r] = "progress" /\ pc'[r] = "lock" /\ m = n /\ n = 1
           \/ pc[r] = "progress" /\ pc'[r] = "post" /\ m = n
           \/ pc[r] \in Steps /\ pc'[r] \in {"done", "crashed"} /\ m = n
<1> DEFINE n == Len(receipts[r])
           m == Len(receipts'[r])
<1>1. TypeOK /\ (pc[r] \in Executing => n <= 1)
  BY DEF IInv, RunOK, Ordered
<1>2. ASSUME NEW step, Go(r, step)
      PROVE  pc'[r] = step
  BY <1>1, <1>2 DEF Go, TypeOK
<1>3. ASSUME NEW status \in EffectStatuses, NEW after \in Observations,
             Finish(r, status, after), pc[r] \in Brokered
      PROVE  pc'[r] = "progress" /\ m = n + 1
  BY <1>1, <1>2, <1>3, Recorded DEF Finish, Executing
<1> HIDE DEF n, m
<1>4. receipts' = receipts => m = n
  BY DEF m, n
<1>5. CASE ReadBlob(r) \/ Validate(r) \/ TakeLock(r) \/ Fill(r) \/ PostOperation(r)
  BY <1>2, <1>4, <1>5 DEF ReadBlob, Validate, TakeLock, Fill, PostOperation, Decide,
                          memory, Steps, Brokered, n, m
<1>6. CASE BeforeEffect(r)
  BY <1>2, <1>3, <1>4, <1>6
  DEF BeforeEffect, EffectStatuses, Observations, Brokered, n, m
<1>7. CASE Open(r)
  BY <1>2, <1>3, <1>4, <1>7 DEF Open, EffectStatuses, Observations, Brokered, n, m
<1>8. CASE ReadBack(r)
  BY <1>3, <1>8 DEF ReadBack, EffectStatuses, Observations, Brokered, n, m
<1>9. CASE Progress(r)
  BY <1>2, <1>4, <1>9 DEF Progress, memory, Ordinal, n, m
<1>10. CASE Failure(r)
  <2>1. CASE ContentUnbound(r)
    BY <1>3, <2>1 DEF ContentUnbound, EffectStatuses, Observations, Brokered, n, m
  <2>2. CASE Raise(r)
    BY <1>2, <1>4, <2>2 DEF Raise, Decide, Steps, Brokered, n, m
  <2>3. CASE OpenFails(r)
    BY <1>3, <2>3 DEF OpenFails, EffectStatuses, Observations, Brokered, n, m
  <2>4. CASE FillFails(r)
    BY <1>3, <2>4 DEF FillFails, EffectStatuses, Observations, Brokered, n, m
  <2>5. CASE ReadBackFails(r)
    BY <1>3, <2>5 DEF ReadBackFails, EffectStatuses, Observations, Brokered, n, m
  <2>6. CASE FinalizationFails(r)
    BY <1>2, <1>4, <2>6 DEF FinalizationFails, Decide, Steps, n, m
  <2>7. CASE Crash(r)
    BY <1>2, <1>4, <2>7 DEF Crash, memory, n, m
  <2> QED
    BY <1>10, <2>1, <2>2, <2>3, <2>4, <2>5, <2>6, <2>7 DEF Failure
<1> QED
  BY <1>5, <1>6, <1>7, <1>8, <1>9, <1>10 DEF Act, Step, n, m

\* A lock is taken for the effect at hand, and all are given back by whoever
\* leaves it.
LEMMA Handing ==
    ASSUME IInv, HolderLives, NEW r \in Runs, Act(r), NEW l \in Locks
    PROVE  /\ lock'[l] \in {lock[l], NoRun, r}
           /\ lock'[l] = r => /\ pc'[r] \in Brokered /\ receipts'[r] = receipts[r]
                              /\ l = LockOf[Scope(r)]
<1>1. TypeOK /\ NoRun # r /\ LockOf[Scope(r)] \in Locks
  BY AdmissionConstants, Ranges DEF IInv
<1>2. ASSUME NEW step, Go(r, step)
      PROVE  pc'[r] = step
  BY <1>1, <1>2 DEF Go, TypeOK
<1>3. ASSUME Release(r)
      PROVE  lock'[l] \in {lock[l], NoRun} /\ lock'[l] # r
  BY <1>1, <1>3 DEF Release
<1>4. lock[l] = r => pc[r] \in Brokered /\ l = LockOf[Scope(r)]
  BY <1>1 DEF HolderLives
<1>5. CASE ReadBlob(r) \/ Validate(r) \/ Progress(r) \/ PostOperation(r)
  BY <1>4, <1>5 DEF ReadBlob, Validate, Progress, PostOperation, Brokered
<1>6. CASE TakeLock(r)
  BY <1>1, <1>2, <1>4, <1>6 DEF TakeLock, TypeOK, Brokered, memory
<1>7. CASE BeforeEffect(r) \/ Open(r) \/ Fill(r) \/ ReadBack(r)
  BY <1>2, <1>3, <1>4, <1>7 DEF BeforeEffect, Open, Fill, ReadBack, Finish, Brokered, memory
<1>8. CASE Failure(r)
  <2>1. CASE FinalizationFails(r)
    BY <1>4, <2>1 DEF FinalizationFails, Brokered
  <2>2. CASE ~FinalizationFails(r)
    <3>1. Release(r)
      BY <1>8, <2>2 DEF Failure, ContentUnbound, Raise, OpenFails, FillFails,
                        ReadBackFails, Crash, Finish
    <3> QED
      BY <1>3, <3>1
  <2> QED
    BY <2>1, <2>2
<1> QED
  BY <1>5, <1>6, <1>7, <1>8 DEF Act, Step

LEMMA HolderInvariance == Spec => [](IInv /\ HolderLives)
<1>1. Init => HolderLives
  BY DEF Init, HolderLives
<1>2. IInv /\ HolderLives /\ [Next]_vars => HolderLives'
  <2> SUFFICES ASSUME IInv, HolderLives, [Next]_vars, NEW l \in Locks, lock'[l] # NoRun
               PROVE  /\ lock'[l] \in Runs /\ pc'[lock'[l]] \in Brokered
                      /\ l = LockOf[Scope(lock[l])']
    BY DEF HolderLives
  <2>1. CASE UNCHANGED vars
    BY <2>1 DEF vars, memory, HolderLives, Scope, Ordinal
  <2>2. CASE Next
    <3>1. PICK r \in Runs : Act(r)
      BY <2>2 DEF Next, Act
    <3>2. ask' = ask
      BY <3>1, Frame DEF IInv
    <3>3. CASE lock'[l] = r
      BY <3>1, <3>2, <3>3, Handing DEF Scope, Ordinal
    <3>4. CASE lock'[l] # r
      <4>1. /\ lock'[l] = lock[l] /\ lock[l] \in Runs \ {r} /\ pc[lock[l]] \in Brokered
            /\ l = LockOf[Scope(lock[l])]
        BY <3>1, <3>4, Handing DEF HolderLives
      <4> QED
        BY <3>1, <3>2, <4>1, Frame DEF IInv, Scope, Ordinal
    <3> QED
      BY <3>3, <3>4
  <2> QED
    BY <2>1, <2>2
<1> QED
  BY <1>1, <1>2, Invariance, PTL DEF Spec

\* Runs never wait for each other in a circle, for a dead run or for one that
\* has returned, whichever scopes share a lock: a run holds one lock at most, and
\* waits for none while it holds one.
THEOREM AdmissionNoCircularWait == Spec => [](HolderLives /\ NoCircularWait)
<1>1. IInv /\ HolderLives => NoCircularWait
  <2> SUFFICES ASSUME IInv, HolderLives, NEW r \in Runs, pc[r] \in Steps, ~Ready(r)
               PROVE  \E s \in Runs : Ready(s)
    BY DEF NoCircularWait
  <2>1. LockOf[Scope(r)] \in Locks /\ lock[LockOf[Scope(r)]] # NoRun
    BY Ranges DEF IInv, Ready
  <2>2. PICK s \in Runs : pc[s] \in Brokered
    BY <2>1 DEF HolderLives
  <2>3. Ready(s)
    BY <2>2 DEF Ready, Brokered, Steps
  <2> QED
    BY <2>3
<1> QED
  BY <1>1, HolderInvariance, PTL

\* A run takes at most fifteen steps, however its two effects go, and no other
\* run adds to them.
THEOREM AdmissionRunsOut == Spec => [][RunsOut]_vars
<1>1. IInv /\ IInv' /\ [Next]_vars => [RunsOut]_vars
  <2> SUFFICES ASSUME IInv, IInv', Next, NEW r \in Runs
               PROVE  /\ Act(r) => /\ Remaining(pc'[r], Len(receipts'[r])) \in Nat
                                   /\ Remaining(pc'[r], Len(receipts'[r]))
                                         < Remaining(pc[r], Len(receipts[r]))
                      /\ ~Act(r) => pc'[r] = pc[r] /\ receipts'[r] = receipts[r]
    BY DEF RunsOut
  <2> DEFINE n == Len(receipts[r])
             m == Len(receipts'[r])
  <2>1. /\ n \in 0..2 /\ (pc[r] \in Executing => n <= 1)
        /\ pc[r] \in {"start", "validate"} => n = 0
        /\ pc[r] \in {"progress", "post"} => n >= 1
    BY Ranges DEF IInv, RunOK, Ordered
  <2>2. m \in 0..2
    <3>1. receipts'[r] \in Seq(EffectReceipts) /\ m <= 2
      BY DEF IInv, TypeOK
    <3>2. m \in Nat
      BY <3>1
    <3> HIDE DEF m
    <3> QED
      BY <3>1, <3>2
  <2>3. ASSUME Act(r)
        PROVE  Remaining(pc'[r], m) \in Nat /\ Remaining(pc'[r], m) < Remaining(pc[r], n)
    <3>1. \/ pc[r] = "start" /\ pc'[r] = "validate" /\ m = n
          \/ pc[r] = "validate" /\ pc'[r] = "lock" /\ m = n
          \/ pc[r] = "lock" /\ pc'[r] = "before" /\ m = n
          \/ pc[r] = "before" /\ pc'[r] = "open" /\ m = n
          \/ pc[r] = "open" /\ pc'[r] = "fill" /\ m = n
          \/ pc[r] = "fill" /\ pc'[r] = "readback" /\ m = n
          \/ pc[r] \in Brokered /\ pc'[r] = "progress" /\ m = n + 1
          \/ pc[r] = "progress" /\ pc'[r] = "lock" /\ m = n /\ n = 1
          \/ pc[r] = "progress" /\ pc'[r] = "post" /\ m = n
          \/ pc[r] \in Steps /\ pc'[r] \in {"done", "crashed"} /\ m = n
      BY <2>3, Course
    <3> HIDE DEF n, m
    <3>2. CASE pc'[r] \in {"done", "crashed"}
      BY <2>1, <3>1, <3>2 DEF Remaining, Steps, Brokered, Executing
    <3>3. CASE pc'[r] \notin {"done", "crashed"}
      BY <2>1, <2>2, <3>1, <3>3 DEF Remaining, Brokered, Executing
    <3> QED
      BY <3>2, <3>3
  <2>4. ASSUME ~Act(r)
        PROVE  pc'[r] = pc[r] /\ receipts'[r] = receipts[r]
    <3>1. PICK s \in Runs : Act(s)
      BY DEF Next, Act
    <3> QED
      BY <2>4, <3>1, Frame DEF IInv
  <2> QED
    BY <2>3, <2>4
<1> QED
  BY <1>1, Invariance, PTL DEF Spec

\* The receipts of a run that has returned or died are those it has for ever: no
\* retry, recovery or failure changes them.
THEOREM AdmissionEndIsFinal == Spec => [][EndIsFinal]_vars
<1>1. IInv /\ [Next]_vars => [EndIsFinal]_vars
  <2> SUFFICES ASSUME IInv, Next, NEW r \in Runs, pc[r] \in {"done", "crashed"}
               PROVE  /\ pc'[r] = pc[r] /\ outcome'[r] = outcome[r]
                      /\ receipts'[r] = receipts[r] /\ created'[r] = created[r]
    BY DEF EndIsFinal
  <2>1. PICK s \in Runs : Act(s)
    BY DEF Next, Act
  <2>2. s # r
    BY <2>1, Course DEF Steps, Brokered
  <2> QED
    BY <2>1, <2>2, Frame DEF IInv
<1> QED
  BY <1>1, Invariance, PTL DEF Spec
=============================================================================
