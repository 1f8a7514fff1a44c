--------------------------- MODULE PhaseCoreProofs ---------------------------
(***************************************************************************)
(* Theorems about PhaseCore, for every set of runs, keys and versions and  *)
(* for every request, under any interleaving of runs, failures and deaths. *)
(***************************************************************************)
EXTENDS PhaseCore, TLAPS

-----------------------------------------------------------------------------
(* The inductive invariant                                                  *)

Untried   == {"start", "check", "intent", "intent_sync", "broker", "examine"}
Undecided == Untried \cup {"archive", "swap", "verify", "post"}
Scanned   == {"intent", "intent_sync", "broker", "examine", "archive", "swap"}

Succeeded(q) == Reported(q, "succeeded_verified")

\* The run holds the locks that core.run and the broker took for it.
HoldsLocks(r) ==
    /\ pc[r] \in Keyed => keyLock[ask[r].key] = r
    /\ pc[r] \in Brokered => targetLock = r

\* How its evidence has grown, by the step the run is about to take.
Written(r) ==
    /\ pc[r] \in {"start", "check", "intent"} => intent[r] = "absent"
    /\ pc[r] = "intent_sync" => intent[r] = "torn"
    /\ pc[r] \in {"broker", "post"} \cup Brokered
          => intent[r] = "complete" /\ ask[r].execute
    /\ receipt[r] = "complete" => pc[r] = "done"
    /\ pc[r] \in Undecided => outcome[r].status = "none"

\* What the run has done to the target so far.
Done(r) ==
    /\ pc[r] \in Untried => r \notin archived
    /\ pc[r] \in Untried \cup {"archive", "swap"} => r \notin published
    /\ pc[r] \in {"archive", "swap"} => current = ask[r].old
    /\ pc[r] \in {"swap", "verify"} => Archived(ask[r])

\* A status that claims a result, one that claims that nothing happened.
Claims == {"succeeded_verified", "committed_unverified"}
Idle   == {"rejected", "validated_planned", "reused_existing",
           "failed_no_effect"}

\* What the effect receipt and the decided status say is so.
Truthful(r) ==
    /\ pc[r] = "post" =>
          /\ effect[r] \in {"applied_verified", "applied_unverified"}
                => Archived(ask[r])
          /\ effect[r] = "failed_no_effect"
                => r \notin published /\ r \notin archived
          /\ effect[r] = "failed_partial" => r \notin published
    /\ outcome[r].status \in Claims
          => Archived(ask[r]) /\ intent[r] = "complete"
    /\ outcome[r].status \in Idle => r \notin published /\ r \notin archived
    /\ outcome[r].status = "failed_partial" => r \notin published
    /\ outcome[r].status = "reused_existing"
          => prior[r] \in Runs /\ Succeeded(prior[r]) /\ SameRequest(r, prior[r])

\* The scan of r has nothing to object to in the evidence of q.
Passed(r, q) ==
    SameKey(r, q) => /\ intent[q] = "complete" => SameRequest(r, q)
                     /\ ask[r].execute => ~Succeeded(q)

\* What the scan has found stays so until the run has written.
ScanHolds(r) ==
    /\ seen[r] \subseteq Runs \ {r}
    /\ pc[r] = "start" => seen[r] = {}
    /\ pc[r] = "check" => \A q \in seen[r] : Passed(r, q)
    /\ pc[r] \in Scanned => \A q \in Runs \ {r} : Passed(r, q)

\* A run with an intent had its preconditions, and a file that has left the
\* expected version since was published over, so that version is archived.
Expected(r) ==
    pc[r] = "intent" \/ intent[r] # "absent"
        => current = ask[r].old \/ ask[r].old \in stored

RunOK(r) ==
    /\ HoldsLocks(r) /\ Written(r) /\ Done(r) /\ Truthful(r)
    /\ ScanHolds(r) /\ Expected(r)

\* What has been published is archived.
PublishedIsStored == published # {} => current \in stored

Inv == /\ TypeOK
       /\ \A r \in Runs : RunOK(r)
       /\ KeyBindsOneRequest
       /\ PublishedIsStored

-----------------------------------------------------------------------------
(* What a step of r leaves alone                                            *)

\* The other runs' own state and their locks, what is archived, and the
\* evidence of a run that holds no key; only a swap writes the current file.
Frame(r) ==
    /\ ask' = ask
    /\ \A q \in Runs \ {r} :
          /\ pc'[q] = pc[q] /\ seen'[q] = seen[q]
          /\ intent'[q] = intent[q] /\ receipt'[q] = receipt[q]
          /\ effect'[q] = effect[q] /\ outcome'[q] = outcome[q]
          /\ prior'[q] = prior[q]
          /\ q \in archived' => q \in archived
          /\ q \in published' => q \in published
          /\ \A k \in Keys : keyLock[k] = q => keyLock'[k] = q
          /\ targetLock = q => targetLock' = q
    /\ stored \subseteq stored'
    /\ pc[r] # "done"
    /\ pc[r] \notin Keyed
          => UNCHANGED <<intent, receipt, outcome>>
    /\ pc[r] # "swap" => UNCHANGED <<current, published>>

USE DEF Brokered, Keyed, Untried, Undecided, Scanned

LEMMA AskFacts ==
    ASSUME TypeOK, NEW r \in Runs
    PROVE  /\ ask[r].key \in Keys
           /\ ask[r].old \in Versions
           /\ ask[r].new \in Versions
           /\ ask[r].execute \in BOOLEAN
  BY CoreConstants DEF TypeOK

LEMMA StepFrame ==
    ASSUME TypeOK, NEW r \in Runs, Progress(r) \/ Crash(r)
    PROVE  Frame(r)
  <1> USE CoreConstants, AskFacts
  <1>1. CASE LockKey(r)
    BY <1>1 DEF LockKey, TypeOK, Frame, Go, target, scan, evidence, history
  <1>2. CASE CheckIdempotency(r)
    BY <1>2 DEF CheckIdempotency, TypeOK, Frame, Go, Decide, EndScan, target,
       evidence
  <1>3. CASE Validate(r)
    BY <1>3 DEF Validate, TypeOK, Frame, Go, Decide, EndScan, target, evidence,
       history
  <1>4. CASE WriteIntent(r)
    BY <1>4 DEF WriteIntent, TypeOK, Frame, Go, target, scan, history
  <1>5. CASE SyncIntent(r)
    BY <1>5 DEF SyncIntent, TypeOK, Frame, Go, Decide, target, scan, history
  <1>6. CASE EnterBroker(r)
    BY <1>6 DEF EnterBroker, TypeOK, Frame, Go, target, scan, evidence, history
  <1>7. CASE Examine(r)
    BY <1>7 DEF Examine, TypeOK, Frame, Go, Decide, Leave, ReleaseTarget,
       target, scan, evidence, history
  <1>8. CASE Archive(r)
    BY <1>8 DEF Archive, TypeOK, Frame, Go, Leave, ReleaseTarget, scan, evidence
  <1>9. CASE Swap(r)
    BY <1>9 DEF Swap, TypeOK, Frame, Go, Leave, ReleaseTarget, scan, evidence
  <1>10. CASE Verify(r)
    BY <1>10 DEF Verify, TypeOK, Frame, Go, Leave, ReleaseTarget, target, scan,
       evidence, history
  <1>11. CASE PostOperation(r)
    BY <1>11 DEF PostOperation, TypeOK, Frame, Go, Decide, target, scan,
       evidence, history
  <1>12. CASE WriteReceipt(r)
    BY <1>12 DEF WriteReceipt, TypeOK, Frame, Go, target, scan, history
  <1>13. CASE SyncReceipt(r)
    BY <1>13 DEF SyncReceipt, TypeOK, Frame, Go, ReleaseKey, target, scan,
       history
  <1>14. CASE Crash(r)
    BY <1>14 DEF Crash, TypeOK, Frame, Go, ReleaseKey, ReleaseTarget, EndScan,
       target, evidence, history
  <1> QED BY <1>1, <1>2, <1>3, <1>4, <1>5, <1>6, <1>7, <1>8, <1>9, <1>10,
             <1>11, <1>12, <1>13, <1>14 DEF Progress

\* No two runs are under one key, and no two in the locked region of the root.
LEMMA Exclusion ==
    ASSUME Inv, NEW r \in Runs, NEW q \in Runs, r # q
    PROVE  /\ SameKey(q, r) => ~(pc[r] \in Keyed /\ pc[q] \in Keyed)
           /\ ~(pc[r] \in Brokered /\ pc[q] \in Brokered)
  BY DEF Inv, RunOK, HoldsLocks, SameKey

\* A success that is on disk stays there.
LEMMA SuccessStays ==
    ASSUME Inv, NEW r \in Runs, Frame(r), NEW q \in Runs, Succeeded(q)
    PROVE  Succeeded(q)'
  BY DEF Inv, RunOK, Written, Frame, Reported, Succeeded

\* The part of every run that does not step survives the step of another.
LEMMA OthersKeep ==
    ASSUME Inv, NEW r \in Runs, Frame(r), NEW q \in Runs \ {r}
    PROVE  RunOK(q)'
  <1> USE DEF Inv
  <1>1. HoldsLocks(q)'
    BY AskFacts DEF Frame, RunOK, HoldsLocks
  <1>2. Written(q)'
    BY DEF Frame, RunOK, Written
  <1>3. Done(q)'
    BY Exclusion DEF Frame, RunOK, Done, Archived
  <1>4. Truthful(q)'
    <2>1. Succeeded(prior[q]) /\ prior[q] \in Runs => Succeeded(prior[q])'
      BY SuccessStays DEF Frame, Succeeded, Reported
    <2> QED BY <2>1 DEF Frame, RunOK, Truthful, Archived, Claims, Idle,
               SameRequest, SameKey
  <1>5. ScanHolds(q)'
    <2>1. ASSUME NEW p \in Runs \ {q}, Passed(q, p), pc[q] \in Keyed
          PROVE  Passed(q, p)'
      <3>1. SameKey(q, p) => /\ intent'[p] = intent[p]
                             /\ receipt'[p] = receipt[p]
                             /\ outcome'[p] = outcome[p]
        BY <2>1, Exclusion DEF Frame
      <3> QED BY <2>1, <3>1 DEF Frame, Passed, SameKey, SameRequest, Succeeded,
                 Reported
    <2> QED BY <2>1, AskFacts DEF Frame, RunOK, ScanHolds
  <1>6. Expected(q)'
    BY AskFacts DEF Frame, RunOK, Expected, Done, Archived
  <1> QED BY <1>1, <1>2, <1>3, <1>4, <1>5, <1>6 DEF RunOK

-----------------------------------------------------------------------------
(* Every step keeps the types                                               *)

Steps    == Keyed \cup {"start", "done", "crashed"}
Outcomes == [status : Statuses, blocker : Blockers]
Effects  == {"none", "applied_verified", "applied_unverified",
             "failed_no_effect", "failed_partial", "indeterminate"}

LEMMA GoType ==
    ASSUME TypeOK, NEW r \in Runs, NEW step \in Steps, Go(r, step)
    PROVE  pc' \in [Runs -> Steps] /\ pc'[r] = step
  BY DEF TypeOK, Go, Steps

LEMMA DecideType ==
    ASSUME TypeOK, NEW r \in Runs, NEW status \in Statuses,
           NEW blocker \in Blockers, Decide(r, status, blocker)
    PROVE  /\ pc' \in [Runs -> Steps] /\ pc'[r] = "receipt"
           /\ outcome' \in [Runs -> Outcomes]
           /\ outcome'[r].status = status
  <1>1. Decision(status, blocker) \in Outcomes
    BY DEF Decision, Outcomes
  <1>2. outcome \in [Runs -> Outcomes]
    BY DEF TypeOK, Outcomes
  <1>3. pc' \in [Runs -> Steps] /\ pc'[r] = "receipt"
    BY GoType DEF Decide, Steps
  <1>4. outcome' = [outcome EXCEPT ![r] = Decision(status, blocker)]
    BY DEF Decide
  <1> QED BY <1>1, <1>2, <1>3, <1>4 DEF Decision

LEMMA LeaveType ==
    ASSUME TypeOK, NEW r \in Runs, NEW status \in Effects, Leave(r, status)
    PROVE  /\ pc' \in [Runs -> Steps] /\ pc'[r] = "post"
           /\ effect' \in [Runs -> Effects] /\ effect'[r] = status
           /\ targetLock' \in Runs \cup {NoRun}
  <1>1. pc' \in [Runs -> Steps] /\ pc'[r] = "post"
    BY GoType DEF Leave, Steps
  <1>2. effect \in [Runs -> Effects]
    BY DEF TypeOK, Effects
  <1> QED BY <1>1, <1>2 DEF Leave, ReleaseTarget, TypeOK

LEMMA KeyReleased ==
    ASSUME TypeOK, NEW r \in Runs, ReleaseKey(r)
    PROVE  keyLock' \in [Keys -> Runs \cup {NoRun}]
  BY DEF TypeOK, ReleaseKey

LEMMA TargetReleased ==
    ASSUME TypeOK, NEW r \in Runs, ReleaseTarget(r)
    PROVE  targetLock' \in Runs \cup {NoRun}
  BY DEF TypeOK, ReleaseTarget

\* The types that the shared pieces above are about, and the others.
LEMMA TypeParts ==
    TypeOK =>
      /\ current \in Versions /\ stored \subseteq Versions
      /\ keyLock \in [Keys -> Runs \cup {NoRun}]
      /\ targetLock \in Runs \cup {NoRun}
      /\ pc \in [Runs -> Steps]
      /\ ask \in [Runs -> Asks] /\ seen \in [Runs -> SUBSET Runs]
      /\ intent \in [Runs -> Files] /\ receipt \in [Runs -> Files]
      /\ effect \in [Runs -> Effects] /\ outcome \in [Runs -> Outcomes]
      /\ archived \subseteq Runs /\ published \subseteq Runs
      /\ prior \in [Runs -> Runs \cup {NoRun}]
  BY DEF TypeOK, Steps, Effects, Outcomes

LEMMA TypePartsNext ==
    ASSUME /\ current' \in Versions /\ stored' \subseteq Versions
           /\ keyLock' \in [Keys -> Runs \cup {NoRun}]
           /\ targetLock' \in Runs \cup {NoRun}
           /\ pc' \in [Runs -> Steps]
           /\ ask' \in [Runs -> Asks] /\ seen' \in [Runs -> SUBSET Runs]
           /\ intent' \in [Runs -> Files] /\ receipt' \in [Runs -> Files]
           /\ effect' \in [Runs -> Effects] /\ outcome' \in [Runs -> Outcomes]
           /\ archived' \subseteq Runs /\ published' \subseteq Runs
           /\ prior' \in [Runs -> Runs \cup {NoRun}]
    PROVE  TypeOK'
  BY DEF TypeOK, Steps, Effects, Outcomes

\* The three ends of a step of the scan.
LEMMA ScanStep ==
    ASSUME TypeOK, NEW r \in Runs, CheckIdempotency(r)
    PROVE  \E q \in Runs \ ({r} \cup seen[r]) :
              \/ /\ Judge(r, q) = "skip"
                 /\ seen' = [seen EXCEPT ![r] = seen[r] \cup {q}]
                 /\ UNCHANGED <<pc, outcome, prior>>
              \/ /\ Judge(r, q) = "reuse"
                 /\ Decide(r, "reused_existing", "none")
                 /\ prior' = [prior EXCEPT ![r] = q]
                 /\ EndScan(r)
              \/ /\ \E blocker \in Blockers : Decide(r, "rejected", blocker)
                 /\ EndScan(r)
                 /\ UNCHANGED prior
  <1>1. \A q \in Runs : Judge(r, q) \notin {"skip", "reuse"}
                            => Judge(r, q) \in Blockers
    BY DEF Judge, Prior, Blockers
  <1> QED BY <1>1 DEF CheckIdempotency

LEMMA StepType ==
    ASSUME TypeOK, NEW r \in Runs, Progress(r) \/ Crash(r)
    PROVE  TypeOK'
  <1>1. CASE LockKey(r)
    <2>1. pc' \in [Runs -> Steps]
      BY <1>1, GoType DEF LockKey, Steps
    <2> QED BY TypeParts, TypePartsNext, <1>1, <2>1, AskFacts
        DEF LockKey, target, scan, evidence, history
  <1>2. CASE CheckIdempotency(r)
    <2>1. "reused_existing" \in Statuses /\ "rejected" \in Statuses
          /\ "none" \in Blockers
      BY DEF Statuses, Blockers
    <2>2. pc' \in [Runs -> Steps] /\ outcome' \in [Runs -> Outcomes]
      BY <1>2, <2>1, TypeParts, ScanStep, DecideType
    <2>3. seen' \in [Runs -> SUBSET Runs]
      BY <1>2, TypeParts, ScanStep DEF EndScan
    <2>4. prior' \in [Runs -> Runs \cup {NoRun}]
      BY <1>2, TypeParts, ScanStep
    <2> QED BY TypeParts, TypePartsNext, <1>2, <2>2, <2>3, <2>4
        DEF CheckIdempotency, target, evidence
  <1>3. CASE Validate(r)
    <2>1. "rejected" \in Statuses /\ "preconditions" \in Blockers
          /\ "intent" \in Steps
      BY DEF Statuses, Blockers, Steps
    <2>2. pc' \in [Runs -> Steps] /\ outcome' \in [Runs -> Outcomes]
      BY <1>3, <2>1, TypeParts, GoType, DecideType DEF Validate
    <2> QED BY TypeParts, TypePartsNext, <1>3, <2>2
        DEF Validate, EndScan, target, evidence, history
  <1>4. CASE WriteIntent(r)
    <2>1. pc' \in [Runs -> Steps]
      BY <1>4, GoType DEF WriteIntent, Steps
    <2> QED BY TypeParts, TypePartsNext, <1>4, <2>1
        DEF WriteIntent, Files, target, scan, history
  <1>5. CASE SyncIntent(r)
    <2>1. "validated_planned" \in Statuses /\ "none" \in Blockers
          /\ "broker" \in Steps
      BY DEF Statuses, Blockers, Steps
    <2>2. pc' \in [Runs -> Steps] /\ outcome' \in [Runs -> Outcomes]
      BY <1>5, <2>1, TypeParts, GoType, DecideType DEF SyncIntent
    <2> QED BY TypeParts, TypePartsNext, <1>5, <2>2
        DEF SyncIntent, Files, target, scan, history
  <1>6. CASE EnterBroker(r)
    <2>1. pc' \in [Runs -> Steps]
      BY <1>6, GoType DEF EnterBroker, Steps
    <2> QED BY TypeParts, TypePartsNext, <1>6, <2>1
        DEF EnterBroker, target, scan, evidence, history
  <1>7. CASE Examine(r)
    <2>1. "rejected" \in Statuses /\ "preconditions" \in Blockers
          /\ "archive" \in Steps /\ "applied_verified" \in Effects
          /\ "failed_no_effect" \in Effects
      BY DEF Statuses, Blockers, Steps, Effects
    <2>2. /\ pc' \in [Runs -> Steps] /\ outcome' \in [Runs -> Outcomes]
          /\ effect' \in [Runs -> Effects]
          /\ targetLock' \in Runs \cup {NoRun}
      BY <1>7, <2>1, TypeParts, GoType, DecideType, LeaveType, TargetReleased
      DEF Examine
    <2> QED BY TypeParts, TypePartsNext, <1>7, <2>2
        DEF Examine, target, scan, evidence, history
  <1>8. CASE Archive(r)
    <2>1. "swap" \in Steps /\ "failed_partial" \in Effects
      BY DEF Steps, Effects
    <2>2. /\ pc' \in [Runs -> Steps] /\ effect' \in [Runs -> Effects]
          /\ targetLock' \in Runs \cup {NoRun}
      BY <1>8, <2>1, TypeParts, GoType, LeaveType DEF Archive
    <2>3. stored' \subseteq Versions /\ archived' \subseteq Runs
      BY <1>8, AskFacts, TypeParts DEF Archive
    <2> QED BY TypeParts, TypePartsNext, <1>8, <2>2, <2>3
        DEF Archive, scan, evidence
  <1>9. CASE Swap(r)
    <2>1. "verify" \in Steps /\ {"failed_partial", "indeterminate"} \subseteq Effects
      BY DEF Steps, Effects
    <2>2. /\ pc' \in [Runs -> Steps] /\ effect' \in [Runs -> Effects]
          /\ targetLock' \in Runs \cup {NoRun}
      BY <1>9, <2>1, TypeParts, GoType, LeaveType DEF Swap
    <2>3. current' \in Versions /\ published' \subseteq Runs
      BY <1>9, AskFacts, TypeParts DEF Swap
    <2> QED BY TypeParts, TypePartsNext, <1>9, <2>2, <2>3
        DEF Swap, scan, evidence
  <1>10. CASE Verify(r)
    <2>1. {"applied_verified", "applied_unverified", "indeterminate"}
             \subseteq Effects
      BY DEF Effects
    <2>2. /\ pc' \in [Runs -> Steps] /\ effect' \in [Runs -> Effects]
          /\ targetLock' \in Runs \cup {NoRun}
      BY <1>10, <2>1, LeaveType DEF Verify
    <2> QED BY TypeParts, TypePartsNext, <1>10, <2>2
        DEF Verify, target, scan, evidence, history
  <1>11. CASE PostOperation(r)
    <2>1. \A verified \in BOOLEAN : TerminalStatus(r, verified) \in Statuses
      BY TypeParts DEF TerminalStatus, Statuses, Effects
    <2>2. PICK status \in Statuses : Decide(r, status, "none")
      BY <1>11, <2>1 DEF PostOperation, Complete
    <2>3. pc' \in [Runs -> Steps] /\ outcome' \in [Runs -> Outcomes]
      BY <2>2, DecideType DEF Blockers
    <2> QED BY TypeParts, TypePartsNext, <1>11, <2>3
        DEF PostOperation, target, scan, evidence, history
  <1>12. CASE WriteReceipt(r)
    <2>1. pc' \in [Runs -> Steps]
      BY <1>12, GoType DEF WriteReceipt, Steps
    <2> QED BY TypeParts, TypePartsNext, <1>12, <2>1
        DEF WriteReceipt, Files, target, scan, history
  <1>13. CASE SyncReceipt(r)
    <2>1. pc' \in [Runs -> Steps]
      BY <1>13, GoType DEF SyncReceipt, Steps
    <2> QED BY TypeParts, TypePartsNext, <1>13, <2>1, KeyReleased
        DEF SyncReceipt, Files, target, scan, history
  <1>14. CASE Crash(r)
    <2>1. pc' \in [Runs -> Steps]
      BY <1>14, GoType DEF Crash, Steps
    <2>2. Decision("none", "none") \in Outcomes /\ "none" \in Effects
      BY DEF Decision, Outcomes, Statuses, Blockers, Effects
    <2> QED BY TypeParts, TypePartsNext, <1>14, <2>1, <2>2, KeyReleased, TargetReleased
        DEF Crash, EndScan, target, evidence, history
  <1> QED BY <1>1, <1>2, <1>3, <1>4, <1>5, <1>6, <1>7, <1>8, <1>9, <1>10,
             <1>11, <1>12, <1>13, <1>14 DEF Progress

-----------------------------------------------------------------------------
(* Every step keeps the part of the run that takes it                       *)

\* What a run asked for and what it passed does not change.
LEMMA PassedStays ==
    ASSUME Inv, NEW r \in Runs, Frame(r), NEW q \in Runs \ {r}, Passed(r, q)
    PROVE  Passed(r, q)'
  BY DEF Frame, Passed, SameKey, SameRequest, Succeeded, Reported

\* After the scan, what it found is carried along.
LEMMA ScanKept ==
    ASSUME Inv, NEW r \in Runs, Frame(r), pc'[r] \notin {"start", "check"},
           pc'[r] \in Scanned => pc[r] \in Scanned,
           seen'[r] \in {seen[r], {}}
    PROVE  ScanHolds(r)'
  BY PassedStays DEF Inv, RunOK, ScanHolds

\* A status stays true as long as the run does nothing to the target.
LEMMA TruthKept ==
    ASSUME Inv, NEW r \in Runs, Frame(r), pc'[r] # "post",
           outcome'[r] = outcome[r], prior'[r] = prior[r],
           outcome[r].status # "none"
              => UNCHANGED <<intent, archived, published>>
    PROVE  Truthful(r)'
  <1>1. outcome[r].status = "reused_existing" =>
           Succeeded(prior[r])' /\ SameRequest(r, prior[r])'
    BY SuccessStays
    DEF Inv, RunOK, Truthful, Frame, Succeeded, Reported, SameRequest, SameKey
  <1>2. CASE outcome[r].status = "none"
    BY <1>2 DEF Truthful, Claims, Idle
  <1>3. CASE outcome[r].status # "none"
    BY <1>1, <1>3
    DEF Inv, RunOK, Truthful, Frame, Archived, Claims, Idle
  <1> QED BY <1>2, <1>3

\* A run that decides on a status that claims no result and no reuse.
LEMMA DecidedNothing ==
    ASSUME Inv, NEW r \in Runs, Frame(r), pc[r] \in Untried,
           pc'[r] = "receipt",
           outcome'[r].status \in {"rejected", "validated_planned"},
           UNCHANGED <<archived, published>>
    PROVE  Truthful(r)'
  BY DEF Inv, RunOK, Done, Truthful, Claims, Idle

LEMMA LockKeyOwn ==
    ASSUME Inv, NEW r \in Runs, LockKey(r)
    PROVE  RunOK(r)'
  <1> USE DEF Inv
  <1>0. Frame(r) /\ ask[r].key \in Keys
    BY StepFrame, AskFacts DEF Progress
  <1>1. /\ pc[r] = "start" /\ pc'[r] = "check" /\ seen' = seen
        /\ keyLock'[ask'[r].key] = r
        /\ UNCHANGED <<current, stored, ask, intent, receipt, effect, outcome,
                       archived, published, prior>>
    BY <1>0, TypeParts
    DEF LockKey, Go, target, scan, evidence, history
  <1>2. HoldsLocks(r)' /\ Written(r)' /\ Done(r)' /\ Expected(r)'
    BY <1>1 DEF RunOK, HoldsLocks, Written, Done, Expected
  <1>3. Truthful(r)'
    BY <1>0, <1>1, TruthKept
  <1>4. ScanHolds(r)'
    BY <1>1 DEF RunOK, ScanHolds
  <1> QED BY <1>2, <1>3, <1>4 DEF RunOK

\* What a scan passes over binds the key to this request and, for an
\* execution, is no success.
LEMMA SkipPasses ==
    ASSUME Inv, NEW r \in Runs, NEW q \in Runs \ {r}, Judge(r, q) = "skip"
    PROVE  Passed(r, q)
  <1> USE DEF Inv
  <1>1. CASE intent[q] # "complete" \/ ~SameKey(r, q)
    <2>1. Succeeded(q) => intent[q] = "complete"
      BY DEF RunOK, Truthful, Claims, Succeeded, Reported
    <2> QED BY <1>1, <2>1 DEF Passed
  <1>2. CASE intent[q] = "complete" /\ SameKey(r, q)
    <2>1. SameRequest(r, q)
      BY <1>2 DEF Judge
    <2>2. ask[r].execute => Prior(q) = "skip"
      BY <1>2, <2>1 DEF Judge
    <2>3. Succeeded(q) => Prior(q) # "skip"
      BY <1>2 DEF Prior, OnlyPlanned, Reported, Succeeded
    <2> QED BY <2>1, <2>2, <2>3 DEF Passed
  <1> QED BY <1>1, <1>2

\* A scan reuses only a verified success of the same request.
LEMMA ReuseSucceeded ==
    ASSUME NEW r \in Runs, NEW q \in Runs, Judge(r, q) = "reuse"
    PROVE  SameRequest(r, q) /\ Succeeded(q)
  <1>1. SameRequest(r, q) /\ Prior(q) = "reuse"
    BY DEF Judge
  <1>2. Succeeded(q)
    BY <1>1 DEF Prior, Succeeded
  <1> QED BY <1>1, <1>2

LEMMA CheckIdempotencyOwn ==
    ASSUME Inv, NEW r \in Runs, CheckIdempotency(r)
    PROVE  RunOK(r)'
  <1> USE DEF Inv
  <1>1. Frame(r) /\ pc[r] = "check"
    BY StepFrame DEF Progress, CheckIdempotency
  <1>2. UNCHANGED <<current, stored, keyLock, targetLock, ask, intent, receipt,
                    effect, archived, published>>
    BY DEF CheckIdempotency, target, evidence
  <1>3. PICK q \in Runs \ ({r} \cup seen[r]) :
           \/ /\ Judge(r, q) = "skip"
              /\ seen' = [seen EXCEPT ![r] = seen[r] \cup {q}]
              /\ UNCHANGED <<pc, outcome, prior>>
           \/ /\ Judge(r, q) = "reuse"
              /\ Decide(r, "reused_existing", "none")
              /\ prior' = [prior EXCEPT ![r] = q]
              /\ EndScan(r)
           \/ /\ \E blocker \in Blockers : Decide(r, "rejected", blocker)
              /\ EndScan(r)
              /\ UNCHANGED prior
    BY ScanStep
  <1>4. \/ /\ Judge(r, q) = "skip" /\ pc'[r] = "check"
           /\ seen'[r] = seen[r] \cup {q}
           /\ outcome'[r] = outcome[r] /\ prior'[r] = prior[r]
        \/ /\ Judge(r, q) = "reuse" /\ pc'[r] = "receipt"
           /\ outcome'[r].status = "reused_existing" /\ prior'[r] = q
           /\ seen'[r] = {}
        \/ /\ pc'[r] = "receipt" /\ outcome'[r].status = "rejected"
           /\ seen'[r] = {}
    <2>1. "reused_existing" \in Statuses /\ "rejected" \in Statuses
          /\ "none" \in Blockers
      BY DEF Statuses, Blockers
    <2> QED BY <1>1, <1>3, <2>1, TypeParts, DecideType DEF EndScan
  <1>5. HoldsLocks(r)' /\ Written(r)' /\ Done(r)' /\ Expected(r)'
    BY <1>1, <1>2, <1>4
    DEF RunOK, HoldsLocks, Written, Done, Expected
  <1>6. Truthful(r)'
    <2>1. CASE pc'[r] = "check"
      BY <1>1, <1>2, <1>4, <2>1, TruthKept
    <2>2. CASE pc'[r] = "receipt" /\ outcome'[r].status = "rejected"
      BY <1>1, <1>2, <2>2, DecidedNothing
    <2>3. CASE pc'[r] = "receipt" /\ outcome'[r].status = "reused_existing"
      <3>1. prior'[r] = q /\ SameRequest(r, q)' /\ Succeeded(q)'
        BY <1>1, <1>2, <1>4, <2>3, ReuseSucceeded, SuccessStays
        DEF SameRequest, SameKey
      <3> QED BY <1>1, <1>2, <2>3, <3>1
          DEF RunOK, Done, Truthful, Claims, Idle, Succeeded, Reported,
              SameRequest, SameKey
    <2> QED BY <1>4, <2>1, <2>2, <2>3
  <1>7. ScanHolds(r)'
    <2>1. CASE pc'[r] = "check"
      <3>1. Passed(r, q)'
        BY <1>1, <1>4, <2>1, SkipPasses, PassedStays
      <3>2. \A p \in seen[r] : Passed(r, p)'
        BY <1>1, PassedStays DEF RunOK, ScanHolds
      <3> QED BY <1>4, <2>1, <3>1, <3>2 DEF RunOK, ScanHolds
    <2>2. CASE pc'[r] = "receipt"
      BY <1>1, <1>4, <2>2, ScanKept
    <2> QED BY <1>4, <2>1, <2>2
  <1> QED BY <1>5, <1>6, <1>7 DEF RunOK

LEMMA ValidateOwn ==
    ASSUME Inv, NEW r \in Runs, Validate(r)
    PROVE  RunOK(r)'
  <1> USE DEF Inv
  <1>1. Frame(r) /\ pc[r] = "check" /\ seen[r] = Runs \ {r}
    BY StepFrame DEF Progress, Validate
  <1>2. UNCHANGED <<current, stored, keyLock, targetLock, ask, intent, receipt,
                    effect, archived, published, prior>>
    BY DEF Validate, target, evidence, history
  <1>3. /\ seen'[r] = {}
        /\ \/ /\ Preconditions(ask[r]) /\ pc'[r] = "intent"
              /\ outcome'[r] = outcome[r]
           \/ pc'[r] = "receipt" /\ outcome'[r].status = "rejected"
    <2>1. "rejected" \in Statuses /\ "preconditions" \in Blockers
          /\ "intent" \in Steps
      BY DEF Statuses, Blockers, Steps
    <2> QED BY <2>1, TypeParts, GoType, DecideType DEF Validate, EndScan
  <1>4. HoldsLocks(r)' /\ Written(r)' /\ Done(r)' /\ Expected(r)'
    BY <1>1, <1>2, <1>3
    DEF RunOK, HoldsLocks, Written, Done, Expected, Preconditions
  <1>5. Truthful(r)'
    BY <1>1, <1>2, <1>3, TruthKept, DecidedNothing
  <1>6. ScanHolds(r)'
    BY <1>1, <1>3, PassedStays DEF RunOK, ScanHolds
  <1> QED BY <1>4, <1>5, <1>6 DEF RunOK

LEMMA WriteIntentOwn ==
    ASSUME Inv, NEW r \in Runs, WriteIntent(r)
    PROVE  RunOK(r)'
  <1> USE DEF Inv
  <1>1. Frame(r) /\ pc[r] = "intent"
    BY StepFrame DEF Progress, WriteIntent
  <1>2. /\ pc'[r] = "intent_sync" /\ intent'[r] = "torn"
        /\ UNCHANGED <<current, stored, keyLock, targetLock, ask, seen, receipt,
                       effect, outcome, archived, published, prior>>
    BY TypeParts, GoType DEF WriteIntent, Steps, target, scan, history
  <1>3. HoldsLocks(r)' /\ Written(r)' /\ Done(r)' /\ Expected(r)'
    BY <1>1, <1>2 DEF RunOK, HoldsLocks, Written, Done, Expected
  <1>4. Truthful(r)'
    BY <1>1, <1>2, TruthKept DEF RunOK, Written
  <1>5. ScanHolds(r)'
    BY <1>1, <1>2, ScanKept
  <1> QED BY <1>3, <1>4, <1>5 DEF RunOK

LEMMA SyncIntentOwn ==
    ASSUME Inv, NEW r \in Runs, SyncIntent(r)
    PROVE  RunOK(r)'
  <1> USE DEF Inv
  <1>1. Frame(r) /\ pc[r] = "intent_sync"
    BY StepFrame DEF Progress, SyncIntent
  <1>2. /\ intent'[r] = "complete"
        /\ UNCHANGED <<current, stored, keyLock, targetLock, ask, seen, receipt,
                       effect, archived, published, prior>>
        /\ \/ ask[r].execute /\ pc'[r] = "broker" /\ outcome' = outcome
           \/ pc'[r] = "receipt" /\ outcome'[r].status = "validated_planned"
    <2>1. "validated_planned" \in Statuses /\ "none" \in Blockers
          /\ "broker" \in Steps
      BY DEF Statuses, Blockers, Steps
    <2> QED BY <2>1, TypeParts, GoType, DecideType
        DEF SyncIntent, target, scan, history
  <1>4. HoldsLocks(r)' /\ Written(r)' /\ Done(r)'
    BY <1>1, <1>2 DEF RunOK, HoldsLocks, Written, Done
  <1>5. Expected(r)'
    BY <1>1, <1>2 DEF RunOK, Written, Expected
  <1>6. Truthful(r)'
    BY <1>1, <1>2, TruthKept, DecidedNothing DEF RunOK, Written
  <1>7. ScanHolds(r)'
    BY <1>1, <1>2, ScanKept
  <1> QED BY <1>4, <1>5, <1>6, <1>7 DEF RunOK

LEMMA EnterBrokerOwn ==
    ASSUME Inv, NEW r \in Runs, EnterBroker(r)
    PROVE  RunOK(r)'
  <1> USE DEF Inv
  <1>1. Frame(r) /\ pc[r] = "broker"
    BY StepFrame DEF Progress, EnterBroker
  <1>2. /\ pc'[r] = "examine" /\ targetLock' = r
        /\ UNCHANGED <<current, stored, keyLock, ask, seen, intent, receipt,
                       effect, outcome, archived, published, prior>>
    BY TypeParts, GoType
    DEF EnterBroker, Steps, target, scan, evidence, history
  <1>3. HoldsLocks(r)' /\ Written(r)' /\ Done(r)' /\ Expected(r)'
    BY <1>1, <1>2 DEF RunOK, HoldsLocks, Written, Done, Expected
  <1>4. Truthful(r)'
    BY <1>1, <1>2, TruthKept
  <1>5. ScanHolds(r)'
    BY <1>1, <1>2, ScanKept
  <1> QED BY <1>3, <1>4, <1>5 DEF RunOK

\* A run that leaves the broker with a status that is so.
LEMMA LeftTruthful ==
    ASSUME Inv, NEW r \in Runs, Frame(r), pc[r] \in Brokered, pc'[r] = "post",
           outcome' = outcome,
           effect'[r] \in {"applied_verified", "applied_unverified"}
              => Archived(ask[r])',
           effect'[r] = "failed_no_effect"
              => r \notin published' /\ r \notin archived',
           effect'[r] = "failed_partial" => r \notin published'
    PROVE  Truthful(r)'
  BY DEF Inv, RunOK, Written, Frame, Truthful, Claims, Idle

LEMMA ExamineOwn ==
    ASSUME Inv, NEW r \in Runs, Examine(r)
    PROVE  RunOK(r)'
  <1> USE DEF Inv
  <1>1. Frame(r) /\ pc[r] = "examine"
    BY StepFrame DEF Progress, Examine
  <1>2. UNCHANGED <<current, stored, keyLock, ask, seen, intent, receipt,
                    archived, published, prior>>
    BY DEF Examine, target, scan, evidence, history
  <1>3. \/ pc'[r] = "receipt" /\ outcome'[r].status = "rejected"
        \/ /\ pc'[r] = "post" /\ Complete(ask[r])
           /\ effect'[r] = "applied_verified" /\ outcome' = outcome
        \/ /\ pc'[r] = "post" /\ effect'[r] = "failed_no_effect"
           /\ outcome' = outcome
        \/ /\ pc'[r] = "archive" /\ current = ask[r].old
           /\ UNCHANGED <<targetLock, outcome>>
    <2>1. "rejected" \in Statuses /\ "preconditions" \in Blockers
          /\ "archive" \in Steps /\ "applied_verified" \in Effects
          /\ "failed_no_effect" \in Effects
      BY DEF Statuses, Blockers, Steps, Effects
    <2> QED BY <2>1, TypeParts, GoType, DecideType, LeaveType DEF Examine
  <1>4. HoldsLocks(r)' /\ Written(r)' /\ Done(r)' /\ Expected(r)'
    BY <1>1, <1>2, <1>3 DEF RunOK, HoldsLocks, Written, Done, Expected
  <1>5. Truthful(r)'
    <2>1. r \notin archived' /\ r \notin published'
      BY <1>1, <1>2 DEF RunOK, Done
    <2>2. CASE pc'[r] = "post"
      BY <1>1, <1>2, <1>3, <2>1, <2>2, LeftTruthful DEF Complete, Archived
    <2>3. CASE pc'[r] # "post"
      BY <1>1, <1>2, <1>3, <2>3, TruthKept, DecidedNothing
    <2> QED BY <2>2, <2>3
  <1>6. ScanHolds(r)'
    BY <1>1, <1>2, <1>3, ScanKept
  <1> QED BY <1>4, <1>5, <1>6 DEF RunOK

LEMMA ArchiveOwn ==
    ASSUME Inv, NEW r \in Runs, Archive(r)
    PROVE  RunOK(r)'
  <1> USE DEF Inv
  <1>1. Frame(r) /\ pc[r] = "archive"
    BY StepFrame DEF Progress, Archive
  <1>2. UNCHANGED <<current, keyLock, ask, seen, intent, receipt, outcome,
                    published, prior>>
    BY DEF Archive, scan, evidence
  <1>3. \/ pc'[r] = "archive" /\ targetLock' = targetLock
        \/ pc'[r] = "swap" /\ targetLock' = targetLock /\ Archived(ask[r])
        \/ pc'[r] = "post" /\ effect'[r] = "failed_partial"
    <2>1. "swap" \in Steps /\ "failed_partial" \in Effects
      BY DEF Steps, Effects
    <2> QED BY <1>1, <2>1, GoType, LeaveType DEF Archive, Archived
  <1>4. HoldsLocks(r)' /\ Written(r)' /\ Done(r)' /\ Expected(r)'
    BY <1>1, <1>2, <1>3
    DEF RunOK, HoldsLocks, Written, Done, Expected, Frame, Archived
  <1>5. Truthful(r)'
    <2>1. CASE pc'[r] = "post"
      BY <1>1, <1>2, <1>3, <2>1, LeftTruthful DEF RunOK, Done
    <2>2. CASE pc'[r] # "post"
      BY <1>1, <1>2, <2>2, TruthKept DEF RunOK, Written
    <2> QED BY <2>1, <2>2
  <1>6. ScanHolds(r)'
    BY <1>1, <1>2, <1>3, ScanKept
  <1> QED BY <1>4, <1>5, <1>6 DEF RunOK

LEMMA SwapOwn ==
    ASSUME Inv, NEW r \in Runs, Swap(r)
    PROVE  RunOK(r)'
  <1> USE DEF Inv
  <1>1. Frame(r) /\ pc[r] = "swap"
    BY StepFrame DEF Progress, Swap
  <1>2. UNCHANGED <<stored, keyLock, ask, seen, intent, receipt, outcome,
                    archived, prior>>
    BY DEF Swap, scan, evidence
  <1>3. \/ pc'[r] = "verify" /\ targetLock' = targetLock
        \/ /\ pc'[r] = "post" /\ published' = published
           /\ effect'[r] \in {"failed_partial", "indeterminate"}
    <2>1. /\ "verify" \in Steps
          /\ {"failed_partial", "indeterminate"} \subseteq Effects
      BY DEF Steps, Effects
    <2> QED BY <2>1, GoType, LeaveType DEF Swap
  <1>4. HoldsLocks(r)' /\ Written(r)' /\ Done(r)'
    BY <1>1, <1>2, <1>3
    DEF RunOK, HoldsLocks, Written, Done, Archived
  <1>5. Expected(r)'
    BY <1>1, <1>2 DEF RunOK, Done, Expected, Archived
  <1>6. Truthful(r)'
    <2>1. CASE pc'[r] = "post"
      BY <1>1, <1>2, <1>3, <2>1, LeftTruthful DEF RunOK, Done
    <2>2. CASE pc'[r] # "post"
      BY <1>1, <1>2, <2>2, TruthKept DEF RunOK, Written
    <2> QED BY <2>1, <2>2
  <1>7. ScanHolds(r)'
    BY <1>1, <1>2, <1>3, ScanKept
  <1> QED BY <1>4, <1>5, <1>6, <1>7 DEF RunOK

LEMMA VerifyOwn ==
    ASSUME Inv, NEW r \in Runs, Verify(r)
    PROVE  RunOK(r)'
  <1> USE DEF Inv
  <1>1. Frame(r) /\ pc[r] = "verify"
    BY StepFrame DEF Progress, Verify
  <1>2. UNCHANGED <<current, stored, keyLock, ask, seen, intent, receipt,
                    outcome, archived, published, prior>>
    BY DEF Verify, target, scan, evidence, history
  <1>3. /\ pc'[r] = "post"
        /\ effect'[r] \in {"applied_verified", "applied_unverified",
                           "indeterminate"}
    <2>1. {"applied_verified", "applied_unverified", "indeterminate"}
             \subseteq Effects
      BY DEF Effects
    <2> QED BY <2>1, LeaveType DEF Verify
  <1>4. HoldsLocks(r)' /\ Written(r)' /\ Done(r)' /\ Expected(r)'
    BY <1>1, <1>2, <1>3 DEF RunOK, HoldsLocks, Written, Done, Expected
  <1>5. Truthful(r)'
    BY <1>1, <1>2, <1>3, LeftTruthful DEF RunOK, Done, Archived
  <1>6. ScanHolds(r)'
    BY <1>1, <1>2, <1>3, ScanKept
  <1> QED BY <1>4, <1>5, <1>6 DEF RunOK

\* The terminal status claims a result only for an effect that has one, and
\* a failure only as the effect receipt has it.
LEMMA StatusFollowsEffect ==
    ASSUME NEW r \in Runs, effect[r] \in Effects, NEW verified \in BOOLEAN
    PROVE  /\ TerminalStatus(r, verified) \in Statuses \ {"reused_existing"}
           /\ TerminalStatus(r, verified) \in Claims
                 => effect[r] \in {"applied_verified", "applied_unverified"}
           /\ TerminalStatus(r, verified) \in Idle
                 => effect[r] = "failed_no_effect"
           /\ TerminalStatus(r, verified) = "failed_partial"
                 => effect[r] = "failed_partial"
  BY DEF TerminalStatus, Statuses, Effects, Claims, Idle

LEMMA PostOperationOwn ==
    ASSUME Inv, NEW r \in Runs, PostOperation(r)
    PROVE  RunOK(r)'
  <1> USE DEF Inv
  <1>1. Frame(r) /\ pc[r] = "post"
    BY StepFrame DEF Progress, PostOperation
  <1>2. UNCHANGED <<current, stored, keyLock, targetLock, ask, seen, intent,
                    receipt, effect, archived, published, prior>>
    BY DEF PostOperation, target, scan, evidence, history
  <1>3. PICK verified \in BOOLEAN :
           Decide(r, TerminalStatus(r, verified), "none")
    BY DEF PostOperation, Complete
  <1>4. effect[r] \in Effects /\ "none" \in Blockers
    BY TypeParts DEF Blockers
  <1>5. TerminalStatus(r, verified) \in Statuses \ {"reused_existing"}
    BY <1>4, StatusFollowsEffect
  <1>6. /\ pc'[r] = "receipt"
        /\ outcome'[r].status = TerminalStatus(r, verified)
    BY <1>3, <1>4, <1>5, DecideType
  <1>7. HoldsLocks(r)' /\ Written(r)' /\ Done(r)' /\ Expected(r)'
    BY <1>1, <1>2, <1>6 DEF RunOK, HoldsLocks, Written, Done, Expected
  <1>8. Truthful(r)'
    <2>1. /\ outcome'[r].status \in Claims
                => effect[r] \in {"applied_verified", "applied_unverified"}
          /\ outcome'[r].status \in Idle => effect[r] = "failed_no_effect"
          /\ outcome'[r].status = "failed_partial"
                => effect[r] = "failed_partial"
          /\ outcome'[r].status # "reused_existing"
      BY <1>4, <1>5, <1>6, StatusFollowsEffect
    <2>2. intent[r] = "complete"
      BY <1>1 DEF RunOK, Written
    <2> QED BY <1>1, <1>2, <1>6, <2>1, <2>2 DEF RunOK, Truthful, Archived
  <1>9. ScanHolds(r)'
    BY <1>1, <1>2, <1>6, ScanKept
  <1> QED BY <1>7, <1>8, <1>9 DEF RunOK

LEMMA WriteReceiptOwn ==
    ASSUME Inv, NEW r \in Runs, WriteReceipt(r)
    PROVE  RunOK(r)'
  <1> USE DEF Inv
  <1>1. Frame(r) /\ pc[r] = "receipt"
    BY StepFrame DEF Progress, WriteReceipt
  <1>2. /\ pc'[r] = "receipt_sync" /\ receipt'[r] = "torn"
        /\ UNCHANGED <<current, stored, keyLock, targetLock, ask, seen, intent,
                       effect, outcome, archived, published, prior>>
    BY TypeParts, GoType DEF WriteReceipt, Steps, target, scan, history
  <1>3. HoldsLocks(r)' /\ Written(r)' /\ Done(r)' /\ Expected(r)'
    BY <1>1, <1>2 DEF RunOK, HoldsLocks, Written, Done, Expected
  <1>4. Truthful(r)'
    BY <1>1, <1>2, TruthKept
  <1>5. ScanHolds(r)'
    BY <1>1, <1>2, ScanKept
  <1> QED BY <1>3, <1>4, <1>5 DEF RunOK

LEMMA SyncReceiptOwn ==
    ASSUME Inv, NEW r \in Runs, SyncReceipt(r)
    PROVE  RunOK(r)'
  <1> USE DEF Inv
  <1>1. Frame(r) /\ pc[r] = "receipt_sync"
    BY StepFrame DEF Progress, SyncReceipt
  <1>2. /\ pc'[r] = "done"
        /\ UNCHANGED <<current, stored, targetLock, ask, seen, intent,
                       effect, outcome, archived, published, prior>>
    BY GoType DEF SyncReceipt, Steps, target, scan, history
  <1>3. HoldsLocks(r)' /\ Written(r)' /\ Done(r)' /\ Expected(r)'
    BY <1>1, <1>2 DEF RunOK, HoldsLocks, Written, Done, Expected
  <1>4. Truthful(r)'
    BY <1>1, <1>2, TruthKept
  <1>5. ScanHolds(r)'
    BY <1>1, <1>2, ScanKept
  <1> QED BY <1>3, <1>4, <1>5 DEF RunOK

LEMMA CrashOwn ==
    ASSUME Inv, NEW r \in Runs, Crash(r)
    PROVE  RunOK(r)'
  <1> USE DEF Inv
  <1>1. Frame(r) /\ pc[r] \in Keyed
    BY StepFrame DEF Crash
  <1>2. /\ pc'[r] = "crashed" /\ seen'[r] = {}
        /\ outcome'[r].status = "none"
        /\ UNCHANGED <<current, stored, ask, intent, receipt, archived,
                       published, prior>>
    BY TypeParts, GoType
    DEF Crash, Decision, EndScan, Steps, target, evidence, history
  <1>3. HoldsLocks(r)' /\ Written(r)' /\ Done(r)'
    BY <1>1, <1>2 DEF RunOK, HoldsLocks, Written, Done
  <1>4. Expected(r)'
    BY <1>1, <1>2 DEF RunOK, Expected
  <1>5. Truthful(r)'
    BY <1>2 DEF Truthful, Claims, Idle
  <1>6. ScanHolds(r)'
    BY <1>1, <1>2, ScanKept
  <1> QED BY <1>3, <1>4, <1>5, <1>6 DEF RunOK

-----------------------------------------------------------------------------
(* The invariant is inductive                                               *)

LEMMA InitInv == Init => Inv
  <1> SUFFICES ASSUME Init PROVE Inv
    OBVIOUS
  <1>1. TypeOK
    BY CoreConstants DEF Init, TypeOK, Files, Decision, Statuses, Blockers
  <1>2. ASSUME NEW r \in Runs PROVE RunOK(r)
    BY DEF Init, RunOK, HoldsLocks, Written, Done, Truthful, ScanHolds,
           Expected, Claims, Idle, Decision
  <1>3. KeyBindsOneRequest /\ PublishedIsStored
    BY DEF Init, KeyBindsOneRequest, PublishedIsStored
  <1> QED BY <1>1, <1>2, <1>3 DEF Inv

LEMMA StepOwn ==
    ASSUME Inv, NEW r \in Runs, Progress(r) \/ Crash(r)
    PROVE  RunOK(r)'
  BY LockKeyOwn, CheckIdempotencyOwn, ValidateOwn, WriteIntentOwn,
     SyncIntentOwn, EnterBrokerOwn, ExamineOwn, ArchiveOwn, SwapOwn, VerifyOwn,
     PostOperationOwn, WriteReceiptOwn, SyncReceiptOwn, CrashOwn
  DEF Progress

\* Only a synced intent becomes complete, and its scan has compared the others.
LEMMA KeyStaysBound ==
    ASSUME Inv, NEW r \in Runs, Progress(r) \/ Crash(r)
    PROVE  KeyBindsOneRequest'
  <1> USE DEF Inv
  <1>1. Frame(r)
    BY StepFrame
  <1>2. CASE SyncIntent(r)
    <2>1. \A q \in Runs \ {r} : Passed(r, q)
      BY <1>2 DEF SyncIntent, RunOK, ScanHolds
    <2> QED BY <1>1, <2>1
        DEF Frame, KeyBindsOneRequest, Passed, SameKey, SameRequest
  <1>3. CASE ~SyncIntent(r)
    <2>1. intent'[r] = "complete" => intent[r] = "complete"
      BY <1>3, TypeParts
      DEF Progress, LockKey, CheckIdempotency, Validate, WriteIntent,
          EnterBroker, Examine, Archive, Swap, Verify, PostOperation,
          WriteReceipt, SyncReceipt, Crash, evidence
    <2> QED BY <1>1, <2>1
        DEF Frame, KeyBindsOneRequest, SameKey, SameRequest
  <1> QED BY <1>2, <1>3

\* A swap puts a version in place that the run has archived.
LEMMA PublishedStaysStored ==
    ASSUME Inv, NEW r \in Runs, Progress(r) \/ Crash(r)
    PROVE  PublishedIsStored'
  <1> USE DEF Inv
  <1>1. Frame(r)
    BY StepFrame
  <1>2. CASE pc[r] = "swap"
    <2>1. ask[r].new \in stored
      BY <1>2 DEF RunOK, Done, Archived
    <2>2. \/ current' = ask[r].new
          \/ UNCHANGED <<current, published>>
      BY <1>2 DEF Progress, LockKey, CheckIdempotency, Validate, WriteIntent,
         SyncIntent, EnterBroker, Examine, Archive, Swap, Verify,
         PostOperation, WriteReceipt, SyncReceipt, Crash, target, history
    <2> QED BY <1>1, <2>1, <2>2 DEF Frame, PublishedIsStored
  <1>3. CASE pc[r] # "swap"
    BY <1>1, <1>3 DEF Frame, PublishedIsStored
  <1> QED BY <1>2, <1>3

LEMMA NextInv == Inv /\ [Next]_vars => Inv'
  <1> SUFFICES ASSUME Inv, [Next]_vars PROVE Inv'
    OBVIOUS
  <1>1. ASSUME NEW r \in Runs, Progress(r) \/ Crash(r) PROVE Inv'
    <2>1. TypeOK'
      BY <1>1, StepType DEF Inv
    <2>2. \A q \in Runs : RunOK(q)'
      BY <1>1, StepOwn, StepFrame, OthersKeep DEF Inv
    <2>3. KeyBindsOneRequest' /\ PublishedIsStored'
      BY <1>1, KeyStaysBound, PublishedStaysStored
    <2> QED BY <2>1, <2>2, <2>3 DEF Inv
  <1>2. CASE UNCHANGED vars
    BY <1>2
    DEF Inv, TypeOK, RunOK, HoldsLocks, Written, Done, Truthful, ScanHolds,
        Expected, Passed, Succeeded, Reported, SameKey, SameRequest, Archived,
        KeyBindsOneRequest, PublishedIsStored, vars, target, scan, evidence,
        history
  <1> QED BY <1>1, <1>2 DEF Next

\* The invariant holds in every reachable state.
LEMMA Invariance == Spec => []Inv
  <1> QED BY InitInv, NextInv, PTL DEF Spec

-----------------------------------------------------------------------------
(* The theorems                                                             *)

\* Every variable keeps its type: no step of run, no failure and no death
\* leaves the vocabulary of the model.
THEOREM TypeCorrect == Spec => []TypeOK
  <1>1. Inv => TypeOK
    BY DEF Inv
  <1> QED BY <1>1, Invariance, PTL

\* However many runs share an evidence root, whatever their scans overlap
\* with and whenever they die, two durable intents never give one key to two
\* requests: _check_idempotency under the lock of the key sees to it.
THEOREM KeysBindOneRequest == Spec => []KeyBindsOneRequest
  <1>1. Inv => KeyBindsOneRequest
    BY DEF Inv
  <1> QED BY <1>1, Invariance, PTL

\* Whatever a receipt on disk claims about the target and about the run whose
\* success it reuses is so: what _executed_receipt and _rejection_receipt
\* decide, long after the effect and under no target lock, is still true.
THEOREM ReceiptsTrue == Spec => []ReceiptsAreTrue
  <1>1. Inv => ReceiptsAreTrue
    <2> SUFFICES ASSUME Inv PROVE ReceiptsAreTrue
      OBVIOUS
    <2>1. ASSUME NEW r \in Runs PROVE Truthful(r)
      BY DEF Inv, RunOK
    <2> QED BY <2>1, CoreConstants
        DEF ReceiptsAreTrue, Truthful, Claims, Idle, Succeeded
  <1> QED BY <1>1, Invariance, PTL

\* A run that died at any step after its intent finds a classification that
\* lets a retry proceed, as long as only Phase has moved the file on.
THEOREM CrashesAreRetryable == Spec => []CrashIsRetryable
  <1>1. Inv => CrashIsRetryable
    <2> SUFFICES ASSUME Inv, NEW r \in Runs, intent[r] = "complete",
                        receipt[r] = "absent",
                        \/ current = ask[r].old
                        \/ current = ask[r].new /\ published # {}
                 PROVE  Resumable(r)
      BY DEF CrashIsRetryable
    <2>1. CASE current = ask[r].old
      BY <2>1 DEF Resumable, Classify
    <2>2. CASE current # ask[r].old
      <3>1. current = ask[r].new /\ Archived(ask[r])
        BY <2>2 DEF Inv, RunOK, Expected, PublishedIsStored, Archived
      <3> QED BY <2>2, <3>1 DEF Resumable, Classify, Complete
    <2> QED BY <2>1, <2>2
  <1> QED BY <1>1, Invariance, PTL

\* From the moment a verified success is on disk, no run of the same key and
\* request archives or publishes: the lock of the key is held from the scan
\* to the receipt, so a run that has scanned before has also ended before.
THEOREM SuccessesAreFinal == Spec => SuccessIsFinal
  <1> DEFINE Untouched ==
         \A r, q \in Runs :
            Reported(q, "succeeded_verified") /\ SameKey(r, q)
               => /\ r \in published' => r \in published
                  /\ r \in archived' => r \in archived
  <1>1. Inv /\ [Next]_vars => Untouched
    <2> SUFFICES ASSUME Inv, [Next]_vars, NEW r \in Runs, NEW q \in Runs,
                        Succeeded(q), SameKey(r, q)
                 PROVE  /\ r \in published' => r \in published
                        /\ r \in archived' => r \in archived
      BY DEF Succeeded
    <2>1. CASE UNCHANGED vars
      BY <2>1 DEF vars, history
    <2>2. ASSUME NEW p \in Runs, Progress(p) \/ Crash(p), p # r
          PROVE  /\ r \in published' => r \in published
                 /\ r \in archived' => r \in archived
      BY <2>2, StepFrame DEF Inv, Frame
    <2>3. ASSUME Progress(r) \/ Crash(r)
          PROVE  UNCHANGED <<published, archived>>
      <3>1. pc[r] \notin {"archive", "swap"}
        BY DEF Inv, RunOK, Written, ScanHolds, Passed, Succeeded, Reported
      <3> QED BY <2>3, <3>1
          DEF Progress, LockKey, CheckIdempotency, Validate, WriteIntent,
              SyncIntent, EnterBroker, Examine, Archive, Swap, Verify,
              PostOperation, WriteReceipt, SyncReceipt, Crash, history
    <2> QED BY <2>1, <2>2, <2>3 DEF Next
  <1> QED BY <1>1, Invariance, PTL DEF Spec, SuccessIsFinal

\* Post-operation validation reads the file after the root lock is given back, and
\* the idempotency check never held it: even so the verified success that a run
\* decides on is in place when it decides, and no published run denies its effect.
THEOREM VerifiedSuccessWasSeen == Spec => SuccessWasSeen
  <1> DEFINE Seen ==
         \A r \in Runs :
            LET told == outcome'[r].status IN
            outcome[r].status = "none" =>
               /\ told \in {"succeeded_verified", "reused_existing"}
                     => current = ask[r].new /\ Archived(ask[r])
               /\ told # "none" /\ r \in published
                     => told \in {"succeeded_verified", "committed_unverified",
                                  "indeterminate"}
  <1>1. Inv /\ [Next]_vars => Seen
    <2> SUFFICES ASSUME Inv, [Next]_vars, NEW r \in Runs,
                        outcome[r].status = "none", outcome'[r].status # "none"
                 PROVE  /\ outcome'[r].status \in {"succeeded_verified", "reused_existing"}
                              => current = ask[r].new /\ Archived(ask[r])
                        /\ r \in published
                              => outcome'[r].status \in
                                    {"succeeded_verified", "committed_unverified",
                                     "indeterminate"}
      OBVIOUS
    <2> USE DEF Inv
    <2>1. Progress(r) \/ Crash(r)
      <3>1. ASSUME NEW p \in Runs, Progress(p) \/ Crash(p), p # r
            PROVE  outcome'[r] = outcome[r]
        BY <3>1, StepFrame DEF Frame
      <3> QED BY <3>1 DEF Next, vars
    <2>2. ASSUME NEW status \in Statuses, NEW blocker, Decide(r, status, blocker)
          PROVE  outcome'[r].status = status
      BY <2>2 DEF Decide, Decision, TypeOK
    <2>3. CASE CheckIdempotency(r)
      <3>1. PICK q \in Runs :
               \/ /\ Judge(r, q) = "reuse" /\ Decide(r, "reused_existing", "none")
               \/ \E blocker : Decide(r, "rejected", blocker)
        BY <2>3 DEF CheckIdempotency
      <3>2. r \notin published
        BY <2>3 DEF CheckIdempotency, RunOK, Done
      <3>3. Judge(r, q) = "reuse" => Complete(ask[q]) /\ SameRequest(r, q)
        BY DEF Judge, Prior
      <3> QED BY <2>2, <3>1, <3>2, <3>3
          DEF Complete, SameRequest, Archived, Statuses
    <2>4. CASE PostOperation(r)
      <3>1. /\ pc[r] = "post" /\ effect[r] \in Effects
            /\ Decide(r, TerminalStatus(r, Complete(ask[r])), "none")
        BY <2>4, TypeParts DEF PostOperation
      <3>2. TerminalStatus(r, Complete(ask[r])) \in Statuses \ {"reused_existing"}
        <4>1. Complete(ask[r]) \in BOOLEAN
          BY DEF Complete
        <4> QED BY <3>1, <4>1, StatusFollowsEffect
      <3>3. TerminalStatus(r, Complete(ask[r])) = "succeeded_verified"
               => Complete(ask[r])
        <4> SUFFICES ASSUME ~Complete(ask[r])
                     PROVE  TerminalStatus(r, Complete(ask[r])) # "succeeded_verified"
          OBVIOUS
        <4> QED BY <3>1 DEF TerminalStatus, Effects
      <3>4. r \in published =>
               TerminalStatus(r, Complete(ask[r])) \in
                  {"none", "succeeded_verified", "committed_unverified", "indeterminate"}
        BY <3>1 DEF RunOK, Truthful, TerminalStatus, Effects
      <3> QED BY <2>2, <3>1, <3>2, <3>3, <3>4 DEF Complete
    <2>5. CASE Validate(r) \/ SyncIntent(r) \/ Examine(r)
      <3>1. r \notin published
        BY <2>5 DEF Validate, SyncIntent, Examine, RunOK, Done
      <3>2. \E blocker : \/ Decide(r, "rejected", blocker)
                         \/ Decide(r, "validated_planned", blocker)
        BY <2>5 DEF Validate, SyncIntent, Examine
      <3> QED BY <2>2, <3>1, <3>2 DEF Statuses
    <2>6. CASE Crash(r)
      BY <2>6 DEF Crash, Decision, TypeOK
    <2> QED BY <2>1, <2>3, <2>4, <2>5, <2>6
        DEF Progress, LockKey, WriteIntent, EnterBroker, Archive, Swap, Verify,
            WriteReceipt, SyncReceipt
  <1> QED BY <1>1, Invariance, PTL DEF Spec, SuccessWasSeen

-----------------------------------------------------------------------------
(* The lifecycle implements VersionStore                                    *)

\* A step that swaps nothing archives at most one version of its request.
LEMMA QuietArchives ==
    ASSUME Inv, NEW r \in Runs, Progress(r) \/ Crash(r),
           UNCHANGED <<current, published>>
    PROVE  [Store!Next]_(Store!vars)
  <1>1. ask' = ask
    BY StepFrame DEF Inv, Frame
  <1>2. \/ stored' = stored
        \/ \E v \in {ask[r].old, ask[r].new} : stored' = stored \cup {v}
    BY DEF Progress, LockKey, CheckIdempotency, Validate, WriteIntent,
       SyncIntent, EnterBroker, Examine, Archive, Swap, Verify, PostOperation,
       WriteReceipt, SyncReceipt, Crash, target
  <1>3. CASE stored' = stored
    BY <1>1, <1>3 DEF Store!vars
  <1>4. CASE \E v \in {ask[r].old, ask[r].new} : stored' = stored \cup {v}
    <2>1. Store!Archive(r)
      BY <1>1, <1>4 DEF Store!Archive
    <2> QED BY <2>1 DEF Store!Next
  <1> QED BY <1>2, <1>3, <1>4

\* The swap of a run is a compare and swap, and its first.
LEMMA SwapPublishes ==
    ASSUME Inv, NEW r \in Runs, Swap(r), current' = ask[r].new,
           published' = published \cup {r}
    PROVE  Store!Publish(r)
  <1>1. ask' = ask /\ stored' = stored /\ pc[r] = "swap"
    BY DEF Swap, scan
  <1>2. /\ r \notin published /\ Archived(ask[r])
        /\ current = ask[r].old
    BY <1>1 DEF Inv, RunOK, Done
  <1> QED BY <1>1, <1>2 DEF Store!Publish, Archived

\* Whatever the evidence says, whoever retries and whoever dies, the runs of
\* core.run move the current file only by compare-and-swap publications of
\* archived versions, one for each run, and lose no archived version.
THEOREM CoreImplementsVersionStore == Spec => ImplementsVersionStore
  <1>1. Init => Store!Init
    <2> SUFFICES ASSUME Init PROVE Store!Init
      OBVIOUS
    <2>1. ASSUME NEW r \in Runs
          PROVE  ask[r].old \in Versions /\ ask[r].new \in Versions
      BY CoreConstants DEF Init
    <2> QED BY <2>1 DEF Init, Store!Init
  <1>2. Inv /\ [Next]_vars => [Store!Next]_(Store!vars)
    <2> SUFFICES ASSUME Inv, [Next]_vars PROVE [Store!Next]_(Store!vars)
      OBVIOUS
    <2>1. ASSUME NEW r \in Runs, Progress(r) \/ Crash(r)
          PROVE  [Store!Next]_(Store!vars)
      <3>1. CASE UNCHANGED <<current, published>>
        BY <2>1, <3>1, QuietArchives
      <3>2. CASE ~UNCHANGED <<current, published>>
        <4>1. /\ Swap(r)
              /\ current' = ask[r].new /\ published' = published \cup {r}
          BY <2>1, <3>2
          DEF Progress, LockKey, CheckIdempotency, Validate, WriteIntent,
              SyncIntent, EnterBroker, Examine, Archive, Swap, Verify,
              PostOperation, WriteReceipt, SyncReceipt, Crash, target, history
        <4>2. Store!Publish(r)
          BY <4>1, SwapPublishes
        <4> QED BY <4>2 DEF Store!Next
      <3> QED BY <3>1, <3>2
    <2>2. CASE UNCHANGED vars
      BY <2>2 DEF vars, target, scan, history, Store!vars
    <2> QED BY <2>1, <2>2 DEF Next
  <1> QED BY <1>1, <1>2, Invariance, PTL
      DEF Spec, ImplementsVersionStore, Store!Spec
-----------------------------------------------------------------------------
(* What a key and an intent are worth                                       *)

\* However often a request is retried, at most one run of a key, in all the
\* evidence, has a verified success.
OneSuccess ==
    \A r, q \in Runs :
        Reported(r, "succeeded_verified") /\ Reported(q, "succeeded_verified")
        /\ SameKey(r, q) => r = q

\* From its scan to its receipt, no run of its key has succeeded but itself.
Unrivalled(r) ==
    \/ pc[r] \in {"verify", "post"}
    \/ /\ pc[r] \in {"receipt", "receipt_sync"}
       /\ outcome[r].status = "succeeded_verified"
    => \A q \in Runs \ {r} : SameKey(r, q) => ~Succeeded(q)

\* A run that has added an object or replaced the file was asked to execute,
\* and its intent says so on disk.
IntentComesFirst ==
    \A r \in archived \cup published :
        ask[r].execute /\ intent[r] = "complete"


\* What the end of a run of the same key leaves to one that is under way.
LEMMA RivalsStay ==
    ASSUME Inv, NEW r \in Runs, Frame(r), NEW q \in Runs \ {r}, Unrivalled(q)
    PROVE  Unrivalled(q)'
  <1> SUFFICES ASSUME \/ pc[q] \in {"verify", "post"}
                      \/ /\ pc[q] \in {"receipt", "receipt_sync"}
                         /\ outcome[q].status = "succeeded_verified",
                      NEW p \in Runs \ {q}, SameKey(q, p), Succeeded(p)'
               PROVE  FALSE
    BY DEF Frame, Unrivalled, SameKey
  <1>1. ~Succeeded(p)
    BY DEF Unrivalled
  <1>2. p = r /\ pc[r] \notin Keyed
    BY <1>1, Exclusion DEF Frame, Succeeded, Reported, SameKey
  <1> QED BY <1>1, <1>2 DEF Frame, Succeeded, Reported

\* Others' evidence does not change while a run of their key is at work.
LEMMA RivalsNew ==
    ASSUME Inv, NEW r \in Runs, Frame(r), NEW q \in Runs \ {r}
    PROVE  /\ SameKey(r, q)' <=> SameKey(r, q)
           /\ Succeeded(q)' <=> Succeeded(q)
  BY DEF Frame, SameKey, Succeeded, Reported

LEMMA UnrivalledOwn ==
    ASSUME Inv, NEW r \in Runs, Unrivalled(r), Progress(r) \/ Crash(r)
    PROVE  Unrivalled(r)'
  <1> USE DEF Inv
  <1>1. Frame(r)
    BY StepFrame
  <1>2. CASE \A q \in Runs \ {r} : SameKey(r, q) => ~Succeeded(q)
    BY <1>1, <1>2, RivalsNew DEF Unrivalled
  <1>3. CASE ~(\A q \in Runs \ {r} : SameKey(r, q) => ~Succeeded(q))
    <2>1. ~(pc[r] \in {"verify", "post"})
      BY <1>3 DEF Unrivalled
    <2>2. ~(/\ pc[r] \in {"receipt", "receipt_sync"}
            /\ outcome[r].status = "succeeded_verified")
      BY <1>3 DEF Unrivalled
    <2>3. pc[r] \notin Brokered
      BY <1>3, <2>1 DEF RunOK, Written, ScanHolds, Passed
    <2>4. SUFFICES /\ pc'[r] \notin {"verify", "post"}
                   /\ pc'[r] \in {"receipt", "receipt_sync"}
                         => outcome'[r].status # "succeeded_verified"
      BY DEF Unrivalled
    <2>5. ASSUME NEW status \in {"reused_existing", "rejected", "validated_planned"},
                 NEW blocker \in Blockers, Decide(r, status, blocker)
          PROVE  pc'[r] = "receipt" /\ outcome'[r].status # "succeeded_verified"
      BY <2>5, DecideType DEF Statuses
    <2>6. ASSUME NEW step \in Steps, Go(r, step)
          PROVE  pc'[r] = step
      BY <2>6, GoType
    <2>7. CASE CheckIdempotency(r)
      <3>1. CASE \E status \in {"reused_existing", "rejected"} :
                   \E blocker \in Blockers : Decide(r, status, blocker)
        BY <3>1, <2>5
      <3>2. CASE pc' = pc
        BY <2>7, <3>2 DEF CheckIdempotency
      <3> QED BY <2>7, <3>1, <3>2, ScanStep DEF Blockers
    <2>8. CASE Validate(r) \/ SyncIntent(r)
      <3>1. CASE \E status \in {"rejected", "validated_planned"} :
                   \E blocker \in Blockers : Decide(r, status, blocker)
        BY <3>1, <2>5
      <3>2. CASE Go(r, "intent") \/ Go(r, "broker")
        BY <3>2, <2>6 DEF Steps
      <3> QED BY <2>8, <3>1, <3>2 DEF Validate, SyncIntent, Blockers
    <2>9. CASE \/ LockKey(r) \/ WriteIntent(r) \/ EnterBroker(r)
               \/ SyncReceipt(r) \/ Crash(r)
      BY <2>9, <2>6
      DEF LockKey, WriteIntent, EnterBroker, SyncReceipt, Crash, Steps
    <2>10. CASE WriteReceipt(r)
      BY <2>2, <2>6, <2>10 DEF WriteReceipt, Steps
    <2> QED BY <2>1, <2>3, <2>7, <2>8, <2>9, <2>10
        DEF Progress, Examine, Archive, Swap, Verify, PostOperation
  <1> QED BY <1>2, <1>3

\* The success of a run is the first under its key.
LEMMA SuccessIsFirst ==
    ASSUME Inv, NEW r \in Runs, Unrivalled(r), Progress(r) \/ Crash(r),
           OneSuccess
    PROVE  OneSuccess'
  <1> USE DEF Inv
  <1>1. Frame(r)
    BY StepFrame
  <1>2. \A q \in Runs \ {r} : Succeeded(q)' <=> Succeeded(q)
    BY <1>1, RivalsNew
  <1>3. CASE SyncReceipt(r)
    <2>1. \A q \in Runs \ {r} :
              Succeeded(r)' /\ SameKey(r, q) => ~Succeeded(q)
      BY <1>3 DEF SyncReceipt, Succeeded, Reported, Unrivalled
    <2> QED BY <1>1, <1>2, <2>1 DEF Frame, OneSuccess, Succeeded, SameKey
  <1>4. CASE ~SyncReceipt(r)
    <2>1. receipt'[r] = "complete" => receipt[r] = "complete"
      BY <1>4, TypeParts
      DEF Progress, LockKey, CheckIdempotency, Validate, WriteIntent,
          SyncIntent, EnterBroker, Examine, Archive, Swap, Verify,
          PostOperation, WriteReceipt, Crash, evidence
    <2>2. ~Succeeded(r)'
      BY <1>1, <2>1 DEF RunOK, Written, Frame, Succeeded, Reported
    <2> QED BY <1>1, <1>2, <2>2 DEF Frame, OneSuccess, Succeeded, SameKey
  <1> QED BY <1>3, <1>4

\* A verified success under an idempotency key is the only one there ever is:
\* of any number of retries, before it, beside it or after it, each finds that
\* success, or ends as something else.  A canonical effect may be repeated; a
\* success is not.
THEOREM CoreSucceedsOnce == Spec => []OneSuccess
  <1> DEFINE Rivals == \A r \in Runs : Unrivalled(r)
  <1>1. Init => OneSuccess /\ Rivals
    BY DEF Init, OneSuccess, Unrivalled, Reported
  <1>2. Inv /\ OneSuccess /\ Rivals /\ [Next]_vars => (OneSuccess /\ Rivals)'
    <2> SUFFICES ASSUME Inv, OneSuccess, Rivals, [Next]_vars
                 PROVE  (OneSuccess /\ Rivals)'
      OBVIOUS
    <2>1. ASSUME NEW r \in Runs, Progress(r) \/ Crash(r)
          PROVE  (OneSuccess /\ Rivals)'
      <3>1. Frame(r)
        BY <2>1, StepFrame DEF Inv
      <3>2. OneSuccess'
        BY <2>1, SuccessIsFirst
      <3>3. Unrivalled(r)'
        BY <2>1, UnrivalledOwn
      <3>4. ASSUME NEW q \in Runs \ {r} PROVE Unrivalled(q)'
        BY <3>1, <3>4, RivalsStay
      <3> QED BY <3>2, <3>3, <3>4
    <2>2. CASE UNCHANGED vars
      BY <2>2 DEF vars, scan, evidence, OneSuccess, Unrivalled, Succeeded,
         Reported, SameKey
    <2> QED BY <2>1, <2>2 DEF Next
  <1> QED BY <1>1, <1>2, Invariance, PTL DEF Spec

\* Nothing is added to the object store, and the current file is not replaced,
\* by a plan or by a run whose intent is not whole on disk: who looks at the
\* evidence finds the run that has touched the target, dead or not.
THEOREM CoreIntentComesFirst == Spec => []IntentComesFirst
  <1>1. Init => IntentComesFirst
    BY DEF Init, IntentComesFirst
  <1>2. Inv /\ IntentComesFirst /\ [Next]_vars => IntentComesFirst'
    <2> SUFFICES ASSUME Inv, IntentComesFirst, [Next]_vars
                 PROVE  IntentComesFirst'
      OBVIOUS
    <2> USE DEF Inv
    <2>1. ASSUME NEW r \in Runs, Progress(r) \/ Crash(r)
          PROVE  IntentComesFirst'
      <3>1. Frame(r)
        BY <2>1, StepFrame
      <3>2. CASE pc[r] \in {"archive", "swap"}
        <4>1. intent[r] = "complete" /\ ask[r].execute
          BY <3>2 DEF RunOK, Written
        <4>2. intent' = intent
          BY <2>1, <3>2
          DEF Progress, LockKey, CheckIdempotency, Validate, WriteIntent,
              SyncIntent, EnterBroker, Examine, Archive, Swap, Verify,
              PostOperation, WriteReceipt, SyncReceipt, Crash, evidence
        <4>3. archived' \subseteq Runs /\ published' \subseteq Runs
          BY <2>1, StepType DEF TypeOK
        <4> QED BY <3>1, <4>1, <4>2, <4>3 DEF Frame, IntentComesFirst
      <3>3. CASE pc[r] \notin {"archive", "swap"}
        <4>1. archived' = archived /\ published' = published
          BY <2>1, <3>3
          DEF Progress, LockKey, CheckIdempotency, Validate, WriteIntent,
              SyncIntent, EnterBroker, Examine, Archive, Swap, Verify,
              PostOperation, WriteReceipt, SyncReceipt, Crash, history
        <4>2. \/ intent'[r] = intent[r]
              \/ r \notin archived /\ r \notin published
          BY <2>1
          DEF Progress, LockKey, CheckIdempotency, Validate, WriteIntent,
              SyncIntent, EnterBroker, Examine, Archive, Swap, Verify,
              PostOperation, WriteReceipt, SyncReceipt, Crash, evidence,
              RunOK, Done
        <4> QED BY <3>1, <4>1, <4>2, TypeParts DEF Frame, IntentComesFirst
      <3> QED BY <3>2, <3>3
    <2>2. CASE UNCHANGED vars
      BY <2>2 DEF vars, scan, evidence, history, IntentComesFirst
    <2> QED BY <2>1, <2>2 DEF Next
  <1> QED BY <1>1, <1>2, Invariance, PTL DEF Spec

-----------------------------------------------------------------------------
(* That runs end: what does not need fairness                               *)

Ended == {"done", "crashed"}

\* A lock that is taken is held by a run at work under it.
HolderLives ==
    /\ \A k \in Keys :
          keyLock[k] # NoRun => /\ keyLock[k] \in Runs
                                /\ pc[keyLock[k]] \in Keyed
                                /\ ask[keyLock[k]].key = k
    /\ targetLock # NoRun => targetLock \in Runs /\ pc[targetLock] \in Brokered

\* The lock that the next step of a run waits for is free.
Ready(r) ==
    /\ pc[r] \notin Ended
    /\ pc[r] = "start" => keyLock[ask[r].key] = NoRun
    /\ pc[r] = "broker" => targetLock = NoRun

\* While there is a run that has not ended, there is one that waits for nobody.
NoCircularWait ==
    (\E r \in Runs : pc[r] \notin Ended) => \E r \in Runs : Ready(r)

\* How many steps may follow this one in a run, the repetitions of the scan and
\* of the archiving not counted.
Remaining(step) ==
    CASE step = "start" -> 12
      [] step = "check" -> 11
      [] step = "intent" -> 10
      [] step = "intent_sync" -> 9
      [] step = "broker" -> 8
      [] step = "examine" -> 7
      [] step = "archive" -> 6
      [] step = "swap" -> 5
      [] step = "verify" -> 4
      [] step = "post" -> 3
      [] step = "receipt" -> 2
      [] step = "receipt_sync" -> 1
      [] OTHER -> 0

Missing(r) == {ask[r].old, ask[r].new} \ stored

\* Repeating its step, a run has the evidence of a further run behind it, or one
\* of its two versions archived.
Repeats(r) ==
    /\ pc'[r] = pc[r]
    /\ \/ /\ pc[r] = "check"
          /\ \E q \in Runs \ ({r} \cup seen[r]) : seen'[r] = seen[r] \cup {q}
       \/ /\ pc[r] = "archive"
          /\ \E v \in Missing(r) : Missing(r)' = Missing(r) \ {v}

\* Every step of a run takes it nearer to its end, and no step of another takes
\* it back.
RunsOut ==
    \A r \in Runs :
        /\ Progress(r) \/ Crash(r) =>
              \/ /\ Remaining(pc'[r]) \in Nat
                 /\ Remaining(pc'[r]) < Remaining(pc[r])
              \/ Repeats(r)
        /\ ~(Progress(r) \/ Crash(r)) =>
              /\ pc'[r] = pc[r] /\ seen'[r] = seen[r]
              /\ Missing(r)' \subseteq Missing(r)

\* The evidence of a run only grows, and that of a run that has ended stays.
EvidenceStays ==
    \A r \in Runs :
        /\ intent[r] = "complete" => intent'[r] = "complete"
        /\ \A status \in Statuses : Reported(r, status) => Reported(r, status)'
        /\ pc[r] \in Ended =>
              /\ pc'[r] = pc[r] /\ intent'[r] = intent[r]
              /\ receipt'[r] = receipt[r]
              /\ r \in archived' => r \in archived
              /\ r \in published' => r \in published

\* Where a step takes a run.
LEMMA Course ==
    ASSUME TypeOK, NEW r \in Runs, Progress(r) \/ Crash(r)
    PROVE  /\ pc[r] \notin Ended
           /\ \/ pc[r] = "start" /\ pc'[r] = "check"
              \/ pc[r] = "check" /\ pc'[r] \in {"intent", "receipt"}
              \/ pc[r] = "intent" /\ pc'[r] = "intent_sync"
              \/ pc[r] = "intent_sync" /\ pc'[r] \in {"broker", "receipt"}
              \/ pc[r] = "broker" /\ pc'[r] = "examine"
              \/ pc[r] = "examine" /\ pc'[r] \in {"archive", "post", "receipt"}
              \/ pc[r] = "archive" /\ pc'[r] \in {"swap", "post"}
              \/ pc[r] = "swap" /\ pc'[r] \in {"verify", "post"}
              \/ pc[r] = "verify" /\ pc'[r] = "post"
              \/ pc[r] = "post" /\ pc'[r] = "receipt"
              \/ pc[r] = "receipt" /\ pc'[r] = "receipt_sync"
              \/ pc[r] = "receipt_sync" /\ pc'[r] = "done"
              \/ pc[r] \in Keyed /\ pc'[r] = "crashed"
              \/ Repeats(r)
  <1>1. ASSUME NEW step \in Steps, Go(r, step)
        PROVE  pc'[r] = step
    BY <1>1, GoType
  <1>2. ASSUME NEW status, NEW blocker, Decide(r, status, blocker)
        PROVE  pc'[r] = "receipt"
    BY <1>1, <1>2 DEF Decide, Steps
  <1>3. ASSUME NEW status, Leave(r, status)
        PROVE  pc'[r] = "post"
    BY <1>1, <1>3 DEF Leave, Steps
  <1>4. CASE CheckIdempotency(r)
    <2>1. CASE \E status, blocker : Decide(r, status, blocker)
      BY <1>2, <1>4, <2>1 DEF CheckIdempotency, Ended
    <2>2. CASE \E q \in Runs \ ({r} \cup seen[r]) :
                 /\ seen' = [seen EXCEPT ![r] = seen[r] \cup {q}]
                 /\ pc' = pc
      BY <1>4, <2>2, TypeParts DEF CheckIdempotency, Repeats, Ended
    <2> QED BY <1>4, <2>1, <2>2 DEF CheckIdempotency
  <1>5. CASE Validate(r) \/ SyncIntent(r)
    BY <1>1, <1>2, <1>5 DEF Validate, SyncIntent, Steps, Ended
  <1>6. CASE Examine(r)
    BY <1>1, <1>2, <1>3, <1>6 DEF Examine, Steps, Ended
  <1>7. CASE Archive(r)
    <2>1. CASE \E v \in Missing(r) : stored' = stored \cup {v} /\ pc' = pc
      <3>1. ask' = ask
        BY <1>7 DEF Archive, scan
      <3> QED BY <1>7, <2>1, <3>1 DEF Archive, Missing, Repeats, Ended
    <2>2. CASE Go(r, "swap") \/ Leave(r, "failed_partial")
      BY <1>1, <1>3, <1>7, <2>2 DEF Archive, Steps, Ended
    <2> QED BY <1>7, <2>1, <2>2 DEF Archive, Missing
  <1>8. CASE Swap(r) \/ Verify(r) \/ PostOperation(r)
    BY <1>1, <1>2, <1>3, <1>8 DEF Swap, Verify, PostOperation, Steps, Ended
  <1>9. CASE \/ LockKey(r) \/ WriteIntent(r) \/ EnterBroker(r) \/ WriteReceipt(r)
             \/ SyncReceipt(r) \/ Crash(r)
    BY <1>1, <1>9
    DEF LockKey, WriteIntent, EnterBroker, WriteReceipt, SyncReceipt, Crash,
        Steps, Ended
  <1> QED BY <1>4, <1>5, <1>6, <1>7, <1>8, <1>9 DEF Progress

\* The locks are taken where a run waits for them, and given back by its end.
LEMMA Handing ==
    ASSUME Inv, HolderLives, NEW r \in Runs, Progress(r) \/ Crash(r)
    PROVE  /\ \A k \in Keys :
                 /\ keyLock'[k] \in {keyLock[k], NoRun, r}
                 /\ keyLock'[k] = r => pc'[r] \in Keyed /\ ask[r].key = k
           /\ targetLock' \in {targetLock, NoRun, r}
           /\ targetLock' = r => pc'[r] \in Brokered
  <1>1. TypeOK /\ NoRun # r /\ RunOK(r)
    BY CoreConstants DEF Inv
  <1>2. ASSUME NEW step \in Steps, Go(r, step)
        PROVE  pc'[r] = step
    BY <1>1, <1>2, GoType
  <1>3. /\ \A k \in Keys : keyLock[k] = r => pc[r] \in Keyed /\ ask[r].key = k
        /\ targetLock = r => pc[r] \in Brokered
    BY <1>1 DEF HolderLives
  <1>4. \A k \in Keys :
           /\ keyLock'[k] \in {keyLock[k], NoRun, r}
           /\ keyLock'[k] = r => pc'[r] \in Keyed /\ ask[r].key = k
    <2>1. CASE LockKey(r)
      BY <1>1, <1>2, <1>3, <2>1, AskFacts DEF LockKey, TypeOK, Steps
    <2>2. CASE ReleaseKey(r)
      BY <1>1, <2>2 DEF ReleaseKey
    <2>3. CASE keyLock' = keyLock /\ ~SyncReceipt(r) /\ ~Crash(r) /\ ~LockKey(r)
      <3>1. pc'[r] \in Keyed
        <4>1. \/ pc' = pc /\ pc[r] \in Keyed
              \/ \E step \in Keyed : Go(r, step)
          BY <2>3
          DEF Progress, CheckIdempotency, Validate, WriteIntent, SyncIntent,
              EnterBroker, Examine, Archive, Swap, Verify, PostOperation,
              WriteReceipt, Decide, Leave
        <4> QED BY <1>2, <4>1 DEF Steps
      <3> QED BY <1>3, <2>3, <3>1
    <2> QED BY <2>1, <2>2, <2>3
        DEF Progress, CheckIdempotency, Validate, WriteIntent, SyncIntent,
            EnterBroker, Examine, Archive, Swap, Verify, PostOperation,
            WriteReceipt, SyncReceipt, Crash
  <1>5. /\ targetLock' \in {targetLock, NoRun, r}
        /\ targetLock' = r => pc'[r] \in Brokered
    <2>1. CASE EnterBroker(r)
      BY <1>2, <2>1 DEF EnterBroker, Steps
    <2>2. CASE ReleaseTarget(r)
      BY <1>1, <2>2 DEF ReleaseTarget
    <2>3. CASE /\ targetLock' = targetLock
               /\ pc[r] \in Brokered => pc'[r] \in Brokered
      BY <1>3, <2>3
    <2>4. pc[r] \in Brokered /\ ~ReleaseTarget(r)
             => targetLock' = targetLock /\ pc'[r] \in Brokered
      <3> SUFFICES ASSUME pc[r] \in Brokered, ~ReleaseTarget(r)
                   PROVE  targetLock' = targetLock /\ pc'[r] \in Brokered
        OBVIOUS
      <3>1. /\ targetLock' = targetLock
            /\ pc' = pc \/ \E step \in Brokered : Go(r, step)
        BY DEF Progress, LockKey, CheckIdempotency, Validate, WriteIntent,
           SyncIntent, EnterBroker, Examine, Archive, Swap, Verify,
           PostOperation, WriteReceipt, SyncReceipt, Crash, Leave
      <3> QED BY <1>2, <3>1 DEF Steps
    <2>5. pc[r] \notin Brokered /\ ~EnterBroker(r) /\ ~ReleaseTarget(r)
             => targetLock' = targetLock
      BY DEF Progress, LockKey, CheckIdempotency, Validate, WriteIntent,
         SyncIntent, Examine, Archive, Swap, Verify, PostOperation,
         WriteReceipt, SyncReceipt, Crash
    <2> QED BY <2>1, <2>2, <2>3, <2>4, <2>5
  <1> QED BY <1>4, <1>5

LEMMA HolderInvariance == Spec => [](Inv /\ HolderLives)
  <1>1. Init => HolderLives
    BY DEF Init, HolderLives
  <1>2. Inv /\ HolderLives /\ [Next]_vars => HolderLives'
    <2> SUFFICES ASSUME Inv, HolderLives, [Next]_vars PROVE HolderLives'
      OBVIOUS
    <2>1. ASSUME NEW r \in Runs, Progress(r) \/ Crash(r) PROVE HolderLives'
      <3>1. ask' = ask /\ \A q \in Runs \ {r} : pc'[q] = pc[q]
        BY <2>1, StepFrame DEF Inv, Frame
      <3>2. ASSUME NEW k \in Keys, keyLock'[k] # NoRun
            PROVE  /\ keyLock'[k] \in Runs /\ pc'[keyLock'[k]] \in Keyed
                   /\ ask'[keyLock'[k]].key = k
        <4>1. CASE keyLock'[k] = r
          BY <2>1, <3>1, <4>1, Handing
        <4>2. CASE keyLock'[k] = keyLock[k] /\ keyLock[k] # r
          BY <3>1, <3>2, <4>2 DEF HolderLives
        <4> QED BY <2>1, <3>2, <4>1, <4>2, Handing
      <3>3. ASSUME targetLock' # NoRun
            PROVE  targetLock' \in Runs /\ pc'[targetLock'] \in Brokered
        <4>1. CASE targetLock' = r
          BY <2>1, <4>1, Handing
        <4>2. CASE targetLock' = targetLock /\ targetLock # r
          BY <3>1, <3>3, <4>2 DEF HolderLives
        <4> QED BY <2>1, <3>3, <4>1, <4>2, Handing
      <3> QED BY <3>2, <3>3 DEF HolderLives
    <2>2. CASE UNCHANGED vars
      BY <2>2 DEF vars, scan, HolderLives
    <2> QED BY <2>1, <2>2 DEF Next
  <1> QED BY <1>1, <1>2, Invariance, PTL DEF Spec

\* Runs never wait for each other in a circle, for a dead run or for one that has
\* returned: the key lock is always taken before the lock of the target, whose
\* holder waits for nobody.
THEOREM CoreNoCircularWait == Spec => [](HolderLives /\ NoCircularWait)
  <1>1. Inv /\ HolderLives => NoCircularWait
    <2> SUFFICES ASSUME Inv, HolderLives, NEW r \in Runs, pc[r] \notin Ended
                 PROVE  \E q \in Runs : Ready(q)
      BY DEF NoCircularWait
    <2>1. CASE targetLock # NoRun
      <3>1. Ready(targetLock)
        BY <2>1 DEF HolderLives, Ready, Ended
      <3> QED BY <2>1, <3>1 DEF HolderLives
    <2>2. CASE targetLock = NoRun /\ pc[r] = "start" /\ keyLock[ask[r].key] # NoRun
      <3> DEFINE h == keyLock[ask[r].key]
      <3>1. h \in Runs /\ pc[h] \in Keyed
        BY <2>2, AskFacts DEF HolderLives, Inv
      <3>2. Ready(h)
        BY <2>2, <3>1 DEF Ready, Ended
      <3> QED BY <3>1, <3>2
    <2>3. CASE /\ targetLock = NoRun
               /\ pc[r] = "start" => keyLock[ask[r].key] = NoRun
      BY <2>3 DEF Ready
    <2> QED BY <2>1, <2>2, <2>3
  <1> QED BY <1>1, HolderInvariance, PTL

\* A run takes at most twelve steps, and one more for each run whose evidence it
\* reads and for each of its two versions that it adds to the object store;
\* whatever the others do meanwhile adds nothing to them.
THEOREM CoreRunsOut == Spec => [][RunsOut]_vars
  <1>1. Inv /\ [Next]_vars => [RunsOut]_vars
    <2> SUFFICES ASSUME Inv, Next, NEW r \in Runs
                 PROVE  /\ Progress(r) \/ Crash(r) =>
                              \/ /\ Remaining(pc'[r]) \in Nat
                                 /\ Remaining(pc'[r]) < Remaining(pc[r])
                              \/ Repeats(r)
                        /\ ~(Progress(r) \/ Crash(r)) =>
                              /\ pc'[r] = pc[r] /\ seen'[r] = seen[r]
                              /\ Missing(r)' \subseteq Missing(r)
      BY DEF RunsOut
    <2>1. ASSUME Progress(r) \/ Crash(r), ~Repeats(r)
          PROVE  /\ Remaining(pc'[r]) \in Nat
                 /\ Remaining(pc'[r]) < Remaining(pc[r])
      BY <2>1, Course DEF Inv, Remaining
    <2>2. ASSUME ~(Progress(r) \/ Crash(r))
          PROVE  /\ pc'[r] = pc[r] /\ seen'[r] = seen[r]
                 /\ Missing(r)' \subseteq Missing(r)
      BY <2>2, StepFrame DEF Inv, Next, Frame, Missing
    <2> QED BY <2>1, <2>2
  <1> QED BY <1>1, Invariance, PTL DEF Spec

\* The evidence root is append-only: a whole intent stays whole, the status of a
\* receipt never changes, and after its end nothing is done in the name of a run.
\* What one run has found whole in another's evidence is true for ever.
THEOREM CoreEvidenceStays == Spec => [][EvidenceStays]_vars
  <1>1. Inv /\ [Next]_vars => [EvidenceStays]_vars
    <2> SUFFICES ASSUME Inv, Next, NEW r \in Runs
                 PROVE  /\ intent[r] = "complete" => intent'[r] = "complete"
                        /\ \A status \in Statuses :
                              Reported(r, status) => Reported(r, status)'
                        /\ pc[r] \in Ended =>
                              /\ pc'[r] = pc[r] /\ intent'[r] = intent[r]
                              /\ receipt'[r] = receipt[r]
                              /\ r \in archived' => r \in archived
                              /\ r \in published' => r \in published
      BY DEF EvidenceStays
    <2>1. PICK p \in Runs : Progress(p) \/ Crash(p)
      BY DEF Next
    <2>2. Frame(p) /\ pc[p] \notin Ended
      BY <2>1, StepFrame, Course DEF Inv
    <2>3. CASE p # r
      BY <2>2, <2>3 DEF Frame, Reported
    <2>4. CASE p = r
      <3>1. receipt[r] # "complete"
        BY <2>2, <2>4 DEF Inv, RunOK, Written, Ended
      <3>2. intent[r] = "complete" => intent'[r] = "complete"
        BY <2>1, <2>4, TypeParts
        DEF Inv, RunOK, Written, Progress, LockKey, CheckIdempotency, Validate,
            WriteIntent, SyncIntent, EnterBroker, Examine, Archive, Swap, Verify,
            PostOperation, WriteReceipt, SyncReceipt, Crash, evidence
      <3> QED BY <2>2, <2>4, <3>1, <3>2 DEF Reported
    <2> QED BY <2>3, <2>4
  <1> QED BY <1>1, Invariance, PTL DEF Spec

=============================================================================
