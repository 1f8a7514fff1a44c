---------------------- MODULE ArchiveThenPublishProofs ----------------------
(***************************************************************************)
(* Theorems about ArchiveThenPublish, for every set of runs, files,        *)
(* versions and requests, for every assignment of locks to files (those of *)
(* POSIX and of Windows are two of them) and any number of failures.       *)
(***************************************************************************)
EXTENDS ArchiveThenPublish, TLAPS

-----------------------------------------------------------------------------
(* The inductive invariant                                                  *)

\* A run that has not got to the creation of its archive.
Early == {"start", "plan", "lock", "before", "observe", "archive"}

\* A run that has not got to the truncation of its file.
Untouched == Early \cup {"fill", "verify", "conclude", "pin", "truncate"}

Ordered(r) ==
    /\ pc[r] # "done" => outcome[r] = "none"
    /\ pc[r] = "post" => effect[r] # "none"

HoldsLock(r) == pc[r] \in Locked => lock[Lock(r)] = r

\* What the run relies on at its step, and what it has done.
InHand(r) ==
    /\ pc[r] \in {"verify", "pin", "truncate", "rewrite", "readback"}
          => archive[Old(r)] = "exact"
    /\ pc[r] = "truncate" => current[File(r)] = Old(r)
    /\ pc[r] = "rewrite" => current[File(r)] = Torn
    /\ pc[r] = "readback" => New(r) \in held[File(r)]
    /\ pc[r] \in Early => r \notin created
    /\ pc[r] \in Untouched => r \notin rewrote
    /\ pc[r] = "fill" => r \in created
    /\ r \in created => archive[Old(r)] # "absent"

\* What a status says of run r is so.
Says(r, status) ==
    /\ status \in {"applied_verified", "succeeded_verified", "committed_unverified"}
          => New(r) \in held[File(r)] /\ archive[Old(r)] = "exact"
    /\ status = "failed_partial" => archive[Old(r)] # "absent"
    /\ status = "indeterminate" => archive[Old(r)] = "exact"
    /\ status = "rejected" => r \notin rewrote
    /\ status = "failed_no_effect"
          => /\ r \notin rewrote
             /\ r \in created => archive[Old(r)] = "exact"

\* Only a run that is past its effect has a receipt.
Truthful(r) ==
    /\ Says(r, effect[r]) /\ Says(r, outcome[r])
    /\ pc[r] \in Untouched \cup {"rewrite", "readback"} => effect[r] = "none"

RunOK(r) == Ordered(r) /\ HoldsLock(r) /\ InHand(r) /\ Truthful(r)

\* What can be read of a file is a version it holds.
Held == \A f \in Files : current[f] = Torn \/ current[f] \in held[f]

IInv ==
    /\ TypeOK
    /\ NoLostVersion
    /\ Held
    /\ \A r \in Runs : RunOK(r)

Act(r) == Step(r) \/ Failure(r)

-----------------------------------------------------------------------------
(* Types                                                                    *)

LEMMA Ranges ==
    ASSUME TypeOK, NEW r \in Runs
    PROVE  /\ ask[r] \in Requests /\ File(r) \in Files
           /\ Old(r) \in Versions /\ New(r) \in Versions
           /\ Lock(r) \in Locks
<1>1. ask[r] \in Requests
  BY DEF TypeOK
<1>2. File(r) \in Files /\ Old(r) \in Versions /\ New(r) \in Versions
  BY <1>1, ArchiveConstants DEF File, Old, New
<1>3. Lock(r) \in Locks
  BY <1>2 DEF Lock, Locks
<1> QED
  BY <1>1, <1>2, <1>3

LEMMA FinishTypes ==
    ASSUME TypeOK, NEW r \in Runs, NEW status \in EffectStatuses, Finish(r, status)
    PROVE  /\ effect' \in [Runs -> EffectStatuses \cup {"none"}]
           /\ lock' \in [Locks -> Runs \cup {NoRun}]
           /\ pc' \in [Runs -> Steps \cup {"done", "crashed"}]
<1>1. effect' \in [Runs -> EffectStatuses \cup {"none"}]
  BY DEF Finish, TypeOK
<1>2. lock' \in [Locks -> Runs \cup {NoRun}]
  BY DEF Finish, Release, TypeOK
<1>3. pc' \in [Runs -> Steps \cup {"done", "crashed"}]
  BY DEF Finish, Go, Steps, TypeOK
<1> QED
  BY <1>1, <1>2, <1>3

\* What becomes of a run whose effect has a receipt is a terminal status, and
\* it says no more than the receipt does.
LEMMA StatusSays ==
    ASSUME NEW r \in Runs, NEW status \in EffectStatuses, NEW verified \in BOOLEAN,
           Says(r, status)
    PROVE  /\ TerminalStatus(status, verified) \in Outcomes
           /\ Says(r, TerminalStatus(status, verified))
<1>1. CASE status = "applied_verified"
  <2>1. TerminalStatus(status, verified) =
           IF verified THEN "succeeded_verified" ELSE "committed_unverified"
    BY <1>1 DEF TerminalStatus
  <2> QED
    BY <1>1, <2>1 DEF Says, Outcomes
<1>2. CASE status # "applied_verified"
  <2>1. TerminalStatus(status, verified) = status
    BY <1>2 DEF TerminalStatus
  <2> QED
    BY <1>2, <2>1 DEF Outcomes, EffectStatuses
<1> QED
  BY <1>1, <1>2

LEMMA TypeStep ==
    ASSUME IInv, NEW r \in Runs, Act(r)
    PROVE  TypeOK'
<1> USE DEF IInv, RunOK, Ordered, disk, history
<1>0. /\ TypeOK /\ File(r) \in Files /\ Old(r) \in Versions /\ New(r) \in Versions
      /\ Lock(r) \in Locks
  BY Ranges
<1>1. /\ {"applied_verified", "failed_no_effect", "failed_partial", "indeterminate"}
             \subseteq EffectStatuses
      /\ {"rejected"} \subseteq Outcomes
      /\ Locked \cup {"start", "plan", "lock", "post"} = Steps
  BY DEF EffectStatuses, Outcomes, Steps
<1>2. ASSUME NEW verified \in BOOLEAN, pc[r] = "post",
             Decide(r, TerminalStatus(effect[r], verified))
      PROVE  outcome' \in [Runs -> Outcomes] /\ pc' \in [Runs -> Steps \cup {"done", "crashed"}]
  <2>1. effect[r] \in EffectStatuses /\ Says(r, effect[r])
    BY <1>2 DEF TypeOK, Truthful
  <2>2. TerminalStatus(effect[r], verified) \in Outcomes
    BY <2>1, StatusSays
  <2> QED
    BY <1>2, <2>2 DEF Decide, Go, TypeOK
<1>3. CASE Failure(r)
  <2>1. faults' \in 0..MaxFaults
    BY <1>3, ArchiveConstants DEF Failure, Fault, TypeOK
  <2>2. CASE Raise(r)
    <3>1. outcome' \in [Runs -> Outcomes]
      BY <2>2, <1>1 DEF Raise, Decide, TypeOK
    <3>2. pc' \in [Runs -> Steps \cup {"done", "crashed"}]
      BY <2>2 DEF Raise, Decide, Go, TypeOK
    <3>3. lock' \in [Locks -> Runs \cup {NoRun}]
      BY <2>2 DEF Raise, Release, TypeOK
    <3> QED
      BY <2>1, <2>2, <3>1, <3>2, <3>3 DEF Raise, TypeOK
  <2>3. CASE ArchiveFails(r)
    BY <2>1, <2>3 DEF ArchiveFails, Go, TypeOK, Steps, Locked
  <2>4. CASE RewriteFails(r)
    BY <2>1, <2>4, <1>1, FinishTypes DEF RewriteFails, TypeOK
  <2>5. CASE FinalizationFails(r)
    BY <2>1, <2>5, <1>2 DEF FinalizationFails, TypeOK
  <2>6. CASE Crash(r)
    BY <2>1, <2>6 DEF Crash, Release, Go, TypeOK
  <2> QED
    BY <1>3, <2>2, <2>3, <2>4, <2>5, <2>6 DEF Failure
<1>4. CASE Step(r)
  <2>0. ASSUME NEW step \in Steps, Go(r, step)
        PROVE  pc' \in [Runs -> Steps \cup {"done", "crashed"}]
    BY <2>0 DEF Go, TypeOK
  <2>1. ASSUME Decide(r, "rejected")
        PROVE  outcome' \in [Runs -> Outcomes] /\ pc' \in [Runs -> Steps \cup {"done", "crashed"}]
    BY <2>1, <1>1 DEF Decide, Go, TypeOK
  <2>2. CASE Validate(r)
    BY <2>2, <2>0, <2>1, <1>1 DEF Validate, TypeOK
  <2>3. CASE Plan(r)
    BY <2>3, <2>0, <2>1, <1>1 DEF Plan, TypeOK
  <2>4. CASE TakeLock(r)
    BY <2>4, <2>0, <1>0 DEF TakeLock, TypeOK, Steps, Locked
  <2>5. CASE BeforeEffect(r)
    <3>1. lock' \in [Locks -> Runs \cup {NoRun}]
      BY <2>5 DEF BeforeEffect, Release, TypeOK
    <3> QED
      BY <2>5, <3>1, <2>0, <2>1 DEF BeforeEffect, TypeOK, Steps, Locked
  <2>6. CASE Observe(r)
    <3>1. \/ Finish(r, "applied_verified") \/ Finish(r, "failed_no_effect")
          \/ Go(r, "archive") /\ UNCHANGED <<lock, effect>>
      BY <2>6 DEF Observe
    <3>2. UNCHANGED <<current, archive, ask, outcome, faults, held, created, rewrote>>
      BY <2>6 DEF Observe
    <3> QED
      BY <3>1, <3>2, <2>0, <1>1, FinishTypes DEF TypeOK, Steps, Locked
  <2>7. CASE CreateArchive(r)
    <3>1. archive' \in [Versions -> ArchiveStates] /\ created' \subseteq Runs
      BY <2>7, <1>0 DEF CreateArchive, TypeOK, ArchiveStates
    <3>2. pc' \in [Runs -> Steps \cup {"done", "crashed"}]
      BY <2>7 DEF CreateArchive, Go, TypeOK, Steps, Locked
    <3> QED
      BY <2>7, <3>1, <3>2 DEF CreateArchive, TypeOK
  <2>8. CASE FillArchive(r)
    <3>1. archive' \in [Versions -> ArchiveStates]
      BY <2>8, <1>0 DEF FillArchive, TypeOK, ArchiveStates
    <3> QED
      BY <2>8, <3>1, <2>0 DEF FillArchive, TypeOK, Steps, Locked
  <2>9. CASE VerifyArchive(r)
    BY <2>9, <2>0 DEF VerifyArchive, TypeOK, Steps, Locked
  <2>10. CASE Conclude(r)
    BY <2>10, <1>1, FinishTypes DEF Conclude, TypeOK
  <2>11. CASE Pin(r)
    <3>1. UNCHANGED <<current, archive, ask, outcome, faults, held, created, rewrote>>
      BY <2>11 DEF Pin
    <3>2. CASE archive[Old(r)] = "exact" /\ current[File(r)] = Old(r)
      BY <2>11, <3>1, <3>2, <2>0 DEF Pin, TypeOK, Steps, Locked
    <3>3. CASE ~(archive[Old(r)] = "exact" /\ current[File(r)] = Old(r))
      BY <2>11, <3>1, <3>3, <1>1, FinishTypes DEF Pin, TypeOK
    <3> QED
      BY <3>2, <3>3
  <2>12. CASE Truncate(r)
    <3>1. current' \in [Files -> Versions \cup {Torn}] /\ rewrote' \subseteq Runs
      BY <2>12, <1>0 DEF Truncate, TypeOK
    <3> QED
      BY <2>12, <3>1, <2>0 DEF Truncate, TypeOK, Steps, Locked
  <2>13. CASE Rewrite(r)
    <3>1. current' \in [Files -> Versions \cup {Torn}] /\ held' \in [Files -> SUBSET Versions]
      BY <2>13, <1>0 DEF Rewrite, TypeOK
    <3> QED
      BY <2>13, <3>1, <2>0 DEF Rewrite, TypeOK, Steps, Locked
  <2>14. CASE ReadBack(r)
    BY <2>14, <1>1, FinishTypes DEF ReadBack, TypeOK
  <2>15. CASE PostOperation(r)
    <3>1. PICK verified \in BOOLEAN : Decide(r, TerminalStatus(effect[r], verified))
      BY <2>15 DEF PostOperation
    <3> QED
      BY <2>15, <3>1, <1>2 DEF PostOperation, TypeOK
  <2> QED
    BY <1>4, <2>2, <2>3, <2>4, <2>5, <2>6, <2>7, <2>8, <2>9, <2>10, <2>11, <2>12,
       <2>13, <2>14, <2>15 DEF Step
<1> QED
  BY <1>3, <1>4 DEF Act
-----------------------------------------------------------------------------
(* What a step leaves alone                                                 *)

\* A step of r changes nothing that is another run's, and at most the archive
\* of its old version or its file.
LEMMA Frame ==
    ASSUME TypeOK, NEW r \in Runs, Act(r)
    PROVE  /\ ask' = ask
           /\ \A s \in Runs \ {r} :
                 pc'[s] = pc[s] /\ effect'[s] = effect[s] /\ outcome'[s] = outcome[s]
           /\ \A s \in Runs \ {r}, l \in Locks : lock[l] = s => lock'[l] = s
           /\ created \subseteq created' /\ created' \subseteq created \cup {r}
           /\ pc'[r] = "rewrite" => Truncate(r)
           /\ \/ archive' = archive
              \/ /\ pc[r] = "archive" /\ archive[Old(r)] = "absent"
                 /\ archive' = [archive EXCEPT ![Old(r)] = "unfinished"]
              \/ /\ pc[r] = "fill"
                 /\ archive' = [archive EXCEPT ![Old(r)] = "exact"]
           /\ \/ UNCHANGED <<current, held, rewrote>>
              \/ /\ Truncate(r) /\ held' = held /\ rewrote' = rewrote \cup {r}
                 /\ current' = [current EXCEPT ![File(r)] = Torn]
              \/ /\ Rewrite(r) /\ rewrote' = rewrote
                 /\ current' = [current EXCEPT ![File(r)] = New(r)]
                 /\ held' = [held EXCEPT ![File(r)] = @ \cup {New(r)}]
<1> USE DEF TypeOK, disk, history, Go, Decide
<1>1. ASSUME NEW status, Finish(r, status)
      PROVE  /\ pc'[r] = "post"
             /\ \A s \in Runs \ {r} : pc'[s] = pc[s] /\ effect'[s] = effect[s]
             /\ \A s \in Runs \ {r}, l \in Locks : lock[l] = s => lock'[l] = s
  BY <1>1 DEF Finish, Release
<1>2. ASSUME Release(r)
      PROVE  \A s \in Runs \ {r}, l \in Locks : lock[l] = s => lock'[l] = s
  BY <1>2 DEF Release
<1>3. CASE Failure(r)
  <2>1. CASE Raise(r)
    BY <2>1, <1>2 DEF Raise
  <2>2. CASE ArchiveFails(r)
    BY <2>2 DEF ArchiveFails
  <2>3. CASE RewriteFails(r)
    BY <2>3, <1>1 DEF RewriteFails
  <2>4. CASE FinalizationFails(r)
    BY <2>4 DEF FinalizationFails
  <2>5. CASE Crash(r)
    BY <2>5, <1>2 DEF Crash
  <2> QED
    BY <1>3, <2>1, <2>2, <2>3, <2>4, <2>5 DEF Failure
<1>4. CASE Step(r)
  <2>1. CASE Validate(r)
    BY <2>1 DEF Validate
  <2>2. CASE Plan(r)
    BY <2>2 DEF Plan
  <2>3. CASE TakeLock(r)
    BY <2>3, ArchiveConstants DEF TakeLock
  <2>4. CASE BeforeEffect(r)
    BY <2>4, <1>2 DEF BeforeEffect
  <2>5. CASE Observe(r)
    BY <2>5, <1>1 DEF Observe
  <2>6. CASE CreateArchive(r)
    BY <2>6 DEF CreateArchive
  <2>7. CASE FillArchive(r)
    BY <2>7 DEF FillArchive
  <2>8. CASE VerifyArchive(r)
    BY <2>8 DEF VerifyArchive
  <2>9. CASE Conclude(r)
    BY <2>9, <1>1 DEF Conclude
  <2>10. CASE Pin(r)
    <3>1. CASE archive[Old(r)] = "exact" /\ current[File(r)] = Old(r)
      BY <2>10, <3>1 DEF Pin
    <3>2. CASE ~(archive[Old(r)] = "exact" /\ current[File(r)] = Old(r))
      BY <2>10, <3>2, <1>1 DEF Pin
    <3> QED
      BY <3>1, <3>2
  <2>11. CASE Truncate(r)
    <3>1. \A t \in Runs \ {r} : pc'[t] = pc[t]
      BY <2>11 DEF Truncate
    <3> QED
      BY <2>11, <3>1 DEF Truncate
  <2>12. CASE Rewrite(r)
    <3>1. \A t \in Runs \ {r} : pc'[t] = pc[t]
      BY <2>12 DEF Rewrite
    <3> QED
      BY <2>12, <3>1 DEF Rewrite
  <2>13. CASE ReadBack(r)
    BY <2>13, <1>1 DEF ReadBack
  <2>14. CASE PostOperation(r)
    BY <2>14 DEF PostOperation
  <2> QED
    BY <1>4, <2>1, <2>2, <2>3, <2>4, <2>5, <2>6, <2>7, <2>8, <2>9, <2>10, <2>11, <2>12,
       <2>13, <2>14 DEF Step
<1> QED
  BY <1>3, <1>4 DEF Act

\* Archives and versions once held stay, and an archive that exists exists.
LEMMA Monotone ==
    ASSUME TypeOK, NEW r \in Runs, Act(r)
    PROVE  /\ \A v \in Versions :
                 /\ archive[v] = "exact" => archive'[v] = "exact"
                 /\ archive[v] # "absent" => archive'[v] # "absent"
           /\ \A f \in Files : held[f] \subseteq held'[f]
<1>1. File(r) \in Files /\ Old(r) \in Versions /\ New(r) \in Versions
  BY Ranges
<1>2. \A v \in Versions :
          /\ archive[v] = "exact" => archive'[v] = "exact"
          /\ archive[v] # "absent" => archive'[v] # "absent"
  BY <1>1, Frame DEF TypeOK
<1>3. held' = held \/ held' = [held EXCEPT ![File(r)] = @ \cup {New(r)}]
  BY Frame
<1>4. \A f \in Files : held[f] \subseteq held'[f]
  BY <1>1, <1>3 DEF TypeOK
<1> QED
  BY <1>2, <1>4

\* Two runs under the lock of one file are one run.
LEMMA Alone ==
    ASSUME IInv, NEW r \in Runs, NEW s \in Runs,
           pc[r] \in Locked, pc[s] \in Locked, File(r) = File(s)
    PROVE  r = s
BY DEF IInv, RunOK, HoldsLock, Lock

\* A step of one run keeps what holds of another.
LEMMA OthersKept ==
    ASSUME IInv, NEW r \in Runs, Act(r), NEW s \in Runs, s # r
    PROVE  RunOK(s)'
<1>1. /\ ask' = ask /\ pc'[s] = pc[s] /\ effect'[s] = effect[s]
      /\ outcome'[s] = outcome[s]
      /\ \A l \in Locks : lock[l] = s => lock'[l] = s
      /\ s \in created' <=> s \in created
      /\ s \in rewrote' <=> s \in rewrote
  BY Frame DEF IInv
<1>2. RunOK(s) /\ TypeOK
  BY DEF IInv
<1>3. /\ File(s) \in Files /\ Old(s) \in Versions /\ New(s) \in Versions
      /\ Lock(s) \in Locks /\ File(r) \in Files
  BY <1>2, Ranges
<1>4. /\ File(s)' = File(s) /\ Old(s)' = Old(s) /\ New(s)' = New(s)
      /\ Lock(s)' = Lock(s)
  BY <1>1 DEF File, Old, New, Lock
<1>5. /\ archive[Old(s)] = "exact" => archive'[Old(s)] = "exact"
      /\ archive[Old(s)] # "absent" => archive'[Old(s)] # "absent"
      /\ New(s) \in held[File(s)] => New(s) \in held'[File(s)]
  BY <1>2, <1>3, Monotone
<1>6. Ordered(s)' /\ HoldsLock(s)'
  BY <1>1, <1>2, <1>3, <1>4 DEF RunOK, Ordered, HoldsLock
<1>7. InHand(s)'
  <2>1. pc[s] \in {"truncate", "rewrite"} => current'[File(s)] = current[File(s)]
    <3>1. CASE current' = current
      BY <3>1
    <3>2. CASE pc[r] \in {"truncate", "rewrite"} /\ \E v : current' = [current EXCEPT ![File(r)] = v]
      <4>1. pc[s] \in {"truncate", "rewrite"} => File(s) # File(r)
        BY <3>2, Alone DEF Locked
      <4> QED
        BY <3>2, <4>1, <1>2, <1>3 DEF TypeOK
    <3> QED
      BY <1>2, <3>1, <3>2, Frame DEF Truncate, Rewrite
  <2> QED
    BY <1>1, <1>2, <1>4, <1>5, <2>1 DEF RunOK, InHand
<1>8. Truthful(s)'
  BY <1>1, <1>2, <1>4, <1>5 DEF RunOK, Truthful, Says
<1> QED
  BY <1>6, <1>7, <1>8 DEF RunOK
-----------------------------------------------------------------------------
(* What a step does to its own run                                          *)

\* A request stays.
LEMMA Still ==
    ASSUME NEW r \in Runs, ask' = ask
    PROVE  /\ File(r)' = File(r) /\ Old(r)' = Old(r) /\ New(r)' = New(r)
           /\ Lock(r)' = Lock(r)
BY DEF File, Old, New, Lock

\* An effect that ends with a true receipt leaves its run in order.
LEMMA Finished ==
    ASSUME IInv, NEW r \in Runs, pc[r] \in Locked, NEW status \in EffectStatuses,
           Finish(r, status), Says(r, status),
           UNCHANGED <<disk, ask, outcome, history>>
    PROVE  RunOK(r)'
<1>1. /\ pc'[r] = "post" /\ effect'[r] = status /\ outcome'[r] = "none"
  BY DEF Finish, Go, IInv, TypeOK, RunOK, Ordered, Locked
<1>2. Ordered(r)' /\ HoldsLock(r)'
  BY <1>1 DEF Ordered, HoldsLock, Locked, EffectStatuses
<1>3. InHand(r)'
  BY <1>1, Still DEF InHand, IInv, RunOK, Untouched, Early, disk, history
<1>4. Truthful(r)'
  BY <1>1, Still DEF Truthful, Says, Untouched, Early, disk, history
<1> QED
  BY <1>2, <1>3, <1>4 DEF RunOK

\* So does a run that returns with a true receipt.
LEMMA Decided ==
    ASSUME IInv, NEW r \in Runs, NEW status \in Outcomes,
           Decide(r, status), Says(r, status),
           UNCHANGED <<disk, ask, effect, history>>
    PROVE  RunOK(r)'
<1>1. pc'[r] = "done" /\ effect'[r] = effect[r] /\ outcome'[r] = status
  BY DEF Decide, Go, IInv, TypeOK
<1>2. Ordered(r)' /\ HoldsLock(r)'
  BY <1>1 DEF Ordered, HoldsLock, Locked
<1>3. InHand(r)'
  BY <1>1, Still DEF InHand, IInv, RunOK, Untouched, Early, disk, history
<1>4. Truthful(r)'
  BY <1>1, Still DEF Truthful, Says, Untouched, Early, IInv, RunOK, disk, history
<1> QED
  BY <1>2, <1>3, <1>4 DEF RunOK

\* A run that comes to a step where nothing more is relied on than before.
LEMMA Moved ==
    ASSUME IInv, NEW r \in Runs, NEW step, Go(r, step),
           pc[r] \in Steps \ {"post"}, step \notin {"done", "post"},
           step \in Locked => lock'[Lock(r)] = r,
           step \in {"verify", "pin", "truncate", "rewrite", "readback"}
              => archive[Old(r)] = "exact",
           step = "truncate" => current[File(r)] = Old(r),
           step \in Early => pc[r] \in Early,
           step \in Untouched => pc[r] \in Untouched,
           step \notin {"fill", "rewrite", "readback"},
           UNCHANGED <<disk, ask, effect, outcome, history>>
    PROVE  RunOK(r)'
<1>1. pc'[r] = step /\ RunOK(r)
  BY DEF Go, IInv, TypeOK
<1>2. effect[r] = "none" /\ outcome[r] = "none"
  BY <1>1 DEF RunOK, Truthful, Ordered, Untouched, Early, Steps, Locked
<1>3. Ordered(r)' /\ HoldsLock(r)'
  BY <1>1, <1>2, Still DEF Ordered, HoldsLock
<1>4. InHand(r)'
  BY <1>1, Still DEF RunOK, InHand, disk, history
<1>5. Truthful(r)'
  BY <1>1, <1>2 DEF Truthful, Says
<1> QED
  BY <1>3, <1>4, <1>5 DEF RunOK

\* A step of a run keeps what holds of it: the steps that fail.
LEMMA OwnFailures ==
    ASSUME IInv, NEW r \in Runs, Failure(r)
    PROVE  RunOK(r)'
<1> USE DEF disk, history
<1>1. RunOK(r) /\ TypeOK
  BY DEF IInv
<1>2. CASE Raise(r)
  <2>1. CASE Decide(r, "rejected")
    <3>1. Says(r, "rejected")
      BY <1>1, <1>2 DEF Raise, Says, RunOK, InHand, Untouched, Early
    <3> QED
      BY <1>2, <2>1, <3>1, Decided DEF Raise, Outcomes
  <2>2. CASE Go(r, "crashed") /\ UNCHANGED outcome
    BY <1>2, <2>2, Moved DEF Raise, Steps, Locked, Untouched, Early
  <2> QED
    BY <1>2, <2>1, <2>2 DEF Raise
<1>3. CASE ArchiveFails(r)
  <2>1. lock[Lock(r)] = r
    BY <1>1, <1>3 DEF ArchiveFails, RunOK, HoldsLock, Locked
  <2> QED
    BY <1>3, <2>1, Moved DEF ArchiveFails, Steps, Locked, Untouched, Early
<1>4. CASE RewriteFails(r)
  <2>1. archive[Old(r)] = "exact"
    BY <1>1, <1>4 DEF RewriteFails, RunOK, InHand
  <2>2. Says(r, "failed_partial") /\ Says(r, "indeterminate")
    BY <2>1 DEF Says
  <2> QED
    BY <1>4, <2>2, Finished DEF RewriteFails, EffectStatuses, Locked
<1>5. CASE FinalizationFails(r)
  <2>1. effect[r] \in EffectStatuses /\ Says(r, effect[r])
    BY <1>1, <1>5 DEF FinalizationFails, RunOK, Ordered, Truthful, TypeOK
  <2> QED
    BY <1>5, <2>1, StatusSays, Decided DEF FinalizationFails
<1>6. CASE Crash(r)
  <2>1. /\ pc'[r] = "crashed" /\ effect' = effect /\ outcome' = outcome /\ ask' = ask
        /\ UNCHANGED <<disk, history>> /\ pc[r] # "done"
    BY <1>1, <1>6 DEF Crash, Go, TypeOK, Steps, Locked
  <2>2. Ordered(r)' /\ HoldsLock(r)'
    BY <1>1, <2>1 DEF RunOK, Ordered, HoldsLock, Locked
  <2>3. InHand(r)'
    BY <1>1, <2>1, Still DEF RunOK, InHand, Untouched, Early
  <2>4. Truthful(r)'
    BY <1>1, <2>1, Still DEF RunOK, Truthful, Says, Untouched, Early
  <2> QED
    BY <2>2, <2>3, <2>4 DEF RunOK
<1> QED
  BY <1>2, <1>3, <1>4, <1>5, <1>6 DEF Failure

\* A step of a run keeps what holds of it: the steps that succeed.
LEMMA OwnSteps ==
    ASSUME IInv, NEW r \in Runs, Step(r)
    PROVE  RunOK(r)'
<1> USE DEF disk, history
<1>1. /\ RunOK(r) /\ TypeOK /\ File(r) \in Files /\ Old(r) \in Versions
      /\ New(r) \in Versions /\ Lock(r) \in Locks
  BY Ranges DEF IInv
<1>2. pc[r] \in Locked => lock[Lock(r)] = r
  BY <1>1 DEF RunOK, HoldsLock
<1>3. CASE Validate(r)
  <2>1. Says(r, "rejected")
    BY <1>1, <1>3 DEF Validate, Says, RunOK, InHand, Untouched, Early
  <2> QED
    BY <1>3, <2>1, Moved, Decided DEF Validate, Steps, Locked, Untouched, Early, Outcomes
<1>4. CASE Plan(r)
  <2>1. Says(r, "rejected")
    BY <1>1, <1>4 DEF Plan, Says, RunOK, InHand, Untouched, Early
  <2> QED
    BY <1>4, <2>1, Moved, Decided DEF Plan, Steps, Locked, Untouched, Early, Outcomes
<1>5. CASE TakeLock(r)
  <2>1. lock'[Lock(r)] = r
    BY <1>1, <1>5 DEF TakeLock, TypeOK
  <2> QED
    BY <1>5, <2>1, Moved DEF TakeLock, Steps, Locked, Untouched, Early
<1>6. CASE BeforeEffect(r)
  <2>1. Says(r, "rejected")
    BY <1>1, <1>6 DEF BeforeEffect, Says, RunOK, InHand, Untouched, Early
  <2>2. CASE Go(r, "observe") /\ UNCHANGED <<lock, outcome>>
    BY <1>2, <1>6, <2>2, Moved DEF BeforeEffect, Steps, Locked, Untouched, Early
  <2>3. CASE Decide(r, "rejected")
    BY <1>6, <2>1, <2>3, Decided DEF BeforeEffect, Outcomes
  <2> QED
    BY <1>6, <2>2, <2>3 DEF BeforeEffect
<1>7. CASE Observe(r)
  <2>1. r \notin rewrote /\ r \notin created /\ pc[r] = "observe"
    BY <1>1, <1>7 DEF Observe, RunOK, InHand, Untouched, Early
  <2>2. Says(r, "failed_no_effect")
    BY <2>1 DEF Says
  <2>3. CASE current[File(r)] = New(r) /\ archive[Old(r)] = "exact"
    <3>1. New(r) \in held[File(r)]
      BY <1>1, <2>3, ArchiveConstants DEF IInv, Held
    <3>2. Says(r, "applied_verified") /\ Finish(r, "applied_verified")
      BY <1>7, <2>3, <3>1 DEF Says, Observe
    <3> QED
      BY <1>7, <2>1, <3>2, Finished DEF Observe, EffectStatuses, Locked
  <2>4. CASE ~(current[File(r)] = New(r) /\ archive[Old(r)] = "exact")
    <3>1. \/ Finish(r, "failed_no_effect")
          \/ Go(r, "archive") /\ UNCHANGED <<lock, effect>>
      BY <1>7, <2>4 DEF Observe
    <3>2. CASE Finish(r, "failed_no_effect")
      BY <1>7, <2>1, <2>2, <3>2, Finished DEF Observe, EffectStatuses, Locked
    <3>3. CASE Go(r, "archive") /\ UNCHANGED <<lock, effect>>
      BY <1>2, <1>7, <2>1, <3>3, Moved DEF Observe, Steps, Locked, Untouched, Early
    <3> QED
      BY <3>1, <3>2, <3>3
  <2> QED
    BY <2>3, <2>4
<1>8. CASE CreateArchive(r)
  <2>1. CASE archive[Old(r)] = "absent"
    <3>1. /\ pc'[r] = "fill" /\ archive'[Old(r)] = "unfinished" /\ r \in created'
          /\ UNCHANGED <<lock, ask, effect, outcome, rewrote>> /\ pc[r] = "archive"
      BY <1>1, <1>8, <2>1 DEF CreateArchive, Go, TypeOK
    <3>2. effect[r] = "none" /\ outcome[r] = "none" /\ r \notin rewrote
      BY <1>1, <3>1 DEF RunOK, Truthful, Ordered, InHand, Untouched, Early
    <3>3. Ordered(r)' /\ HoldsLock(r)'
      BY <1>2, <3>1, <3>2, Still DEF Ordered, HoldsLock, Locked
    <3>4. InHand(r)' /\ Truthful(r)'
      BY <3>1, <3>2, Still DEF InHand, Truthful, Says, Untouched, Early
    <3> QED
      BY <3>3, <3>4 DEF RunOK
  <2>2. CASE archive[Old(r)] # "absent"
    BY <1>2, <1>8, <2>2, Moved DEF CreateArchive, Steps, Locked, Untouched, Early
  <2> QED
    BY <2>1, <2>2
<1>9. CASE FillArchive(r)
  <2>1. /\ pc'[r] = "verify" /\ archive'[Old(r)] = "exact" /\ pc[r] = "fill"
        /\ UNCHANGED <<lock, ask, effect, outcome, created, rewrote>>
    BY <1>1, <1>9 DEF FillArchive, Go, TypeOK
  <2>2. effect[r] = "none" /\ outcome[r] = "none" /\ r \notin rewrote
    BY <1>1, <2>1 DEF RunOK, Truthful, Ordered, InHand, Untouched, Early
  <2>3. Ordered(r)' /\ HoldsLock(r)'
    BY <1>2, <2>1, <2>2, Still DEF Ordered, HoldsLock, Locked
  <2>4. InHand(r)' /\ Truthful(r)'
    BY <2>1, <2>2, Still DEF InHand, Truthful, Says, Untouched, Early
  <2> QED
    BY <2>3, <2>4 DEF RunOK
<1>10. CASE VerifyArchive(r)
  BY <1>1, <1>2, <1>10, Moved
  DEF VerifyArchive, RunOK, InHand, Steps, Locked, Untouched, Early
<1>11. CASE Conclude(r)
  <2>1. r \notin rewrote /\ (r \in created => archive[Old(r)] # "absent")
    BY <1>1, <1>11 DEF Conclude, RunOK, InHand, Untouched, Early
  <2>2. archive[Old(r)] \in ArchiveStates
    BY <1>1 DEF TypeOK
  <2>3. CASE archive[Old(r)] = "unfinished"
    BY <1>11, <2>3, Finished DEF Conclude, Says, EffectStatuses, Locked
  <2>4. CASE archive[Old(r)] # "unfinished"
    BY <1>11, <2>1, <2>2, <2>4, Finished
    DEF Conclude, Says, EffectStatuses, Locked, ArchiveStates
  <2> QED
    BY <2>3, <2>4
<1>12. CASE Pin(r)
  <2>1. archive[Old(r)] = "exact"
    BY <1>1, <1>12 DEF Pin, RunOK, InHand
  <2>2. CASE current[File(r)] = Old(r)
    BY <1>2, <1>12, <2>1, <2>2, Moved DEF Pin, Steps, Locked, Untouched, Early
  <2>3. CASE current[File(r)] # Old(r)
    BY <1>12, <2>1, <2>3, Finished DEF Pin, Says, EffectStatuses, Locked
  <2> QED
    BY <2>2, <2>3
<1>13. CASE Truncate(r)
  <2>1. /\ pc'[r] = "rewrite" /\ current'[File(r)] = Torn /\ pc[r] = "truncate"
        /\ UNCHANGED <<archive, lock, ask, effect, outcome, created, held>>
    BY <1>1, <1>13 DEF Truncate, Go, TypeOK
  <2>2. effect[r] = "none" /\ outcome[r] = "none" /\ archive[Old(r)] = "exact"
    BY <1>1, <2>1 DEF RunOK, Truthful, Ordered, InHand, Untouched, Early
  <2>3. Ordered(r)' /\ HoldsLock(r)'
    BY <1>2, <2>1, <2>2, Still DEF Ordered, HoldsLock, Locked
  <2>4. InHand(r)' /\ Truthful(r)'
    BY <2>1, <2>2, Still DEF InHand, Truthful, Says, Untouched, Early
  <2> QED
    BY <2>3, <2>4 DEF RunOK
<1>14. CASE Rewrite(r)
  <2>1. /\ pc'[r] = "readback" /\ New(r) \in held'[File(r)] /\ pc[r] = "rewrite"
        /\ UNCHANGED <<archive, lock, ask, effect, outcome, created, rewrote>>
    BY <1>1, <1>14 DEF Rewrite, Go, TypeOK
  <2>2. effect[r] = "none" /\ outcome[r] = "none" /\ archive[Old(r)] = "exact"
    BY <1>1, <2>1 DEF RunOK, Truthful, Ordered, InHand, Untouched, Early
  <2>3. Ordered(r)' /\ HoldsLock(r)'
    BY <1>2, <2>1, <2>2, Still DEF Ordered, HoldsLock, Locked
  <2>4. InHand(r)' /\ Truthful(r)'
    BY <2>1, <2>2, Still DEF InHand, Truthful, Says, Untouched, Early
  <2> QED
    BY <2>3, <2>4 DEF RunOK
<1>15. CASE ReadBack(r)
  <2>1. Says(r, "applied_verified")
    BY <1>1, <1>15 DEF ReadBack, Says, RunOK, InHand
  <2> QED
    BY <1>15, <2>1, Finished DEF ReadBack, EffectStatuses, Locked
<1>16. CASE PostOperation(r)
  <2>1. effect[r] \in EffectStatuses /\ Says(r, effect[r])
    BY <1>1, <1>16 DEF PostOperation, RunOK, Ordered, Truthful, TypeOK
  <2>2. PICK verified \in BOOLEAN : Decide(r, TerminalStatus(effect[r], verified))
    BY <1>16 DEF PostOperation
  <2> QED
    BY <1>16, <2>1, <2>2, StatusSays, Decided DEF PostOperation
<1> QED
  BY <1>3, <1>4, <1>5, <1>6, <1>7, <1>8, <1>9, <1>10, <1>11, <1>12, <1>13, <1>14, <1>15,
     <1>16 DEF Step

-----------------------------------------------------------------------------
(* The versions of a file                                                   *)

\* Only a file whose version is archived is cut off, and only the run that cut
\* it off fills it again.
LEMMA VersionsKept ==
    ASSUME IInv, NEW r \in Runs, Act(r)
    PROVE  NoLostVersion' /\ Held'
<1>1. /\ RunOK(r) /\ TypeOK /\ NoLostVersion /\ Held /\ File(r) \in Files
      /\ Old(r) \in Versions /\ New(r) \in Versions
  BY Ranges DEF IInv
<1>2. \A v \in Versions : archive[v] = "exact" => archive'[v] = "exact"
  BY <1>1, Monotone
<1>3. \A f \in Files : held[f] \subseteq Versions
  BY <1>1 DEF TypeOK
<1>4. CASE UNCHANGED <<current, held, rewrote>>
  <2>1. NoLostVersion'
    BY <1>1, <1>2, <1>3, <1>4 DEF NoLostVersion
  <2> QED
    BY <1>1, <1>4, <2>1 DEF Held
<1>5. CASE Truncate(r)
  <2>1. /\ held' = held /\ current' = [current EXCEPT ![File(r)] = Torn]
        /\ current[File(r)] = Old(r) /\ archive[Old(r)] = "exact"
    BY <1>1, <1>5 DEF Truncate, RunOK, InHand
  <2>2. NoLostVersion'
    BY <1>1, <1>2, <1>3, <2>1 DEF NoLostVersion, TypeOK
  <2>3. Held'
    BY <1>1, <2>1 DEF Held, TypeOK
  <2> QED
    BY <2>2, <2>3
<1>6. CASE Rewrite(r)
  <2>1. /\ held' = [held EXCEPT ![File(r)] = @ \cup {New(r)}]
        /\ current' = [current EXCEPT ![File(r)] = New(r)]
        /\ current[File(r)] = Torn
    BY <1>1, <1>6 DEF Rewrite, RunOK, InHand
  <2>2. \A v \in held[File(r)] : archive[v] = "exact"
    BY <1>1, <1>3, <2>1, ArchiveConstants DEF NoLostVersion
  <2>3. NoLostVersion'
    BY <1>1, <1>2, <1>3, <2>1, <2>2 DEF NoLostVersion, TypeOK
  <2>4. Held'
    BY <1>1, <2>1 DEF Held, TypeOK
  <2> QED
    BY <2>3, <2>4
<1> QED
  BY <1>1, <1>4, <1>5, <1>6, Frame

-----------------------------------------------------------------------------
(* Who is rewriting a file                                                  *)

WriterFacts ==
    \A f \in Files :
        /\ Writer(f) \in Runs \cup {NoRun}
        /\ \A r \in Runs : Writer(f) = r <=> pc[r] = "rewrite" /\ File(r) = f

LEMMA WriterIs == IInv => WriterFacts
<1> SUFFICES ASSUME IInv, NEW f \in Files
             PROVE  /\ Writer(f) \in Runs \cup {NoRun}
                    /\ \A r \in Runs : Writer(f) = r <=> pc[r] = "rewrite" /\ File(r) = f
  BY DEF WriterFacts
<1>1. CASE \E r \in Runs : pc[r] = "rewrite" /\ File(r) = f
  <2>1. Writer(f) \in Runs /\ pc[Writer(f)] = "rewrite" /\ File(Writer(f)) = f
    BY <1>1 DEF Writer
  <2>2. \A r \in Runs : pc[r] = "rewrite" /\ File(r) = f => r = Writer(f)
    BY <2>1, Alone DEF Locked
  <2> QED
    BY <2>1, <2>2
<1>2. CASE ~\E r \in Runs : pc[r] = "rewrite" /\ File(r) = f
  BY <1>2, ArchiveConstants DEF Writer
<1> QED
  BY <1>1, <1>2

LEMMA WriterIsNext == IInv' => WriterFacts'
BY WriterIs, PTL

-----------------------------------------------------------------------------
(* Theorems                                                                 *)

LEMMA InitIInv == Init => IInv
<1> SUFFICES ASSUME Init
             PROVE  IInv
  OBVIOUS
<1>1. TypeOK
  BY ArchiveConstants DEF Init, TypeOK, ArchiveStates, Steps, Outcomes
<1>2. NoLostVersion /\ Held
  BY DEF Init, NoLostVersion, Held
<1>3. ASSUME NEW r \in Runs
      PROVE  RunOK(r)
  <2>1. /\ pc[r] = "start" /\ effect[r] = "none" /\ outcome[r] = "none"
        /\ created = {} /\ rewrote = {}
    BY DEF Init
  <2> QED
    BY <2>1 DEF RunOK, Ordered, HoldsLock, InHand, Truthful, Says, Locked
<1> QED
  BY <1>1, <1>2, <1>3 DEF IInv

LEMMA NextIInv == IInv /\ [Next]_vars => IInv'
<1> SUFFICES ASSUME IInv, [Next]_vars
             PROVE  IInv'
  OBVIOUS
<1>1. CASE UNCHANGED vars
  <2>1. TypeOK' /\ NoLostVersion' /\ Held'
    BY <1>1 DEF vars, disk, history, IInv, TypeOK, NoLostVersion, Held
  <2>2. ASSUME NEW r \in Runs
        PROVE  RunOK(r)'
    <3>1. File(r)' = File(r) /\ Old(r)' = Old(r) /\ New(r)' = New(r) /\ Lock(r)' = Lock(r)
      BY <1>1, Still DEF vars
    <3> QED
      BY <1>1, <3>1
      DEF vars, disk, history, IInv, RunOK, Ordered, HoldsLock, InHand, Truthful, Says
  <2> QED
    BY <2>1, <2>2 DEF IInv
<1>2. CASE Next
  <2>1. PICK r \in Runs : Act(r)
    BY <1>2 DEF Next, Act
  <2>2. RunOK(r)'
    BY <2>1, OwnSteps, OwnFailures DEF Act
  <2>3. \A s \in Runs : RunOK(s)'
    BY <2>1, <2>2, OthersKept
  <2> QED
    BY <2>1, <2>3, TypeStep, VersionsKept DEF IInv
<1> QED
  BY <1>1, <1>2

LEMMA Invariance == Spec => []IInv
BY InitIInv, NextIInv, PTL DEF Spec

\* Every variable keeps its type, whatever fails.
THEOREM ArchiveTypeCorrect == Spec => []TypeOK
<1>1. IInv => TypeOK
  BY DEF IInv
<1> QED
  BY <1>1, Invariance, PTL

\* However many runs race, fail and die, over files that share their archive
\* but not their lock: no version that a file has held is lost.
THEOREM ArchiveKeepsVersions == Spec => []NoLostVersion
<1>1. IInv => NoLostVersion
  BY DEF IInv
<1> QED
  BY <1>1, Invariance, PTL

\* What the Phase receipt of a run says of the file and the archive is so, and
\* stays so.
THEOREM ArchiveReceiptsTrue == Spec => []ReceiptsAreTrue
<1>1. IInv => ReceiptsAreTrue
  BY DEF IInv, RunOK, Truthful, Says, ReceiptsAreTrue
<1> QED
  BY <1>1, Invariance, PTL

\* Every step stores a version, or is one of the two of a rewrite of a file
\* whose version is stored, or gives such a rewrite up, or changes nothing that
\* a reader can see.
THEOREM ArchiveImplementsVersionArchive == Spec => ImplementsVersionArchive
<1> DEFINE archived == {v \in Versions : archive[v] = "exact"}
           writer == [f \in Files |-> Writer(f)]
<1>1. Init => Store!Init
  <2> SUFFICES ASSUME Init
               PROVE  Store!Init
    OBVIOUS
  <2>1. \A f \in Files : Writer(f) = NoRun
    BY DEF Init, Writer
  <2> QED
    BY <2>1 DEF Init, Store!Init
<1>2. ASSUME IInv, [Next]_vars
      PROVE  [Store!Next]_(Store!vars)
  <2>1. CASE UNCHANGED vars
    <3>1. \A f \in Files : Writer(f)' = Writer(f)
      BY <2>1 DEF vars, Writer, File
    <3> QED
      BY <2>1, <3>1 DEF vars, disk, Store!vars
  <2>2. CASE Next
    <3>1. PICK r \in Runs : Act(r)
      BY <2>2 DEF Next, Act
    <3>2. /\ RunOK(r) /\ TypeOK /\ File(r) \in Files
          /\ Old(r) \in Versions /\ New(r) \in Versions
      BY <1>2, Ranges DEF IInv
    <3>3. IInv'
      BY <1>2, NextIInv
    <3>4. WriterFacts /\ WriterFacts'
      BY <1>2, <3>3, WriterIs, WriterIsNext
    <3>5. ask' = ask /\ \A s \in Runs : File(s)' = File(s)
      BY <3>1, <3>2, Frame DEF File
    <3>6. \A s \in Runs \ {r} : pc'[s] = pc[s]
      BY <3>1, <3>2, Frame
    <3>7. \A f \in Files : f # File(r) => Writer(f)' = Writer(f)
      BY <3>4, <3>5, <3>6, ArchiveConstants DEF WriterFacts
    <3>8. CASE Truncate(r)
      <4>1. Writer(File(r)) = NoRun
        <5>1. \A s \in Runs : Writer(File(r)) # s
          BY <1>2, <3>2, <3>4, <3>8, Alone DEF WriterFacts, Truncate, Locked
        <5> QED
          BY <3>2, <3>4, <3>5, <5>1 DEF WriterFacts
      <4>2. pc'[r] = "rewrite" /\ Writer(File(r))' = r
        <5>1. pc'[r] = "rewrite"
          BY <3>2, <3>8 DEF Truncate, Go, TypeOK
        <5> QED
          BY <3>2, <3>4, <3>5, <5>1 DEF WriterFacts
      <4>3. writer' = [writer EXCEPT ![File(r)] = r]
        BY <3>2, <3>5, <3>7, <4>2
      <4>4. /\ current[File(r)] = Old(r) /\ Old(r) \in archived /\ archived' = archived
            /\ current' = [current EXCEPT ![File(r)] = Torn]
        BY <3>2, <3>8 DEF Truncate, RunOK, InHand
      <4>5. Store!Tear(r)
        BY <3>2, <3>5, <4>1, <4>3, <4>4 DEF Store!Tear, File, Old
      <4> QED
        BY <4>5 DEF Store!Next
    <3>9. CASE Rewrite(r)
      <4>1. pc[r] = "rewrite" /\ Writer(File(r)) = r
        BY <3>2, <3>4, <3>9 DEF Rewrite, WriterFacts
      <4>2. pc'[r] = "readback"
        BY <3>2, <3>9 DEF Rewrite, Go, TypeOK
      <4>3. Writer(File(r))' = NoRun
        <5>1. \A s \in Runs : Writer(File(r))' # s
          BY <3>2, <3>4, <3>5, <3>6, <4>1, <4>2 DEF WriterFacts
        <5> QED
          BY <3>2, <3>4, <3>5, <5>1 DEF WriterFacts
      <4>4. writer' = [writer EXCEPT ![File(r)] = NoRun]
        BY <3>2, <3>5, <3>7, <4>3
      <4>5. archived' = archived /\ current' = [current EXCEPT ![File(r)] = New(r)]
        BY <3>9 DEF Rewrite
      <4>6. Store!Settle(r)
        BY <3>2, <3>5, <4>1, <4>4, <4>5 DEF Store!Settle, File, New
      <4> QED
        BY <4>6 DEF Store!Next
    <3>10. CASE UNCHANGED <<current, held, rewrote>>
      <4>1. pc'[r] # "rewrite"
        <5>1. pc'[r] = "rewrite" => Truncate(r)
          BY <3>1, <3>2, Frame
        <5>2. ~Truncate(r)
          BY <3>2, <3>10, ArchiveConstants DEF Truncate, RunOK, InHand, TypeOK
        <5> QED
          BY <5>1, <5>2
      <4>2. CASE pc[r] = "rewrite"
        <5>1. Writer(File(r)) = r
          BY <3>2, <3>4, <4>2 DEF WriterFacts
        <5>2. Writer(File(r))' = NoRun
          <6>1. \A s \in Runs : Writer(File(r))' # s
            BY <3>2, <3>4, <3>5, <3>6, <4>1, <5>1 DEF WriterFacts
          <6> QED
            BY <3>2, <3>4, <3>5, <6>1 DEF WriterFacts
        <5>3. writer' = [writer EXCEPT ![File(r)] = NoRun]
          BY <3>2, <3>5, <3>7, <5>2
        <5>4. archived' = archived
          BY <3>1, <3>2, <4>2, Frame
        <5>5. Store!Abandon(File(r))
          BY <3>5, <3>10, <5>3, <5>4 DEF Store!Abandon
        <5> QED
          BY <3>2, <5>5 DEF Store!Next
      <4>3. CASE pc[r] # "rewrite"
        <5>1. \A f \in Files : Writer(f)' = Writer(f)
          BY <3>2, <3>4, <3>5, <3>6, <3>7, <4>1, <4>3, ArchiveConstants DEF WriterFacts
        <5>2. writer' = writer
          BY <5>1
        <5>3. archived' = archived \/ archived' = archived \cup {Old(r)}
          BY <3>1, <3>2, Frame DEF TypeOK
        <5>4. CASE archived' = archived
          BY <3>5, <3>10, <5>2, <5>4 DEF Store!vars
        <5>5. CASE archived' = archived \cup {Old(r)}
          <6>1. PICK v \in Versions : v = Old(r)
            BY <3>2
          <6>2. Store!Store(v)
            BY <3>5, <3>10, <5>2, <5>5, <6>1 DEF Store!Store
          <6> QED
            BY <6>2 DEF Store!Next
        <5> QED
          BY <5>3, <5>4, <5>5
      <4> QED
        BY <4>2, <4>3
    <3> QED
      BY <3>1, <3>2, <3>8, <3>9, <3>10, Frame
  <2> QED
    BY <1>2, <2>1, <2>2
<1> QED
  BY <1>1, <1>2, Invariance, PTL DEF Spec, ImplementsVersionArchive, Store!Spec

-----------------------------------------------------------------------------
(* Torn files                                                               *)

\* What becomes of a run that has cut off a file and not filled it.
Confessed(r) ==
    LET failed == {"failed_partial", "indeterminate"} IN
    \/ pc[r] = "crashed"
    \/ pc[r] = "post" /\ effect[r] \in failed
    \/ pc[r] = "done" /\ outcome[r] \in failed

\* A torn file is being written under its lock, or the run that tore it has
\* failed, and has died or says so in its receipt.
TornIsKnown ==
    \A f \in Files :
        current[f] = Torn =>
            \E r \in rewrote :
                /\ File(r) = f
                /\ \/ pc[r] = "rewrite" /\ lock[Lock(r)] = r
                   \/ faults > 0 /\ Confessed(r)

\* The run that has torn a file gets it whole again, or fails.
LEMMA TearerGoes ==
    ASSUME IInv, NEW r \in Runs, Act(r), current'[File(r)] = Torn,
           pc[r] = "rewrite" \/ Confessed(r)
    PROVE  Confessed(r)' /\ (faults > 0 \/ pc[r] = "rewrite" => faults' > 0)
<1>1. TypeOK /\ File(r) \in Files /\ New(r) # Torn
  BY Ranges, ArchiveConstants DEF IInv
<1>2. pc[r] \notin {"done", "crashed"}
  BY DEF Act, Step, Validate, Plan, TakeLock, BeforeEffect, Observe, CreateArchive,
         FillArchive, VerifyArchive, Conclude, Pin, Truncate, Rewrite, ReadBack,
         PostOperation, Failure, Raise, ArchiveFails, RewriteFails, FinalizationFails,
         Crash, Steps, Locked
<1>3. ~Rewrite(r)
  BY <1>1 DEF Rewrite, TypeOK
<1>4. CASE pc[r] = "rewrite"
  <2>1. Fault /\ (RewriteFails(r) \/ Crash(r))
    BY <1>3, <1>4
    DEF Act, Step, Validate, Plan, TakeLock, BeforeEffect, Observe, CreateArchive,
        FillArchive, VerifyArchive, Conclude, Pin, Truncate, ReadBack, PostOperation,
        Failure, Raise, ArchiveFails, FinalizationFails
  <2>2. faults' > 0
    BY <1>1, <2>1 DEF Fault, TypeOK
  <2> QED
    BY <1>1, <2>1, <2>2 DEF RewriteFails, Crash, Finish, Go, Confessed, TypeOK
<1>5. CASE pc[r] = "post" /\ effect[r] \in {"failed_partial", "indeterminate"}
  <2>1. \/ PostOperation(r) /\ UNCHANGED faults
        \/ Fault /\ (FinalizationFails(r) \/ Crash(r))
    BY <1>5
    DEF Act, Step, Validate, Plan, TakeLock, BeforeEffect, Observe, CreateArchive,
        FillArchive, VerifyArchive, Conclude, Pin, Truncate, Rewrite, ReadBack,
        PostOperation, Failure, Raise, ArchiveFails, RewriteFails
  <2>2. faults > 0 => faults' > 0
    BY <1>1, <2>1 DEF Fault, TypeOK
  <2>3. ASSUME NEW v \in BOOLEAN, Decide(r, TerminalStatus(effect[r], v))
        PROVE  Confessed(r)'
    BY <1>1, <1>5, <2>3 DEF Decide, Go, TerminalStatus, Confessed, TypeOK
  <2>4. Confessed(r)'
    BY <1>1, <2>1, <2>3 DEF PostOperation, FinalizationFails, Crash, Go, Confessed, TypeOK
  <2> QED
    BY <1>5, <2>2, <2>4
<1> QED
  BY <1>2, <1>4, <1>5 DEF Confessed

LEMMA TornKept ==
    ASSUME IInv, IInv', TornIsKnown, NEW r \in Runs, Act(r)
    PROVE  TornIsKnown'
<1> SUFFICES ASSUME NEW f \in Files, current'[f] = Torn
             PROVE  \E s \in rewrote' :
                       /\ File(s)' = f
                       /\ \/ pc'[s] = "rewrite" /\ lock'[Lock(s)'] = s
                          \/ faults' > 0 /\ Confessed(s)'
  BY DEF TornIsKnown
<1>1. TypeOK /\ ask' = ask /\ File(r) \in Files /\ New(r) # Torn
  BY Ranges, Frame, ArchiveConstants DEF IInv
<1>2. faults' \in {faults, faults + 1} /\ faults \in Nat /\ rewrote \subseteq rewrote'
  <2>1. faults' = faults \/ faults' = faults + 1
    BY DEF Act, Step, Validate, Plan, TakeLock, BeforeEffect, Observe, CreateArchive,
           FillArchive, VerifyArchive, Conclude, Pin, Truncate, Rewrite, ReadBack,
           PostOperation, Failure, Fault
  <2> QED
    BY <1>1, <2>1, Frame DEF TypeOK
<1>3. CASE Truncate(r) /\ File(r) = f
  <2>1. pc'[r] = "rewrite" /\ lock[Lock(r)] = r /\ lock' = lock /\ r \in rewrote'
    BY <1>1, <1>3 DEF Truncate, Go, TypeOK, IInv, RunOK, HoldsLock, Locked
  <2>2. File(r)' = f /\ lock'[Lock(r)'] = r
    BY <1>1, <1>3, <2>1, Still
  <2> QED
    BY <2>1, <2>2
<1>4. CASE ~(Truncate(r) /\ File(r) = f)
  <2>1. current[f] = Torn
    BY <1>1, <1>4, Frame DEF TypeOK
  <2>2. PICK s \in rewrote : /\ File(s) = f
                             /\ \/ pc[s] = "rewrite" /\ lock[Lock(s)] = s
                                \/ faults > 0 /\ Confessed(s)
    BY <2>1 DEF TornIsKnown
  <2>3. s \in Runs /\ s \in rewrote' /\ File(s)' = f /\ Lock(s) \in Locks
    BY <1>1, <1>2, <2>2, Ranges DEF TypeOK, File
  <2>4. CASE s = r
    BY <2>2, <2>3, <2>4, TearerGoes
  <2>5. CASE s # r
    <3>1. /\ pc'[s] = pc[s] /\ effect'[s] = effect[s] /\ outcome'[s] = outcome[s]
          /\ lock[Lock(s)] = s => lock'[Lock(s)] = s
      BY <1>1, <2>3, <2>5, Frame
    <3>2. Confessed(s) => Confessed(s)'
      BY <3>1 DEF Confessed
    <3>3. faults > 0 => faults' > 0
      BY <1>2
    <3>4. Lock(s)' = Lock(s)
      BY <1>1 DEF Lock, File
    <3> QED
      BY <2>2, <2>3, <3>1, <3>2, <3>3, <3>4
  <2> QED
    BY <2>4, <2>5
<1> QED
  BY <1>3, <1>4

\* No file is ever torn unnoticed: the run that cut it off is filling it under
\* the lock, has died, or has a receipt that says partial or indeterminate.
THEOREM ArchiveTornIsKnown == Spec => []TornIsKnown
<1>1. Init => TornIsKnown
  BY ArchiveConstants DEF Init, TornIsKnown
<1>2. IInv /\ IInv' /\ TornIsKnown /\ [Next]_vars => TornIsKnown'
  <2> SUFFICES ASSUME IInv, IInv', TornIsKnown, [Next]_vars
               PROVE  TornIsKnown'
    OBVIOUS
  <2>1. CASE UNCHANGED vars
    BY <2>1 DEF vars, disk, history, TornIsKnown, Confessed, File, Lock
  <2>2. CASE Next
    BY <2>2, TornKept DEF Next, Act
  <2> QED
    BY <2>1, <2>2
<1> QED
  BY <1>1, <1>2, Invariance, PTL DEF Spec

-----------------------------------------------------------------------------
(* That runs end: what does not need fairness                               *)

\* Whoever holds a lock is at work on the file that the lock is for.
HolderLives ==
    \A l \in Locks :
        lock[l] # NoRun => /\ lock[l] \in Runs /\ pc[lock[l]] \in Locked
                           /\ l = Lock(lock[l])

\* The lock that the next step of a run waits for is free.
Ready(r) ==
    /\ pc[r] \in Steps
    /\ pc[r] = "lock" => lock[Lock(r)] = NoRun

\* While there is a run that has not ended, there is one that waits for nobody.
NoCircularWait == (\E r \in Runs : pc[r] \in Steps) => \E r \in Runs : Ready(r)

\* The steps that a run has before it, at most.
Remaining(step) ==
    CASE step = "start" -> 13   [] step = "plan" -> 12     [] step = "lock" -> 11
      [] step = "before" -> 10  [] step = "observe" -> 9   [] step = "archive" -> 8
      [] step = "fill" -> 7     [] step = "verify" -> 6    [] step = "pin" -> 5
      [] step = "truncate" -> 4 [] step = "rewrite" -> 3   [] step = "readback" -> 2
      [] step = "conclude" -> 2 [] step = "post" -> 1      [] OTHER -> 0

\* Whatever a run does takes it nearer to its end, and nothing another run does
\* takes it further away.
RunsOut ==
    \A r \in Runs :
        /\ Act(r) => Remaining(pc'[r]) < Remaining(pc[r])
        /\ ~Act(r) => pc'[r] = pc[r]

\* A run that has ended is not heard of again.
EndIsFinal ==
    \A r \in Runs :
        pc[r] \in {"done", "crashed"} =>
            /\ pc'[r] = pc[r] /\ outcome'[r] = outcome[r] /\ effect'[r] = effect[r]
            /\ r \in created' <=> r \in created
            /\ r \in rewrote' <=> r \in rewrote

\* Where a step leads.
LEMMA Course ==
    ASSUME TypeOK, NEW r \in Runs, Act(r)
    PROVE  /\ pc[r] \notin {"done", "crashed"}
           /\ \/ pc[r] = "start" /\ pc'[r] = "plan"
              \/ pc[r] = "plan" /\ pc'[r] = "lock"
              \/ pc[r] = "lock" /\ pc'[r] = "before"
              \/ pc[r] = "before" /\ pc'[r] = "observe"
              \/ pc[r] = "observe" /\ pc'[r] \in {"archive", "post"}
              \/ pc[r] = "archive" /\ pc'[r] \in {"fill", "pin", "conclude"}
              \/ pc[r] = "fill" /\ pc'[r] \in {"verify", "conclude"}
              \/ pc[r] = "verify" /\ pc'[r] \in {"pin", "conclude"}
              \/ pc[r] = "conclude" /\ pc'[r] = "post"
              \/ pc[r] = "pin" /\ pc'[r] \in {"truncate", "post"}
              \/ pc[r] = "truncate" /\ pc'[r] \in {"rewrite", "post"}
              \/ pc[r] = "rewrite" /\ pc'[r] \in {"readback", "post"}
              \/ pc[r] = "readback" /\ pc'[r] = "post"
              \/ pc[r] \in Steps /\ pc'[r] \in {"done", "crashed"}
<1>1. ASSUME NEW step, Go(r, step)
      PROVE  pc'[r] = step
  BY <1>1 DEF Go, TypeOK
<1>2. CASE Validate(r) \/ Plan(r) \/ TakeLock(r) \/ BeforeEffect(r) \/ PostOperation(r)
  BY <1>1, <1>2
  DEF Validate, Plan, TakeLock, BeforeEffect, PostOperation, Decide, Steps, Locked
<1>3. CASE \/ Observe(r) \/ CreateArchive(r) \/ FillArchive(r) \/ VerifyArchive(r)
           \/ Conclude(r)
  BY <1>1, <1>3 DEF Observe, CreateArchive, FillArchive, VerifyArchive, Conclude, Finish
<1>4. CASE Pin(r) \/ Truncate(r) \/ Rewrite(r) \/ ReadBack(r)
  BY <1>1, <1>4 DEF Pin, Truncate, Rewrite, ReadBack, Finish
<1>5. CASE Failure(r)
  <2>1. CASE Raise(r) \/ FinalizationFails(r) \/ Crash(r)
    BY <1>1, <2>1 DEF Raise, FinalizationFails, Crash, Decide, Steps, Locked
  <2>2. CASE ArchiveFails(r) \/ RewriteFails(r)
    BY <1>1, <2>2 DEF ArchiveFails, RewriteFails, Finish
  <2> QED
    BY <1>5, <2>1, <2>2 DEF Failure
<1> QED
  BY <1>2, <1>3, <1>4, <1>5 DEF Act, Step

\* The lock is taken by a run that goes to work on its file, and given back by
\* whoever leaves it.
LEMMA Handing ==
    ASSUME TypeOK, HolderLives, NEW r \in Runs, Act(r), NEW l \in Locks
    PROVE  /\ lock'[l] \in {lock[l], NoRun, r}
           /\ lock'[l] = r => pc'[r] \in Locked /\ l = Lock(r)
<1>1. NoRun # r /\ Lock(r) \in Locks
  BY ArchiveConstants, Ranges
<1>2. ASSUME NEW step, Go(r, step)
      PROVE  pc'[r] = step
  BY <1>2 DEF Go, TypeOK
<1>3. ASSUME Release(r)
      PROVE  lock'[l] \in {lock[l], NoRun} /\ lock'[l] # r
  BY <1>1, <1>3 DEF Release
<1>4. lock[l] = r => pc[r] \in Locked /\ l = Lock(r)
  BY <1>1 DEF HolderLives
<1>5. CASE Validate(r) \/ Plan(r) \/ PostOperation(r)
  BY <1>4, <1>5 DEF Validate, Plan, PostOperation, Locked
<1>6. CASE TakeLock(r)
  BY <1>1, <1>2, <1>4, <1>6 DEF TakeLock, TypeOK, Locked
<1>7. CASE BeforeEffect(r) \/ Observe(r) \/ CreateArchive(r) \/ FillArchive(r)
  BY <1>2, <1>3, <1>4, <1>7
  DEF BeforeEffect, Observe, CreateArchive, FillArchive, Finish, Locked
<1>8. CASE \/ VerifyArchive(r) \/ Conclude(r) \/ Pin(r) \/ Truncate(r) \/ Rewrite(r)
           \/ ReadBack(r)
  BY <1>2, <1>3, <1>4, <1>8
  DEF VerifyArchive, Conclude, Pin, Truncate, Rewrite, ReadBack, Finish, Locked
<1>9. CASE Failure(r)
  <2>1. CASE ArchiveFails(r)
    BY <1>2, <1>4, <2>1 DEF ArchiveFails, Locked
  <2>2. CASE FinalizationFails(r)
    BY <1>4, <2>2 DEF FinalizationFails, Locked
  <2>3. CASE Raise(r) \/ RewriteFails(r) \/ Crash(r)
    <3>1. Release(r)
      BY <2>3 DEF Raise, RewriteFails, Crash, Finish
    <3> QED
      BY <1>3, <3>1
  <2> QED
    BY <1>9, <2>1, <2>2, <2>3 DEF Failure
<1> QED
  BY <1>5, <1>6, <1>7, <1>8, <1>9 DEF Act, Step

LEMMA HolderInvariance == Spec => [](IInv /\ HolderLives)
<1>1. Init => HolderLives
  BY DEF Init, HolderLives
<1>2. IInv /\ HolderLives /\ [Next]_vars => HolderLives'
  <2> SUFFICES ASSUME TypeOK, HolderLives, [Next]_vars, NEW l \in Locks, lock'[l] # NoRun
               PROVE  /\ lock'[l] \in Runs /\ pc'[lock'[l]] \in Locked
                      /\ l = Lock(lock[l])'
    BY DEF IInv, HolderLives
  <2>1. CASE UNCHANGED vars
    BY <2>1 DEF vars, HolderLives, Lock, File
  <2>2. CASE Next
    <3>1. PICK r \in Runs : Act(r)
      BY <2>2 DEF Next, Act
    <3>2. ask' = ask
      BY <3>1, Frame
    <3>3. CASE lock'[l] = r
      BY <3>1, <3>2, <3>3, Handing DEF Lock, File
    <3>4. CASE lock'[l] # r
      <4>1. /\ lock'[l] = lock[l] /\ lock[l] \in Runs \ {r} /\ pc[lock[l]] \in Locked
            /\ l = Lock(lock[l])
        BY <3>1, <3>4, Handing DEF HolderLives
      <4> QED
        BY <3>1, <3>2, <4>1, Frame DEF Lock, File
    <3> QED
      BY <3>3, <3>4
  <2> QED
    BY <2>1, <2>2
<1> QED
  BY <1>1, <1>2, Invariance, PTL DEF Spec

\* Runs never wait for each other in a circle, for a dead run or for one that
\* has returned, whichever files share a lock.
THEOREM ArchiveNoCircularWait == Spec => [](HolderLives /\ NoCircularWait)
<1>1. IInv /\ HolderLives => NoCircularWait
  <2> SUFFICES ASSUME TypeOK, HolderLives, NEW r \in Runs, pc[r] \in Steps, ~Ready(r)
               PROVE  \E s \in Runs : Ready(s)
    BY DEF IInv, NoCircularWait
  <2>1. Lock(r) \in Locks /\ lock[Lock(r)] # NoRun
    BY Ranges DEF Ready
  <2>2. PICK s \in Runs : pc[s] \in Locked
    BY <2>1 DEF HolderLives
  <2>3. Ready(s)
    BY <2>2 DEF Ready, Locked, Steps
  <2> QED
    BY <2>3
<1> QED
  BY <1>1, HolderInvariance, PTL

\* A run takes at most thirteen steps, however it goes, and no other run adds to
\* them.
THEOREM ArchiveRunsOut == Spec => [][RunsOut]_vars
<1>1. IInv /\ [Next]_vars => [RunsOut]_vars
  <2> SUFFICES ASSUME IInv, Next, NEW r \in Runs
               PROVE  /\ Act(r) => Remaining(pc'[r]) < Remaining(pc[r])
                      /\ ~Act(r) => pc'[r] = pc[r]
    BY DEF RunsOut
  <2>1. TypeOK
    BY DEF IInv
  <2>2. ASSUME Act(r)
        PROVE  Remaining(pc'[r]) < Remaining(pc[r])
    BY <2>1, <2>2, Course DEF Remaining, Steps, Locked
  <2>3. ASSUME ~Act(r)
        PROVE  pc'[r] = pc[r]
    <3>1. PICK s \in Runs : Act(s)
      BY DEF Next, Act
    <3> QED
      BY <2>1, <2>3, <3>1, Frame
  <2> QED
    BY <2>2, <2>3
<1> QED
  BY <1>1, Invariance, PTL DEF Spec

\* What a run that has returned or died says and did stays as it is: nothing
\* takes a run up again, and a new run never writes in its name.
THEOREM ArchiveEndIsFinal == Spec => [][EndIsFinal]_vars
<1>1. IInv /\ [Next]_vars => [EndIsFinal]_vars
  <2> SUFFICES ASSUME IInv, Next, NEW r \in Runs, pc[r] \in {"done", "crashed"}
               PROVE  /\ pc'[r] = pc[r] /\ outcome'[r] = outcome[r]
                      /\ effect'[r] = effect[r]
                      /\ r \in created' <=> r \in created
                      /\ r \in rewrote' <=> r \in rewrote
    BY DEF EndIsFinal
  <2>1. TypeOK
    BY DEF IInv
  <2>2. PICK s \in Runs : Act(s)
    BY DEF Next, Act
  <2>3. s # r
    BY <2>1, <2>2, Course
  <2> QED
    BY <2>1, <2>2, <2>3, Frame
<1> QED
  BY <1>1, Invariance, PTL DEF Spec
=============================================================================
