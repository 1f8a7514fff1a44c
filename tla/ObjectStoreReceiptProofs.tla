---------------------- MODULE ObjectStoreReceiptProofs ----------------------
(***************************************************************************)
(* More theorems about ObjectStorePublish: that receipts are true, that    *)
(* publishers which share an objects root do not make each other fail, and *)
(* that what a dead run leaves can be classified.  They rest on the        *)
(* invariant of ObjectStorePublishProofs and on what the runs know beyond  *)
(* it, which is an invariant as well.                                      *)
(***************************************************************************)
EXTENDS ObjectStorePublishProofs

-----------------------------------------------------------------------------
(* The inductive invariant                                                  *)

\* Steps between the observation of the old version and the replacement.
Compared == {"capture", "ensure", "fill", "link", "sync", "stage",
             "fill_current", "revalidate", "replace"}

\* Under one root nobody else moves the file between observation and result.
StaysPut(r) ==
    OneRootPerFile /\ Untouched(Target(r))
        => /\ pc[r] \in Compared => current[Target(r)] = plan[r].old
           /\ pc[r] = "verify" => current[Target(r)] = plan[r].new

\* Before the objects are made there are none of the run's; the old one is
\* made first.
Makes(r) ==
    /\ pc[r] \in {"validate", "acquire", "before_effect", "observe", "capture"}
          => created[r] = {}
    /\ created[r] # {} => Exact(plan[r].old)

\* Once a run has captured the old version, its file holds that or one that
\* another run has archived and published.
MovedOn(r) ==
    /\ \/ pc[r] \in Compared \ {"capture"}
       \/ created[r] # {} \/ r \in swapped
    /\ Untouched(Target(r))
    => current[Target(r)] = plan[r].old \/ Exact(current[Target(r)])

\* What a result that ends the run says of it.
Told(r, result) ==
    LET alone == OneRootPerFile /\ Untouched(Target(r))
        nothing == created[r] = {} /\ r \notin swapped
    IN
    /\ result.status = "applied_verified"
          => Exact(plan[r].old) /\ Exact(plan[r].new)
    /\ result.status = "failed_no_effect" => nothing
    /\ result.code = "preconditions" => nothing
    /\ result.status = "failed_partial" /\ alone => r \notin swapped
    /\ result.status = "rejected" => r \notin swapped
    /\ alone /\ OwnLocators(r)
          => result.code \notin {"object_conflict", "changed_during_capture",
                                 "current_verification_failed", "result_mismatch"}

\* There is a receipt at the end only.
Honest(r) ==
    /\ pc[r] # "done" => receipt[r] = NoReceipt
    /\ Told(r, receipt[r])

RunTrue(r) == StaysPut(r) /\ Makes(r) /\ MovedOn(r) /\ Honest(r)

RInv == \A r \in Runs : RunTrue(r)

-----------------------------------------------------------------------------
(* The runs that do not step                                                *)

\* What every step of r leaves to the others.
Beside(r) ==
    /\ plan' = plan /\ edits' = edits
    /\ foreign' = foreign
    /\ \A q \in Runs \ {r} :
          /\ pc'[q] = pc[q] /\ receipt'[q] = receipt[q]
          /\ created'[q] = created[q]
          /\ q \in swapped' <=> q \in swapped
    /\ \A v : Exact(v) => Exact(v)'

LEMMA StepBeside ==
    ASSUME Inv, NEW r \in Runs, Progress(r) \/ Crash(r)
    PROVE  Beside(r)
<1> USE DEF Inv
<1>1. plan' = plan /\ edits' = edits /\ foreign' = foreign
  BY DEF Progress, Validate, AcquireLock, BeforeEffect, Observe, Capture,
         EnsureObject, FillObject, LinkObject, SyncObject, StageCurrent,
         FillCurrent, Revalidate, Replace, ReplaceFails, Verify, Unreported, Crash,
         store, history
<1>2. \/ UNCHANGED objects
      \/ pc[r] = "link" /\ objects' = [objects EXCEPT ![Wanted(r)] = "exact"]
  BY DEF Progress, Validate, AcquireLock, BeforeEffect, Observe, Capture,
         EnsureObject, FillObject, LinkObject, SyncObject, StageCurrent,
         FillCurrent, Revalidate, Replace, ReplaceFails, Verify, Unreported, Crash,
         store, RunOK, TempsFull
<1>3. \A v : Exact(v) => Exact(v)'
  BY <1>2, PlanFacts DEF Exact, TypeOK
<1>4. /\ created' = created \/ created' = [created EXCEPT ![r] = @ \cup {Wanted(r)}]
      /\ swapped' = swapped \/ swapped' = swapped \cup {r}
  BY DEF Progress, Validate, AcquireLock, BeforeEffect, Observe, Capture,
         EnsureObject, FillObject, LinkObject, SyncObject, StageCurrent,
         FillCurrent, Revalidate, Replace, ReplaceFails, Verify, Unreported, Crash,
         history
<1>5. \E step \in Steps : pc' = [pc EXCEPT ![r] = step]
  BY DEF Progress, Validate, AcquireLock, BeforeEffect, Observe, Capture,
         EnsureObject, FillObject, LinkObject, SyncObject, StageCurrent,
         FillCurrent, Revalidate, Replace, ReplaceFails, Verify, Unreported, Crash,
         Ensured, FailPartial, FailObject, AfterReplaceError, End, Go, Steps, Locked
<1>6. \/ UNCHANGED receipt
      \/ \E result : receipt' = [receipt EXCEPT ![r] = result]
  BY DEF Progress, Validate, AcquireLock, BeforeEffect, Observe, Capture,
         EnsureObject, FillObject, LinkObject, SyncObject, StageCurrent,
         FillCurrent, Revalidate, Replace, ReplaceFails, Verify, Unreported, Crash,
         FailPartial, FailObject, AfterReplaceError, End
<1> QED
  BY <1>1, <1>3, <1>4, <1>5, <1>6 DEF Beside, TypeOK

\* The file of a run that does not step stays, or another run publishes to it,
\* which needs another lock than its own.
LEMMA OthersTrue ==
    ASSUME Inv, NEW r \in Runs, Progress(r) \/ Crash(r),
           NEW q \in Runs \ {r}, RunTrue(q)
    PROVE  RunTrue(q)'
<1> USE DEF Inv
<1>1. Beside(r)
  BY StepBeside
<1>2. /\ Target(q)' = Target(q) /\ Untouched(Target(q))' = Untouched(Target(q))
      /\ OwnLocators(q)' = OwnLocators(q)
  BY <1>1 DEF Beside, Target, Untouched, OwnLocators
<1>3. \/ current'[Target(q)] = current[Target(q)]
      \/ /\ pc[r] = "replace" /\ Target(r) = Target(q)
         /\ Exact(current[Target(q)])'
  <2>1. CASE Replace(r)
    <3>1. /\ pc[r] = "replace"
          /\ current' = [current EXCEPT ![Target(r)] = plan[r].new]
      BY <2>1 DEF Replace, RunOK, TempsFull
    <3>2. Exact(plan[r].new)'
      BY <1>1, <3>1 DEF RunOK, Archived, Beside
    <3> QED BY <1>1, <3>1, <3>2, PlanFacts DEF TypeOK, Exact, Beside, Target
  <2>2. CASE ~Replace(r)
    BY <2>2
    DEF Progress, Validate, AcquireLock, BeforeEffect, Observe, Capture,
        EnsureObject, FillObject, LinkObject, SyncObject, StageCurrent,
        FillCurrent, Revalidate, ReplaceFails, Verify, Unreported, Crash, store
  <2> QED BY <2>1, <2>2
<1>4. StaysPut(q)'
  <2>1. OneRootPerFile /\ pc[q] \in Compared \cup {"verify"}
        => current'[Target(q)] = current[Target(q)]
    BY <1>3, PlanFacts
    DEF RunOK, HoldsLock, OneRootPerFile, Compared, Locked
  <2> QED BY <1>1, <1>2, <2>1 DEF RunTrue, StaysPut, Beside, Compared
<1>5. Makes(q)'
  BY <1>1 DEF RunTrue, Makes, Beside
<1>6. MovedOn(q)'
  BY <1>1, <1>2, <1>3 DEF RunTrue, MovedOn, Beside
<1>7. Honest(q)'
  <2>1. Told(q, receipt[q])'
    BY <1>1, <1>2 DEF RunTrue, Honest, Told, Beside
  <2> QED BY <1>1, <2>1 DEF RunTrue, Honest, Beside
<1> QED BY <1>4, <1>5, <1>6, <1>7 DEF RunTrue

LEMMA OutsideTrue ==
    ASSUME Inv, RInv, NEW q \in Runs,
           \/ \E f \in Files : OutsideEdit(f)
           \/ \E v \in Versions : OutsideObject(v)
    PROVE  RunTrue(q)'
<1> USE DEF Inv
<1>1. /\ plan' = plan /\ pc' = pc /\ receipt' = receipt
      /\ created' = created /\ swapped' = swapped
  BY DEF OutsideEdit, OutsideObject
<1>2. \A v : Exact(v) => Exact(v)'
  BY DEF OutsideEdit, OutsideObject, Exact, TypeOK
<1>3. foreign \subseteq foreign'
  BY DEF OutsideEdit, OutsideObject
<1>4. Untouched(Target(q))' =>
         Untouched(Target(q)) /\ current'[Target(q)] = current[Target(q)]
  <2>1. ASSUME NEW f \in Files, OutsideEdit(f)
        PROVE  Untouched(Target(q))' =>
                  Untouched(Target(q)) /\ current'[Target(q)] = current[Target(q)]
    <3>1. PICK v \in Versions \cup {Link} : current' = [current EXCEPT ![f] = v]
      BY <2>1 DEF OutsideEdit
    <3>2. edits' = [edits EXCEPT ![f] = @ + 1]
      BY <2>1 DEF OutsideEdit
    <3>3. edits[f] \in Nat
      BY PublishConstants, <2>1 DEF TypeOK
    <3> QED
      BY <1>1, <3>1, <3>2, <3>3, PlanFacts DEF Untouched, Target, TypeOK
  <2>2. ASSUME NEW v \in Versions, OutsideObject(v)
        PROVE  Untouched(Target(q))' =>
                  Untouched(Target(q)) /\ current'[Target(q)] = current[Target(q)]
    BY <1>1, <2>2 DEF OutsideObject, Untouched, Target
  <2> QED BY <2>1, <2>2
<1>5. OwnLocators(q)' => OwnLocators(q)
  BY <1>1, <1>3 DEF OwnLocators
<1>6. Target(q)' = Target(q)
  BY <1>1 DEF Target
<1>7. StaysPut(q)' /\ Makes(q)'
  BY <1>1, <1>2, <1>4, <1>6 DEF RInv, RunTrue, StaysPut, Makes
<1>8. MovedOn(q)'
  BY <1>1, <1>2, <1>4, <1>6 DEF RInv, RunTrue, MovedOn
<1>9. Honest(q)'
  BY <1>1, <1>2, <1>4, <1>5, <1>6 DEF RInv, RunTrue, Honest, Told
<1> QED BY <1>7, <1>8, <1>9 DEF RunTrue

-----------------------------------------------------------------------------
(* The run that steps                                                       *)

\* A run that goes on keeps its part if it knows where its file is.
LEMMA GoesTrue ==
    ASSUME Inv, NEW r \in Runs, Progress(r) \/ Crash(r), RunTrue(r),
           pc[r] # "done", receipt' = receipt, pc'[r] # "done",
           StaysPut(r)', Makes(r)', MovedOn(r)'
    PROVE  RunTrue(r)'
<1>1. receipt'[r] = NoReceipt
  BY DEF RunTrue, Honest
<1>2. Told(r, receipt[r])'
  BY <1>1 DEF Told, NoReceipt, Result
<1> QED BY <1>1, <1>2 DEF RunTrue, Honest

\* A run that ends with a result has told what it did.
LEMMA EndTrue ==
    ASSUME Inv, NEW r \in Runs, Progress(r), RunTrue(r), pc[r] # "done",
           NEW result, End(r, result), Told(r, result),
           UNCHANGED <<current, created, swapped>>
    PROVE  RunTrue(r)'
<1> USE DEF Inv
<1>1. Beside(r)
  BY StepBeside
<1>2. pc'[r] = "done" /\ receipt'[r] = result
  BY DEF End, Go, TypeOK
<1>3. /\ Target(r)' = Target(r) /\ Untouched(Target(r))' = Untouched(Target(r))
      /\ OwnLocators(r)' = OwnLocators(r)
  BY <1>1 DEF Beside, Target, Untouched, OwnLocators
<1>4. StaysPut(r)' /\ Makes(r)'
  BY <1>1, <1>2 DEF StaysPut, Makes, Compared, RunTrue, Beside
<1>5. MovedOn(r)'
  BY <1>1, <1>2, <1>3 DEF RunTrue, MovedOn, Compared, Beside
<1>6. Told(r, receipt[r])'
  BY <1>1, <1>2, <1>3 DEF Told, Beside
<1> QED BY <1>2, <1>4, <1>5, <1>6 DEF RunTrue, Honest

\* A crash leaves no receipt.
LEMMA CrashTrue ==
    ASSUME Inv, NEW r \in Runs, Crash(r), RunTrue(r)
    PROVE  RunTrue(r)'
<1> USE DEF Inv
<1>1. /\ pc[r] # "done" /\ pc'[r] = "crashed" /\ receipt' = receipt
      /\ UNCHANGED <<current, created, swapped>>
  BY DEF Crash, Go, TypeOK, Locked, store, history
<1>2. Beside(r)
  BY StepBeside
<1>3. StaysPut(r)' /\ Makes(r)'
  BY <1>1, <1>2 DEF StaysPut, Makes, Compared, RunTrue, Beside
<1>4. MovedOn(r)'
  BY <1>1, <1>2 DEF RunTrue, MovedOn, Compared, Beside, Target, Untouched
<1> QED BY <1>1, <1>3, <1>4, GoesTrue

\* A failure that is no conflict: the run has not replaced its file.
LEMMA FailureTold ==
    ASSUME Inv, NEW r \in Runs, RunTrue(r), NEW code,
           pc[r] \in Compared \cup {"validate", "acquire", "before_effect", "observe"},
           code \in {"write_failed", "temporary_write_failed", "replace_failed", "path"}
    PROVE  /\ Told(r, Partial(r, code))
           /\ \A status \in {"failed_partial", "rejected", "indeterminate",
                             "applied_unverified", "none"} :
                 Told(r, Result(status, code))
<1>1. r \notin swapped
  BY DEF Inv, RunOK, NotYet, Compared
<1> QED BY <1>1 DEF Told, Partial, Result

\* A conflict that another run has caused: with the locators and the file for
\* itself, the run would have found none.
LEMMA ConflictTold ==
    ASSUME Inv, NEW r \in Runs, RunTrue(r), NEW code,
           pc[r] \in Compared,
           \/ /\ code = "object_conflict"
              /\ objects[Wanted(r)] = "other"
           \/ /\ code \in {"changed_during_capture", "current_verification_failed"}
              /\ current[Target(r)] # plan[r].old
    PROVE  /\ Told(r, Partial(r, code))
           /\ Told(r, Result("rejected", code))
<1> USE DEF Inv
<1>1. r \notin swapped
  BY DEF RunOK, NotYet, Compared
<1>2. ~(OneRootPerFile /\ Untouched(Target(r)) /\ OwnLocators(r))
  <2>1. CASE objects[Wanted(r)] = "other"
    BY <2>1, PlanFacts DEF NoTornBytes, OwnLocators, Wanted
  <2>2. CASE current[Target(r)] # plan[r].old
    BY <2>2 DEF RunTrue, StaysPut
  <2> QED BY <2>1, <2>2
<1> QED BY <1>1, <1>2 DEF Told, Partial, Result

\* The result of an error at or after the replacement, by what is seen then.
LEMMA ReplaceErrorTold ==
    ASSUME Inv, NEW r \in Runs, RunTrue(r), pc[r] \in {"replace", "verify"},
           NEW code \in {"replace_failed", "post_replace_failed"},
           NEW status \in {"indeterminate", "applied_unverified", "failed_partial"},
           status = "failed_partial" => current[Target(r)] \notin {plan[r].new, Link}
    PROVE  Told(r, Result(status, code))
<1>1. pc[r] = "replace" => r \notin swapped
  BY DEF Inv, RunOK, NotYet
<1>2. /\ status = "failed_partial" /\ pc[r] = "verify"
      => ~(OneRootPerFile /\ Untouched(Target(r)))
  BY DEF RunTrue, StaysPut
<1> QED BY <1>1, <1>2 DEF Told, Result

LEMMA ValidateTrue ==
    ASSUME Inv, NEW r \in Runs, Validate(r) \/ BeforeEffect(r), RunTrue(r)
    PROVE  RunTrue(r)'
<1> USE DEF Inv
<1>1. /\ Progress(r) /\ pc[r] \in {"validate", "before_effect"}
      /\ UNCHANGED <<current, objects, plan, created, swapped, edits>>
  BY DEF Progress, Validate, BeforeEffect, store, history
<1>2. CASE /\ pc' = [pc EXCEPT ![r] = IF pc[r] = "validate" THEN "acquire" ELSE "observe"]
           /\ receipt' = receipt
  <2>1. pc'[r] \in {"acquire", "observe"}
    BY <1>2 DEF TypeOK
  <2> QED
    BY <1>1, <1>2, <2>1, GoesTrue
    DEF RunTrue, StaysPut, Makes, MovedOn, Compared, Target, Untouched, Exact
<1>3. CASE End(r, Result("rejected", "preconditions"))
  <2>1. Told(r, Result("rejected", "preconditions"))
    BY <1>1 DEF RunTrue, Makes, RunOK, NotYet, Told, Result
  <2> QED BY <1>1, <1>3, <2>1, EndTrue
<1> QED BY <1>2, <1>3 DEF Validate, BeforeEffect, Go

LEMMA AcquireLockTrue ==
    ASSUME Inv, NEW r \in Runs, AcquireLock(r), RunTrue(r)
    PROVE  RunTrue(r)'
<1> USE DEF Inv
<1>1. /\ Progress(r) /\ pc[r] = "acquire" /\ pc'[r] = "before_effect"
      /\ UNCHANGED <<current, objects, plan, created, swapped, edits, receipt>>
  BY DEF Progress, AcquireLock, Go, store, history, TypeOK
<1> QED
  BY <1>1, GoesTrue
  DEF RunTrue, StaysPut, Makes, MovedOn, Compared, Target, Untouched, Exact

LEMMA ObserveTrue ==
    ASSUME Inv, NEW r \in Runs, Observe(r), RunTrue(r)
    PROVE  RunTrue(r)'
<1> USE DEF Inv
<1>1. /\ Progress(r) /\ pc[r] = "observe"
      /\ UNCHANGED <<current, objects, plan, created, swapped, edits>>
  BY DEF Progress, Observe, store, history
<1>2. created[r] = {} /\ r \notin swapped
  BY <1>1 DEF RunTrue, Makes, RunOK, NotYet
<1>3. CASE End(r, Result("rejected", "path"))
  BY <1>1, <1>3, EndTrue, FailureTold
<1>4. CASE /\ Exact(plan[r].old) /\ Exact(plan[r].new)
           /\ End(r, Result("applied_verified", "none"))
  <2>1. Told(r, Result("applied_verified", "none"))
    BY <1>4 DEF Told, Result
  <2> QED BY <1>1, <1>4, <2>1, EndTrue
<1>5. CASE End(r, Result("failed_no_effect", "current_mismatch"))
  <2>1. Told(r, Result("failed_no_effect", "current_mismatch"))
    BY <1>2 DEF Told, Result
  <2> QED BY <1>1, <1>5, <2>1, EndTrue
<1>6. CASE /\ current[Target(r)] = plan[r].old
           /\ Go(r, "capture") /\ receipt' = receipt
  <2>1. pc'[r] = "capture"
    BY <1>6 DEF Go, TypeOK
  <2> QED
    BY <1>1, <1>2, <1>6, <2>1, GoesTrue
    DEF RunTrue, StaysPut, Makes, MovedOn, Compared, Target, Untouched, Exact
<1> QED BY <1>3, <1>4, <1>5, <1>6, PlanFacts DEF Observe, Exact, Target

LEMMA CaptureTrue ==
    ASSUME Inv, NEW r \in Runs, Capture(r), RunTrue(r)
    PROVE  RunTrue(r)'
<1> USE DEF Inv
<1>1. /\ Progress(r) /\ pc[r] = "capture"
      /\ UNCHANGED <<current, objects, plan, created, swapped, edits>>
  BY DEF Progress, Capture, store, history
<1>2. CASE /\ current[Target(r)] = plan[r].old
           /\ Go(r, "ensure") /\ receipt' = receipt
  <2>1. pc'[r] = "ensure"
    BY <1>2 DEF Go, TypeOK
  <2> QED
    BY <1>1, <1>2, <2>1, GoesTrue
    DEF RunTrue, StaysPut, Makes, MovedOn, Compared, Target, Untouched, Exact
<1>3. CASE /\ current[Target(r)] # plan[r].old
           /\ End(r, Result("rejected", "changed_during_capture"))
  <2>1. Told(r, Result("rejected", "changed_during_capture"))
    BY <1>1, <1>3, ConflictTold DEF Compared
  <2> QED BY <1>1, <1>3, <2>1, EndTrue
<1> QED BY <1>2, <1>3 DEF Capture

\* Between capture and replacement a run writes no file; when it has made an
\* object, the old one is there.
LEMMA CompareTrue ==
    ASSUME Inv, NEW r \in Runs, Progress(r), RunTrue(r),
           pc[r] \in Compared \ {"capture"}, pc'[r] \in Compared \ {"capture"},
           receipt' = receipt, current' = current, swapped' = swapped,
           created'[r] = created[r] \/ Exact(plan[r].old)'
    PROVE  RunTrue(r)'
<1>1. Beside(r)
  BY StepBeside
<1>2. StaysPut(r)'
  BY <1>1 DEF RunTrue, StaysPut, Beside, Compared, Target, Untouched
<1>3. Makes(r)'
  BY <1>1 DEF RunTrue, Makes, Beside, Compared
<1>4. MovedOn(r)'
  BY <1>1 DEF RunTrue, MovedOn, Beside, Compared, Target, Untouched
<1> QED BY <1>2, <1>3, <1>4, GoesTrue DEF Compared

\* Where _ensure_object returns, or fails with a result.
LEMMA EnsuredOrFailed ==
    ASSUME TypeOK, NEW r \in Runs, Ensured(r)
    PROVE  pc'[r] \in {"ensure", "stage"}
BY DEF Ensured, Go, TypeOK

LEMMA EnsureObjectTrue ==
    ASSUME Inv, NEW r \in Runs, EnsureObject(r), RunTrue(r)
    PROVE  RunTrue(r)'
<1> USE DEF Inv
<1>1. /\ Progress(r) /\ pc[r] = "ensure"
      /\ UNCHANGED <<current, objects, plan, created, swapped, edits>>
  BY DEF Progress, EnsureObject, store, history
<1>2. CASE pc'[r] \in {"ensure", "stage", "fill"} /\ receipt' = receipt
  BY <1>1, <1>2, CompareTrue DEF Compared
<1>3. CASE objects[Wanted(r)] = "other" /\ End(r, Partial(r, "object_conflict"))
  <2>1. Told(r, Partial(r, "object_conflict"))
    BY <1>1, <1>3, ConflictTold DEF Compared
  <2> QED BY <1>1, <1>3, <2>1, EndTrue
<1> QED
  BY <1>2, <1>3, EnsuredOrFailed DEF EnsureObject, FailObject, Go, TypeOK

LEMMA FillTrue ==
    ASSUME Inv, NEW r \in Runs, RunTrue(r),
           FillObject(r) \/ StageCurrent(r) \/ FillCurrent(r)
    PROVE  RunTrue(r)'
<1> USE DEF Inv
<1>1. /\ Progress(r) /\ pc[r] \in {"fill", "stage", "fill_current"}
      /\ UNCHANGED <<current, objects, plan, created, swapped, edits>>
  BY DEF Progress, FillObject, StageCurrent, FillCurrent, store, history
<1>2. CASE pc'[r] \in {"link", "fill_current", "revalidate"} /\ receipt' = receipt
  BY <1>1, <1>2, CompareTrue DEF Compared
<1>3. ASSUME NEW code \in {"write_failed", "temporary_write_failed"},
             End(r, Partial(r, code))
      PROVE  RunTrue(r)'
  <2>1. Told(r, Partial(r, code))
    BY <1>1, FailureTold DEF Compared
  <2> QED BY <1>1, <1>3, <2>1, EndTrue
<1> QED
  BY <1>2, <1>3
  DEF FillObject, StageCurrent, FillCurrent, FailObject, FailPartial, Go, TypeOK

LEMMA LinkObjectTrue ==
    ASSUME Inv, NEW r \in Runs, LinkObject(r), RunTrue(r)
    PROVE  RunTrue(r)'
<1> USE DEF Inv
<1>1. /\ Progress(r) /\ pc[r] = "link"
      /\ UNCHANGED <<current, plan, swapped, edits>>
  BY DEF Progress, LinkObject
<1>2. CASE /\ objects' = [objects EXCEPT ![Wanted(r)] = "exact"]
           /\ pc'[r] = "sync" /\ receipt' = receipt
  <2>1. Exact(plan[r].old)'
    BY <1>1, <1>2, PlanFacts
    DEF RunOK, Archived, Wanted, Exact, TypeOK, Slots
  <2> QED BY <1>1, <1>2, <2>1, CompareTrue DEF Compared
<1>3. CASE /\ pc'[r] \in {"ensure", "stage"} /\ receipt' = receipt
           /\ created' = created
  BY <1>1, <1>3, CompareTrue DEF Compared
<1>4. CASE /\ End(r, Partial(r, IF objects[Wanted(r)] = "other"
                                  THEN "object_conflict" ELSE "write_failed"))
           /\ created' = created
  <2> DEFINE code == IF objects[Wanted(r)] = "other"
                       THEN "object_conflict" ELSE "write_failed"
  <2>1. Told(r, Partial(r, code))
    <3>1. CASE objects[Wanted(r)] = "other"
      BY <1>1, <3>1, ConflictTold DEF Compared
    <3>2. CASE objects[Wanted(r)] # "other"
      BY <1>1, <3>2, FailureTold DEF Compared
    <3> QED BY <3>1, <3>2
  <2> QED BY <1>1, <1>4, <2>1, EndTrue
<1>5. objTemp[r] = "full"
  BY <1>1 DEF RunOK, TempsFull
<1> QED
  BY <1>2, <1>3, <1>4, <1>5, EnsuredOrFailed
  DEF LinkObject, FailObject, Go, TypeOK

LEMMA SyncObjectTrue ==
    ASSUME Inv, NEW r \in Runs, SyncObject(r), RunTrue(r)
    PROVE  RunTrue(r)'
<1> USE DEF Inv
<1>1. /\ Progress(r) /\ pc[r] = "sync"
      /\ UNCHANGED <<current, objects, plan, created, swapped, edits>>
  BY DEF Progress, SyncObject, history
<1>2. CASE pc'[r] \in {"ensure", "stage"} /\ receipt' = receipt
  BY <1>1, <1>2, CompareTrue DEF Compared
<1>3. CASE End(r, Partial(r, "write_failed"))
  <2>1. Told(r, Partial(r, "write_failed"))
    BY <1>1, FailureTold DEF Compared
  <2> QED BY <1>1, <1>3, <2>1, EndTrue
<1> QED BY <1>2, <1>3, EnsuredOrFailed DEF SyncObject, FailObject

LEMMA RevalidateTrue ==
    ASSUME Inv, NEW r \in Runs, Revalidate(r), RunTrue(r)
    PROVE  RunTrue(r)'
<1> USE DEF Inv
<1>1. /\ Progress(r) /\ pc[r] = "revalidate"
      /\ UNCHANGED <<current, objects, plan, created, swapped, edits>>
  BY DEF Progress, Revalidate, store, history
<1>2. CASE pc'[r] = "replace" /\ receipt' = receipt
  BY <1>1, <1>2, CompareTrue DEF Compared
<1>3. CASE /\ current[Target(r)] # plan[r].old
           /\ End(r, Partial(r, "current_verification_failed"))
  <2>1. Told(r, Partial(r, "current_verification_failed"))
    BY <1>1, <1>3, ConflictTold DEF Compared
  <2> QED BY <1>1, <1>3, <2>1, EndTrue
<1> QED BY <1>2, <1>3 DEF Revalidate, FailPartial, Go, TypeOK

LEMMA ReplaceTrue ==
    ASSUME Inv, NEW r \in Runs, Replace(r), RunTrue(r)
    PROVE  RunTrue(r)'
<1> USE DEF Inv
<1>1. /\ Progress(r) /\ pc[r] = "replace" /\ pc'[r] = "verify"
      /\ current' = [current EXCEPT ![Target(r)] = plan[r].new]
      /\ UNCHANGED <<objects, plan, created, edits, receipt>>
  BY DEF Progress, Replace, Go, RunOK, TempsFull, TypeOK
<1>2. current'[Target(r)] = plan[r].new
  BY <1>1, PlanFacts DEF TypeOK
<1>3. Exact(plan[r].new)'
  BY <1>1 DEF RunOK, Archived, Exact
<1>4. StaysPut(r)' /\ Makes(r)'
  BY <1>1, <1>2 DEF RunTrue, StaysPut, Makes, Compared, Target, Exact
<1>5. MovedOn(r)'
  BY <1>1, <1>2, <1>3 DEF MovedOn, Target
<1> QED BY <1>1, <1>4, <1>5, GoesTrue

LEMMA ReplaceErrorTrue ==
    ASSUME Inv, NEW r \in Runs, Progress(r), RunTrue(r),
           pc[r] \in {"replace", "verify"},
           NEW code \in {"replace_failed", "post_replace_failed"},
           AfterReplaceError(r, code), UNCHANGED <<current, created, swapped>>
    PROVE  RunTrue(r)'
<1>1. PICK status \in {"indeterminate", "applied_unverified", "failed_partial"} :
         /\ status = "failed_partial" => current[Target(r)] \notin {plan[r].new, Link}
         /\ End(r, Result(status, code))
  BY DEF AfterReplaceError
<1>2. Told(r, Result(status, code))
  BY <1>1, ReplaceErrorTold
<1> QED BY <1>1, <1>2, EndTrue

LEMMA VerifyTrue ==
    ASSUME Inv, NEW r \in Runs, Verify(r), RunTrue(r)
    PROVE  RunTrue(r)'
<1> USE DEF Inv
<1>1. /\ Progress(r) /\ pc[r] = "verify"
      /\ UNCHANGED <<current, objects, plan, created, swapped, edits>>
  BY DEF Progress, Verify, store, history
<1>2. Exact(plan[r].old) /\ Exact(plan[r].new)
  BY <1>1 DEF RunOK, Archived
<1>3. CASE AfterReplaceError(r, "post_replace_failed")
  BY <1>1, <1>3, ReplaceErrorTrue
<1>4. CASE End(r, Result("applied_verified", "none"))
  <2>1. Told(r, Result("applied_verified", "none"))
    BY <1>2 DEF Told, Result
  <2> QED BY <1>1, <1>4, <2>1, EndTrue
<1>5. CASE /\ current[Target(r)] # plan[r].new
           /\ End(r, Result("applied_unverified", "result_mismatch"))
  <2>1. Told(r, Result("applied_unverified", "result_mismatch"))
    BY <1>1, <1>5 DEF Told, Result, RunTrue, StaysPut
  <2> QED BY <1>1, <1>5, <2>1, EndTrue
<1> QED BY <1>2, <1>3, <1>4, <1>5 DEF Verify, Exact, Target

LEMMA UnreportedTrue ==
    ASSUME Inv, NEW r \in Runs, Unreported(r), RunTrue(r)
    PROVE  RunTrue(r)'
<1>1. /\ Progress(r) /\ pc[r] # "done"
      /\ UNCHANGED <<current, created, swapped>>
      /\ End(r, NoReceipt)
  BY DEF Progress, Unreported, Locked, store, history
<1>2. Told(r, NoReceipt)
  BY DEF Told, NoReceipt, Result
<1> QED BY <1>1, <1>2, EndTrue

LEMMA OwnTrue ==
    ASSUME Inv, NEW r \in Runs, Progress(r) \/ Crash(r), RunTrue(r)
    PROVE  RunTrue(r)'
<1>1. CASE ReplaceFails(r)
  <2>1. Progress(r) /\ pc[r] = "replace" /\ UNCHANGED <<current, created, swapped>>
    BY <1>1 DEF Progress, ReplaceFails, store, history
  <2> QED BY <1>1, <2>1, ReplaceErrorTrue DEF ReplaceFails
<1>2. CASE ~ReplaceFails(r)
  BY <1>2, ValidateTrue, AcquireLockTrue, ObserveTrue, CaptureTrue,
     EnsureObjectTrue, FillTrue, LinkObjectTrue, SyncObjectTrue, RevalidateTrue,
     ReplaceTrue, VerifyTrue, UnreportedTrue, CrashTrue DEF Progress
<1> QED BY <1>1, <1>2

LEMMA InitRInv == Init => RInv
<1> SUFFICES ASSUME Init, NEW r \in Runs PROVE RunTrue(r)
  BY DEF RInv
<1>1. StaysPut(r) /\ Makes(r) /\ MovedOn(r)
  BY DEF Init, StaysPut, Makes, MovedOn, Compared
<1>2. Honest(r)
  BY DEF Init, Honest, Told, NoReceipt, Result
<1> QED BY <1>1, <1>2 DEF RunTrue

LEMMA NextRInv == Inv /\ RInv /\ [Next]_vars => RInv'
<1> SUFFICES ASSUME Inv, RInv, [Next]_vars, NEW q \in Runs
             PROVE  RunTrue(q)'
  BY DEF RInv
<1>1. ASSUME NEW r \in Runs, Progress(r) \/ Crash(r) PROVE RunTrue(q)'
  <2>1. CASE q = r
    BY <1>1, <2>1, OwnTrue DEF RInv
  <2>2. CASE q # r
    BY <1>1, <2>2, OthersTrue DEF RInv
  <2> QED BY <2>1, <2>2
<1>2. CASE UNCHANGED vars
  BY <1>2
  DEF RInv, RunTrue, StaysPut, Makes, MovedOn, Honest, Told, OwnLocators, Exact,
      Untouched, Target, vars, store, history
<1> QED BY <1>1, <1>2, OutsideTrue DEF Next

LEMMA RunsStayTrue == Spec => [](Inv /\ RInv)
BY InitRInv, NextRInv, Invariance, PTL DEF Spec

-----------------------------------------------------------------------------
(* The theorems                                                             *)

\* Whatever fails, and whoever writes without Phase: what an effect receipt
\* says of objects and file is so, and stays so.
THEOREM PublishReceiptsTrue == Spec => []ReceiptTruth
<1>1. RInv => ReceiptTruth
  BY DEF RInv, RunTrue, Honest, Told, ReceiptTruth
<1> QED BY <1>1, RunsStayTrue, PTL

\* Any number of publishers that share an objects root, without a lock on it,
\* never make each other fail.
THEOREM PublishersAreHarmless == Spec => []SharingIsHarmless
<1>1. RInv => SharingIsHarmless
  BY DEF RInv, RunTrue, Honest, Told, SharingIsHarmless
<1> QED BY <1>1, RunsStayTrue, PTL

\* Whatever step a run failed or died at, also under two locks for one file:
\* inspection can classify what it left.
THEOREM WhatIsLeftIsRecoverable == Spec => []Recoverable
<1>1. ASSUME Inv, RInv, NEW r \in Runs,
             created[r] # {} \/ r \in swapped,
             Untouched(Target(r)), OwnLocators(r),
             current[Target(r)] \in {plan[r].old, plan[r].new}
      PROVE  Classify(plan[r]) # "blocked"
  <2>1. /\ plan[r].old \in Versions /\ plan[r].new \in Versions
        /\ Target(r) = plan[r].file
    BY <1>1, PlanFacts DEF Inv, Target
  <2>2. /\ objects[plan[r].old] = "exact"
        /\ objects[plan[r].new] \in {"absent", "exact"}
    BY <1>1, <2>1
    DEF Inv, RInv, RunTrue, Makes, NoLostVersion, NoTornBytes, OwnLocators, Exact,
        TypeOK
  <2>3. current[plan[r].file] # plan[r].old => objects[plan[r].new] = "exact"
    BY <1>1, <2>1 DEF RInv, RunTrue, MovedOn, Exact
  <2> QED BY <1>1, <2>1, <2>2, <2>3 DEF Classify
<1>2. Inv /\ RInv => Recoverable
  BY <1>1 DEF Recoverable
<1> QED BY <1>2, RunsStayTrue, PTL

-----------------------------------------------------------------------------
(* The course of a run                                                      *)

\* Where a step leads: on, to the second object, or to an end.
LEMMA Course ==
    ASSUME TypeOK, NEW r \in Runs, Progress(r) \/ Crash(r)
    PROVE  \/ /\ <<pc[r], pc'[r]>> \in
                    {<<"validate", "acquire">>, <<"acquire", "before_effect">>,
                     <<"before_effect", "observe">>, <<"observe", "capture">>,
                     <<"capture", "ensure">>, <<"ensure", "fill">>, <<"fill", "link">>,
                     <<"link", "sync">>, <<"stage", "fill_current">>,
                     <<"fill_current", "revalidate">>, <<"revalidate", "replace">>,
                     <<"replace", "verify">>}
              /\ slot'[r] = slot[r]
           \/ /\ pc[r] \in {"ensure", "link", "sync"} /\ slot[r] = "old"
              /\ pc'[r] = "ensure" /\ slot'[r] = "new"
           \/ /\ pc[r] \in {"ensure", "link", "sync"} /\ slot[r] = "new"
              /\ pc'[r] = "stage" /\ slot'[r] = "new"
           \/ /\ pc[r] \notin {"done", "crashed"} /\ pc'[r] \in {"done", "crashed"}
              /\ slot'[r] = slot[r]
<1>1. ASSUME NEW step, Go(r, step)
      PROVE  pc'[r] = step
  BY <1>1 DEF Go, TypeOK
<1>2. ASSUME NEW result, End(r, result)
      PROVE  pc'[r] = "done"
  BY <1>1, <1>2 DEF End
<1>3. ASSUME Ensured(r)
      PROVE  \/ slot[r] = "old" /\ pc'[r] = "ensure" /\ slot'[r] = "new"
             \/ slot[r] = "new" /\ pc'[r] = "stage" /\ slot'[r] = "new"
  BY <1>1, <1>3 DEF Ensured, TypeOK, Slots
<1>4. CASE \/ Validate(r) \/ AcquireLock(r) \/ BeforeEffect(r) \/ Observe(r)
           \/ Capture(r)
  BY <1>1, <1>2, <1>4 DEF Validate, AcquireLock, BeforeEffect, Observe, Capture
<1>11. CASE Unreported(r) \/ Crash(r)
  BY <1>1, <1>2, <1>11 DEF Unreported, Crash, Locked
<1>5. CASE EnsureObject(r)
  BY <1>1, <1>2, <1>3, <1>5 DEF EnsureObject, FailObject
<1>6. CASE FillObject(r)
  BY <1>1, <1>2, <1>6 DEF FillObject, FailObject
<1>7. CASE LinkObject(r)
  BY <1>1, <1>2, <1>3, <1>7 DEF LinkObject, FailObject
<1>8. CASE SyncObject(r)
  BY <1>1, <1>2, <1>3, <1>8 DEF SyncObject, FailObject
<1>9. CASE StageCurrent(r) \/ FillCurrent(r) \/ Revalidate(r)
  BY <1>1, <1>2, <1>9 DEF StageCurrent, FillCurrent, Revalidate, FailPartial
<1>10. CASE Replace(r) \/ ReplaceFails(r) \/ Verify(r)
  BY <1>1, <1>2, <1>10 DEF Replace, ReplaceFails, Verify, AfterReplaceError
<1> QED
  BY <1>4, <1>5, <1>6, <1>7, <1>8, <1>9, <1>10, <1>11 DEF Progress

LEMMA OthersStay ==
    ASSUME Inv, NEW r \in Runs, Progress(r) \/ Crash(r), NEW q \in Runs, q # r
    PROVE  slot'[q] = slot[q]
BY DEF Inv, TypeOK, Progress, Validate, AcquireLock, BeforeEffect, Observe, Capture,
       EnsureObject, FillObject, LinkObject, SyncObject, StageCurrent, FillCurrent,
       Revalidate, Replace, ReplaceFails, Verify, Unreported, Crash, Ensured

-----------------------------------------------------------------------------
(* What is durable                                                          *)

\* A run publishes over objects of its own only if it has synced them.
PublishedIsSynced == \A r \in Runs : r \in swapped => created[r] \subseteq synced

\* How a run ends that leaves something behind; "none" is no receipt at all.
Failures == {"failed_partial", "rejected", "none"}

\* An object that no parent fsync has covered is one that a run is about to
\* sync, or that a run has left so that died or ended without a success.
UnsyncedIsKnown ==
    \A v \in Versions :
        Exact(v) /\ v \notin synced =>
            \E r \in Runs :
                /\ v \in created[r]
                /\ \/ pc[r] \in {"sync", "crashed"}
                   \/ pc[r] = "done" /\ receipt[r].status \in Failures

\* How far the syncing has come.
Syncs(r) ==
    /\ pc[r] \notin {"sync", "done", "crashed"} => created[r] \subseteq synced
    /\ pc[r] = "sync" => created[r] \subseteq synced \cup {Wanted(r)}
    /\ r \in swapped => created[r] \subseteq synced

\* Who is behind an object that is not synced.
Behind(v, r) ==
    /\ v \in created[r]
    /\ \/ pc[r] = "sync" /\ v = Wanted(r)
       \/ pc[r] = "crashed"
       \/ pc[r] = "done" /\ receipt[r].status \in Failures

Durable ==
    /\ \A r \in Runs : Syncs(r)
    /\ \A v \in Versions : Exact(v) /\ v \notin synced => \E r \in Runs : Behind(v, r)

\* A failed receipt of _ensure_object is failed_partial or a rejection.
LEMMA ObjectFailure ==
    ASSUME TypeOK, NEW r \in Runs, NEW code, FailObject(r, code)
    PROVE  /\ pc'[r] = "done"
           /\ receipt'[r].status \in Failures
BY DEF FailObject, End, Go, Partial, Result, TypeOK, Failures

LEMMA UnreportedFailure ==
    ASSUME TypeOK, NEW r \in Runs, Unreported(r)
    PROVE  /\ pc[r] \notin {"done", "crashed", "verify"} /\ pc'[r] = "done"
           /\ receipt'[r].status = "none"
BY DEF Unreported, End, Go, NoReceipt, Result, TypeOK, Locked

LEMMA SyncsKept ==
    ASSUME Inv, RInv, Durable, NEW r \in Runs, Progress(r) \/ Crash(r)
    PROVE  Durable'
<1>1. /\ TypeOK /\ Beside(r) /\ plan' = plan /\ slot[r] \in Slots
      /\ \A q \in Runs \ {r} : slot'[q] = slot[q] /\ Wanted(q)' = Wanted(q)
      /\ \A q \in Runs : Wanted(q) \in Versions
  BY StepBeside, OthersStay, PlanFacts DEF Inv, Beside, Wanted, TypeOK
<1>2. \/ /\ UNCHANGED <<objects, created, synced>>
         /\ pc[r] \notin {"sync", "done", "crashed"} /\ pc'[r] # "sync"
      \/ /\ pc[r] = "link" /\ pc'[r] = "sync" /\ UNCHANGED synced
         /\ Wanted(r)' = Wanted(r)
         /\ objects' = [objects EXCEPT ![Wanted(r)] = "exact"]
         /\ created' = [created EXCEPT ![r] = @ \cup {Wanted(r)}]
      \/ /\ pc[r] = "sync" /\ pc'[r] \in {"ensure", "stage"}
         /\ UNCHANGED <<objects, created>>
         /\ synced' = synced \cup {Wanted(r)}
      \/ /\ pc[r] = "sync" /\ UNCHANGED <<objects, created, synced>>
         /\ \/ pc'[r] = "crashed"
            \/ pc'[r] = "done" /\ receipt'[r].status \in Failures
  <2>1. CASE LinkObject(r)
    <3>1. CASE /\ objects' = [objects EXCEPT ![Wanted(r)] =
                                 IF objTemp[r] = "full" THEN "exact" ELSE "other"]
               /\ created' = [created EXCEPT ![r] = @ \cup {Wanted(r)}]
               /\ Go(r, "sync") /\ UNCHANGED slot
      <4>1. pc[r] = "link" /\ objTemp[r] = "full" /\ UNCHANGED synced
        BY <2>1 DEF LinkObject, Inv, RunOK, TempsFull
      <4> QED
        BY <1>1, <3>1, <4>1 DEF Go, TypeOK, Wanted
    <3>2. CASE \/ Ensured(r) /\ UNCHANGED <<objects, created>>
               \/ /\ \E code : FailObject(r, code)
                  /\ UNCHANGED <<objects, created>>
      BY <1>1, <2>1, <3>2, ObjectFailure DEF LinkObject, Ensured, Go, TypeOK
    <3> QED
      BY <2>1, <3>1, <3>2 DEF LinkObject
  <2>2. CASE SyncObject(r)
    <3>1. CASE synced' = synced \cup {Wanted(r)} /\ Ensured(r)
      BY <1>1, <2>2, <3>1 DEF SyncObject, Ensured, Go, TypeOK, history
    <3>2. CASE FailObject(r, "write_failed") /\ UNCHANGED synced
      BY <1>1, <2>2, <3>2, ObjectFailure DEF SyncObject, history
    <3> QED
      BY <2>2, <3>1, <3>2 DEF SyncObject
  <2>3. CASE Crash(r)
    BY <1>1, <2>3 DEF Crash, Go, TypeOK, store, history, Locked
  <2>4. CASE Unreported(r)
    <3>1. UNCHANGED <<objects, created, synced>>
      BY <2>4 DEF Unreported, store, history
    <3>2. receipt'[r].status \in Failures
      BY <1>1, <2>4, UnreportedFailure DEF Failures
    <3> QED
      BY <1>1, <2>4, <3>1, <3>2, UnreportedFailure
  <2>5. CASE ~LinkObject(r) /\ ~SyncObject(r) /\ ~Crash(r) /\ ~Unreported(r)
    <3>1. UNCHANGED <<objects, created, synced>> /\ pc[r] \notin {"sync", "link"}
      BY <2>5
      DEF Progress, Validate, AcquireLock, BeforeEffect, Observe, Capture,
          EnsureObject, FillObject, StageCurrent, FillCurrent, Revalidate, Replace,
          ReplaceFails, Verify, store, history
    <3> QED
      BY <1>1, <3>1, Course
  <2> QED
    BY <2>1, <2>2, <2>3, <2>4, <2>5
<1>3. /\ synced \subseteq synced' /\ \A q \in Runs \ {r} : created'[q] = created[q]
      /\ pc[r] \notin {"done", "crashed"} /\ created \in [Runs -> SUBSET Versions]
  BY <1>1, <1>2, Course DEF Beside, TypeOK
<1>4. Syncs(r)'
  <2>1. Syncs(r)
    BY DEF Durable
  <2>2. r \in swapped' => r \in swapped \/ pc[r] = "replace"
    BY DEF Progress, Validate, AcquireLock, BeforeEffect, Observe, Capture, EnsureObject,
           FillObject, LinkObject, SyncObject, StageCurrent, FillCurrent, Revalidate,
           Replace, ReplaceFails, Verify, Unreported, Crash, history
  <2>3. r \in swapped => pc[r] \in {"verify", "done", "crashed"}
    BY DEF Inv, RunOK, NotYet
  <2> QED
    BY <1>2, <1>3, <2>1, <2>2, <2>3 DEF Syncs
<1>5. ASSUME NEW q \in Runs \ {r}
      PROVE  Syncs(q)'
  BY <1>1, <1>3 DEF Durable, Syncs, Beside
<1>6. ASSUME NEW v \in Versions, Exact(v)', v \notin synced'
      PROVE  \E q \in Runs : Behind(v, q)'
  <2>1. CASE Exact(v)
    <3>1. PICK q \in Runs : Behind(v, q)
      BY <1>3, <1>6, <2>1 DEF Durable
    <3>2. CASE q # r
      BY <1>1, <1>3, <3>1, <3>2 DEF Behind, Beside
    <3>3. CASE q = r
      BY <1>2, <1>3, <1>6, <3>1, <3>3 DEF Behind
    <3> QED
      BY <3>2, <3>3
  <2>2. CASE ~Exact(v)
    <3>1. /\ v = Wanted(r) /\ pc'[r] = "sync" /\ Wanted(r)' = Wanted(r)
          /\ created' = [created EXCEPT ![r] = @ \cup {Wanted(r)}]
      BY <1>1, <1>2, <1>6, <2>2 DEF Exact, TypeOK
    <3>2. Behind(v, r)'
      BY <1>3, <3>1 DEF Behind
    <3> QED
      BY <3>2
  <2> QED
    BY <2>1, <2>2
<1> QED
  BY <1>4, <1>5, <1>6 DEF Durable

LEMMA DurableInvariance == Spec => [](Inv /\ RInv /\ Durable)
<1>1. Init => Durable
  BY DEF Init, Durable, Syncs, Exact
<1>2. Inv /\ RInv /\ Durable /\ [Next]_vars => Durable'
  <2> SUFFICES ASSUME Inv, RInv, Durable, [Next]_vars
               PROVE  Durable'
    OBVIOUS
  <2>1. CASE UNCHANGED vars
    BY <2>1 DEF vars, store, history, Durable, Syncs, Behind, Exact, Wanted
  <2>2. CASE \E f \in Files : OutsideEdit(f)
    BY <2>2 DEF OutsideEdit, Durable, Syncs, Behind, Exact, Wanted
  <2>3. CASE \E v \in Versions : OutsideObject(v)
    <3>1. /\ UNCHANGED <<created, swapped, synced, pc, plan, slot, receipt>>
          /\ \A v \in Versions : Exact(v)' => Exact(v)
      BY <2>3 DEF OutsideObject, Exact, Inv, TypeOK
    <3> QED
      BY <3>1 DEF Durable, Syncs, Behind, Wanted
  <2> QED
    BY <2>1, <2>2, <2>3, SyncsKept DEF Next
<1> QED
  BY <1>1, <1>2, RunsStayTrue, PTL DEF Spec

\* A run replaces the current file only when every object that it has linked
\* itself is durable; those it found are as durable as their maker left them.
THEOREM PublishedObjectsSynced == Spec => []PublishedIsSynced
<1>1. Durable => PublishedIsSynced
  BY DEF Durable, Syncs, PublishedIsSynced
<1> QED
  BY <1>1, DurableInvariance, PTL

\* An object that a power failure may take away always has a run to answer for
\* it: one at work, one that died, or one that has told of a failure.
THEOREM PublishUnsyncedKnown == Spec => []UnsyncedIsKnown
<1>1. Durable => UnsyncedIsKnown
  BY DEF Durable, Behind, UnsyncedIsKnown
<1> QED
  BY <1>1, DurableInvariance, PTL

-----------------------------------------------------------------------------
(* Temporary files                                                          *)

\* A temporary file that is there belongs to a run that works on it, that died,
\* or that ended without a success; one beside the current file, without a receipt.
DebrisIsKnown ==
    \A r \in Runs :
        /\ objTemp[r] # "none" =>
              \/ pc[r] \in {"fill", "link", "sync", "crashed"}
              \/ pc[r] = "done" /\ receipt[r].status \in Failures
        /\ curTemp[r] # "none" =>
              \/ pc[r] \in {"fill_current", "revalidate", "replace", "crashed"}
              \/ pc[r] = "done" /\ receipt[r].status = "none"

LEMMA DebrisKept ==
    ASSUME Inv, RInv, DebrisIsKnown, NEW r \in Runs, Progress(r) \/ Crash(r)
    PROVE  DebrisIsKnown'
<1> DEFINE Known(q) ==
              /\ objTemp[q] # "none" =>
                    \/ pc[q] \in {"fill", "link", "sync", "crashed"}
                    \/ pc[q] = "done" /\ receipt[q].status \in Failures
              /\ curTemp[q] # "none" =>
                    \/ pc[q] \in {"fill_current", "revalidate", "replace", "crashed"}
                    \/ pc[q] = "done" /\ receipt[q].status = "none"
<1>1. /\ TypeOK /\ Beside(r) /\ Known(r) /\ pc[r] \notin {"done", "crashed"}
      /\ \A q \in Runs \ {r} : objTemp'[q] = objTemp[q] /\ curTemp'[q] = curTemp[q]
  <2>1. \A q \in Runs \ {r} : objTemp'[q] = objTemp[q] /\ curTemp'[q] = curTemp[q]
    BY DEF Inv, TypeOK, Progress, Validate, AcquireLock, BeforeEffect, Observe, Capture,
           EnsureObject, FillObject, LinkObject, SyncObject, StageCurrent, FillCurrent,
           Revalidate, Replace, ReplaceFails, Verify, Unreported, Crash, FailPartial,
           FailObject, AfterReplaceError, DropTemps, temps
  <2> QED
    BY <2>1, StepBeside, Course DEF Inv, DebrisIsKnown
<1>2. ASSUME NEW step, Go(r, step)
      PROVE  pc'[r] = step
  BY <1>1, <1>2 DEF Go, TypeOK
<1>3. ASSUME DropTemps(r)
      PROVE  objTemp'[r] = "none" /\ curTemp'[r] = "none"
  BY <1>1, <1>3 DEF DropTemps, TypeOK
<1>4. Known(r)'
  <2>1. CASE \/ Validate(r) \/ AcquireLock(r) \/ BeforeEffect(r) \/ Observe(r)
             \/ Capture(r)
    BY <1>1, <2>1 DEF Validate, AcquireLock, BeforeEffect, Observe, Capture, temps
  <2>2. CASE Unreported(r)
    BY <1>1, <2>2, UnreportedFailure DEF Failures
  <2>3. CASE Crash(r)
    BY <1>1, <1>2, <2>3 DEF Crash, temps
  <2>4. ASSUME NEW code, FailObject(r, code), pc[r] \in {"ensure", "fill", "link", "sync"}
        PROVE  Known(r)'
    BY <1>1, <2>4, ObjectFailure DEF FailObject
  <2>5. CASE EnsureObject(r)
    <3>1. CASE Ensured(r) /\ UNCHANGED temps
      BY <1>1, <2>5, <3>1 DEF EnsureObject, temps
    <3>2. CASE /\ objTemp' = [objTemp EXCEPT ![r] = "partial"] /\ Go(r, "fill")
               /\ UNCHANGED curTemp
      BY <1>1, <1>2, <2>5, <3>2 DEF EnsureObject
    <3> QED
      BY <2>4, <2>5, <3>1, <3>2 DEF EnsureObject
  <2>6. CASE FillObject(r)
    BY <1>1, <1>2, <2>4, <2>6 DEF FillObject
  <2>7. CASE LinkObject(r)
    <3>1. CASE Go(r, "sync") /\ UNCHANGED temps
      BY <1>1, <1>2, <2>7, <3>1 DEF LinkObject, temps
    <3>2. CASE objTemp' = [objTemp EXCEPT ![r] = "none"] /\ UNCHANGED curTemp
      BY <1>1, <2>7, <3>2 DEF LinkObject, TypeOK
    <3> QED
      BY <2>4, <2>7, <3>1, <3>2 DEF LinkObject
  <2>8. CASE SyncObject(r)
    <3>1. CASE objTemp' = [objTemp EXCEPT ![r] = "none"] /\ UNCHANGED curTemp
      BY <1>1, <2>8, <3>1 DEF SyncObject, TypeOK
    <3> QED
      BY <2>4, <2>8, <3>1 DEF SyncObject
  <2>9. CASE StageCurrent(r) \/ FillCurrent(r) \/ Revalidate(r)
    BY <1>1, <1>2, <1>3, <2>9
    DEF StageCurrent, FillCurrent, Revalidate, FailPartial, temps
  <2>10. CASE Replace(r)
    BY <1>1, <1>2, <2>10 DEF Replace, TypeOK
  <2>11. CASE ReplaceFails(r)
    BY <1>3, <2>11 DEF ReplaceFails, AfterReplaceError
  <2>12. CASE Verify(r)
    BY <1>1, <1>3, <2>12 DEF Verify, AfterReplaceError, temps
  <2> QED
    BY <2>1, <2>2, <2>3, <2>5, <2>6, <2>7, <2>8, <2>9, <2>10, <2>11, <2>12 DEF Progress
<1>5. ASSUME NEW q \in Runs \ {r}
      PROVE  Known(q)'
  BY <1>1 DEF DebrisIsKnown, Beside
<1> QED
  BY <1>4, <1>5 DEF DebrisIsKnown

\* Leftovers never go unannounced, and a successful publication leaves none: who
\* cleans up needs to look only where a run has died or has told of a failure.
THEOREM PublishDebrisKnown == Spec => []DebrisIsKnown
<1>1. Init => DebrisIsKnown
  BY DEF Init, DebrisIsKnown
<1>2. Inv /\ RInv /\ DebrisIsKnown /\ [Next]_vars => DebrisIsKnown'
  <2> SUFFICES ASSUME Inv, RInv, DebrisIsKnown, [Next]_vars
               PROVE  DebrisIsKnown'
    OBVIOUS
  <2>1. CASE UNCHANGED <<pc, receipt, temps>>
    BY <2>1 DEF temps, DebrisIsKnown
  <2>2. ASSUME NEW r \in Runs, Progress(r) \/ Crash(r)
        PROVE  DebrisIsKnown'
    BY <2>2, DebrisKept
  <2> QED
    BY <2>1, <2>2 DEF Next, OutsideEdit, OutsideObject, vars
<1> QED
  BY <1>1, <1>2, RunsStayTrue, PTL DEF Spec

-----------------------------------------------------------------------------
(* That runs end: what does not need fairness                               *)

\* Whoever holds the lock of a root is at work on a file of that root.
HolderLives ==
    \A d \in Roots :
        lock[d] # NoRun => /\ lock[d] \in Runs /\ pc[lock[d]] \in Locked
                           /\ plan[lock[d]].root = d

Ended == {"done", "crashed"}

\* The lock that the next step of a run waits for is free.
Ready(r) ==
    /\ pc[r] \notin Ended
    /\ pc[r] = "acquire" => lock[plan[r].root] = NoRun

\* While there is a run that has not ended, there is one that waits for nobody.
NoCircularWait == (\E r \in Runs : pc[r] \notin Ended) => \E r \in Runs : Ready(r)

\* The steps that a run has before it, at most, when it is at this object.
Remaining(step, object) ==
    CASE step = "validate" -> 18
      [] step = "acquire" -> 17
      [] step = "before_effect" -> 16
      [] step = "observe" -> 15
      [] step = "capture" -> 14
      [] step = "ensure" -> IF object = "old" THEN 13 ELSE 9
      [] step = "fill" -> IF object = "old" THEN 12 ELSE 8
      [] step = "link" -> IF object = "old" THEN 11 ELSE 7
      [] step = "sync" -> IF object = "old" THEN 10 ELSE 6
      [] step = "stage" -> 5
      [] step = "fill_current" -> 4
      [] step = "revalidate" -> 3
      [] step = "replace" -> 2
      [] step = "verify" -> 1
      [] OTHER -> 0

\* Whatever a run does takes it nearer to its end: an object or a file that
\* another writer has changed meanwhile is never a reason to try again.
RunsOut ==
    \A r \in Runs :
        /\ Progress(r) \/ Crash(r) =>
              /\ Remaining(pc'[r], slot'[r]) \in Nat
              /\ Remaining(pc'[r], slot'[r]) < Remaining(pc[r], slot[r])
        /\ ~(Progress(r) \/ Crash(r)) => pc'[r] = pc[r] /\ slot'[r] = slot[r]

\* A run that has ended is not heard of again.
EndIsFinal ==
    \A r \in Runs :
        pc[r] \in Ended =>
            /\ pc'[r] = pc[r] /\ receipt'[r] = receipt[r] /\ created'[r] = created[r]
            /\ r \in swapped' <=> r \in swapped

\* The lock is taken where a run waits for it, and given back by its end.
LEMMA Handing ==
    ASSUME Inv, HolderLives, NEW r \in Runs, Progress(r) \/ Crash(r), NEW d \in Roots
    PROVE  /\ lock'[d] \in {lock[d], NoRun, r}
           /\ lock'[d] = r => pc'[r] \in Locked /\ plan[r].root = d
<1>1. TypeOK /\ NoRun # r
  BY PublishConstants DEF Inv
<1>2. ASSUME Release(r)
      PROVE  lock'[d] \in {lock[d], NoRun} /\ lock'[d] # r
  BY <1>1, <1>2 DEF Release
<1>3. lock[d] = r => pc[r] \in Locked /\ plan[r].root = d
  BY <1>1 DEF HolderLives
<1>4. CASE AcquireLock(r)
  BY <1>1, <1>3, <1>4 DEF AcquireLock, Go, TypeOK, Locked
<1>5. CASE Release(r)
  BY <1>2, <1>5
<1>6. CASE lock' = lock /\ pc'[r] \notin Ended /\ ~AcquireLock(r)
  BY <1>1, <1>3, <1>6, Course DEF Locked, Ended
<1>7. \/ AcquireLock(r) \/ Release(r)
      \/ lock' = lock /\ \E step \in Locked \cup {"acquire"} : Go(r, step)
  BY DEF Progress, Validate, BeforeEffect, Observe, Capture, EnsureObject, FillObject,
         LinkObject, SyncObject, StageCurrent, FillCurrent, Revalidate, Replace,
         ReplaceFails, Verify, Unreported, Crash, Ensured, FailPartial, FailObject,
         AfterReplaceError, End, Locked
<1>8. ASSUME NEW step \in Locked \cup {"acquire"}, Go(r, step)
      PROVE  pc'[r] \notin Ended
  BY <1>1, <1>8 DEF Go, TypeOK, Locked, Ended
<1> QED
  BY <1>4, <1>5, <1>6, <1>7, <1>8

LEMMA HolderInvariance == Spec => [](Inv /\ HolderLives)
<1>1. Init => HolderLives
  BY DEF Init, HolderLives
<1>2. Inv /\ HolderLives /\ [Next]_vars => HolderLives'
  <2> SUFFICES ASSUME Inv, HolderLives, [Next]_vars, NEW d \in Roots, lock'[d] # NoRun
               PROVE  /\ lock'[d] \in Runs /\ pc'[lock'[d]] \in Locked
                      /\ plan'[lock'[d]].root = d
    BY DEF HolderLives
  <2>1. CASE UNCHANGED <<lock, pc, plan>>
    BY <2>1 DEF HolderLives
  <2>2. ASSUME NEW r \in Runs, Progress(r) \/ Crash(r)
        PROVE  /\ lock'[d] \in Runs /\ pc'[lock'[d]] \in Locked
               /\ plan'[lock'[d]].root = d
    <3>1. plan' = plan /\ \A q \in Runs \ {r} : pc'[q] = pc[q]
      BY <2>2, StepBeside DEF Beside
    <3>2. CASE lock'[d] = r
      BY <2>2, <3>1, <3>2, Handing
    <3>3. CASE lock'[d] # r
      <4>1. lock'[d] = lock[d]
        BY <2>2, <3>3, Handing
      <4> QED
        BY <3>1, <3>3, <4>1 DEF HolderLives
    <3> QED
      BY <3>2, <3>3
  <2> QED
    BY <2>1, <2>2 DEF Next, OutsideEdit, OutsideObject, vars
<1> QED
  BY <1>1, <1>2, Invariance, PTL DEF Spec

\* Publishers never wait for each other in a circle, for a dead run or for one
\* that has returned: a run takes one lock in its life, and the objects root, which
\* all share, has none.
THEOREM PublishNoCircularWait == Spec => [](HolderLives /\ NoCircularWait)
<1>1. Inv /\ HolderLives => NoCircularWait
  <2> SUFFICES ASSUME Inv, HolderLives, NEW r \in Runs, pc[r] \notin Ended, ~Ready(r)
               PROVE  \E q \in Runs : Ready(q)
    BY DEF NoCircularWait
  <2>1. lock[plan[r].root] # NoRun /\ plan[r].root \in Roots
    BY PlanFacts DEF Ready, Inv
  <2>2. PICK q \in Runs : pc[q] \in Locked
    BY <2>1 DEF HolderLives
  <2>3. Ready(q)
    BY <2>2 DEF Ready, Locked, Ended
  <2> QED
    BY <2>3
<1> QED
  BY <1>1, HolderInvariance, PTL

\* A run takes at most eighteen steps, whatever it finds and however often others
\* write meanwhile, and nothing they do adds to them.
THEOREM PublishRunsOut == Spec => [][RunsOut]_vars
<1>1. Inv /\ [Next]_vars => [RunsOut]_vars
  <2> SUFFICES ASSUME Inv, Next, NEW r \in Runs
               PROVE  /\ Progress(r) \/ Crash(r) =>
                            /\ Remaining(pc'[r], slot'[r]) \in Nat
                            /\ Remaining(pc'[r], slot'[r]) < Remaining(pc[r], slot[r])
                      /\ ~(Progress(r) \/ Crash(r)) =>
                            pc'[r] = pc[r] /\ slot'[r] = slot[r]
    BY DEF RunsOut
  <2>1. pc[r] \in Steps
    BY DEF Inv, TypeOK
  <2>2. ASSUME Progress(r) \/ Crash(r)
        PROVE  /\ Remaining(pc'[r], slot'[r]) \in Nat
               /\ Remaining(pc'[r], slot'[r]) < Remaining(pc[r], slot[r])
    <3>1. CASE pc'[r] \in {"done", "crashed"}
      <4>1. pc[r] \in Steps \ {"done", "crashed"}
        BY <2>1, <2>2, Course DEF Inv
      <4>2. Remaining(pc'[r], slot'[r]) = 0
        BY <3>1 DEF Remaining
      <4>3. Remaining(pc[r], slot[r]) \in 1..18
        BY <4>1 DEF Remaining, Steps, Locked
      <4> QED
        BY <4>2, <4>3
    <3>2. CASE pc'[r] \notin {"done", "crashed"}
      BY <2>2, <3>2, Course DEF Remaining, Inv
    <3> QED
      BY <3>1, <3>2
  <2>3. ASSUME ~(Progress(r) \/ Crash(r))
        PROVE  pc'[r] = pc[r] /\ slot'[r] = slot[r]
    <3>1. ASSUME NEW q \in Runs, Progress(q) \/ Crash(q)
          PROVE  pc'[r] = pc[r] /\ slot'[r] = slot[r]
      BY <2>3, <3>1, StepBeside, OthersStay DEF Beside
    <3> QED
      BY <3>1 DEF Next, OutsideEdit, OutsideObject
  <2> QED
    BY <2>2, <2>3
<1> QED
  BY <1>1, Invariance, PTL DEF Spec

\* What a run that has returned or died has told and done is that for ever: no
\* later run takes up its objects or its file in its name.
THEOREM PublishEndIsFinal == Spec => [][EndIsFinal]_vars
<1>1. Inv /\ [Next]_vars => [EndIsFinal]_vars
  <2> SUFFICES ASSUME Inv, Next, NEW r \in Runs, pc[r] \in Ended
               PROVE  /\ pc'[r] = pc[r] /\ receipt'[r] = receipt[r]
                      /\ created'[r] = created[r]
                      /\ r \in swapped' <=> r \in swapped
    BY DEF EndIsFinal
  <2>1. ASSUME NEW q \in Runs, Progress(q) \/ Crash(q)
        PROVE  /\ pc'[r] = pc[r] /\ receipt'[r] = receipt[r]
               /\ created'[r] = created[r]
               /\ r \in swapped' <=> r \in swapped
    <3>1. q # r
      BY <2>1, Course DEF Inv, Ended
    <3> QED
      BY <2>1, <3>1, StepBeside DEF Beside
  <2> QED
    BY <2>1 DEF Next, OutsideEdit, OutsideObject
<1> QED
  BY <1>1, Invariance, PTL DEF Spec
=============================================================================
