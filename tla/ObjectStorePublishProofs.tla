---------------------- MODULE ObjectStorePublishProofs ----------------------
(***************************************************************************)
(* Theorems about ObjectStorePublish, for every set of runs, files, roots  *)
(* and versions, and for any number of outside writes.                     *)
(***************************************************************************)
EXTENDS ObjectStorePublish, TLAPS

-----------------------------------------------------------------------------
(* The inductive invariant                                                  *)

\* A run inside the locked region holds the lock of the root it was given.
HoldsLock(r) == pc[r] \in Locked => lock[plan[r].root] = r

\* What a run links or moves into place is complete.
TempsFull(r) ==
    /\ pc[r] = "link" => objTemp[r] = "full"
    /\ pc[r] \in {"revalidate", "replace"} => curTemp[r] = "full"

\* How far the archiving has come, by the step the run is about to take.
Archived(r) ==
    /\ pc[r] \in {"validate", "acquire", "before_effect", "observe", "capture"}
          => slot[r] = "old"
    /\ pc[r] \in {"ensure", "fill", "link", "sync"} /\ slot[r] = "new"
          => Exact(plan[r].old)
    /\ pc[r] = "sync" => Exact(Wanted(r))
    /\ pc[r] \in {"stage", "fill_current", "revalidate", "replace", "verify"}
          => Exact(plan[r].old) /\ Exact(plan[r].new)

\* What a replace is about to overwrite is an archived version, unless somebody
\* wrote the file since the last look, and under one root the expected one.
ReplaceSafe(r) ==
    pc[r] = "replace" =>
        /\ r \notin surprised => Exact(current[Target(r)])
        /\ Untouched(Target(r)) /\ OneRootPerFile
              => current[Target(r)] = plan[r].old

\* A run that has yet to replace its file has not done so.
NotYet(r) == pc[r] \notin {"verify", "done", "crashed"} => r \notin swapped

RunOK(r) ==
    /\ HoldsLock(r) /\ TempsFull(r) /\ Archived(r)
    /\ ReplaceSafe(r) /\ NotYet(r)

Inv == /\ TypeOK
       /\ \A r \in Runs : RunOK(r)
       /\ NoLostVersion
       /\ NoTornBytes

-----------------------------------------------------------------------------
(* How the shared pieces of the actions change the state                    *)

USE DEF Locked, Slots

Receipts == [status : Statuses, code : Codes]

\* Run r is over: it holds no lock and the other runs are where they were.
Ends(r) ==
    /\ pc' = [pc EXCEPT ![r] = "done"]
    /\ lock' = [d \in Roots |-> IF lock[d] = r THEN NoRun ELSE lock[d]]
    /\ receipt' \in [Runs -> Receipts]

\* Run r goes on to another step.
Goes(r, step) ==
    /\ pc' = [pc EXCEPT ![r] = step]
    /\ UNCHANGED <<lock, receipt>>

\* What a step of r leaves alone: the rest of the other runs' state, the locks
\* they hold, every exact object, and who wrote the files from outside.
Frame(r) ==
    /\ plan' = plan /\ edits' = edits
    /\ \A q \in Runs \ {r} :
          /\ pc'[q] = pc[q] /\ slot'[q] = slot[q]
          /\ objTemp'[q] = objTemp[q] /\ curTemp'[q] = curTemp[q]
          /\ q \in swapped' => q \in swapped
    /\ \A d \in Roots, q \in Runs \ {r} : lock[d] = q => lock'[d] = q
    /\ \A v \in Versions : Exact(v) => Exact(v)'
    /\ \A v \in Versions : objects'[v] = "other" <=> objects[v] = "other"

LEMMA PlanFacts ==
    ASSUME TypeOK, NEW r \in Runs
    PROVE  /\ Target(r) \in Files
           /\ plan[r].root \in Roots
           /\ plan[r].root \in RootsOf[Target(r)]
           /\ plan[r].old \in Versions
           /\ plan[r].new \in Versions
           /\ Wanted(r) \in Versions
  BY PublishConstants DEF TypeOK, Plans, Target, Wanted

LEMMA EndEnds ==
    ASSUME TypeOK, NEW r \in Runs, NEW status \in Statuses, NEW code \in Codes,
           End(r, Result(status, code))
    PROVE  Ends(r)
  BY DEF TypeOK, End, Ends, Go, Release, Result, Receipts

LEMMA EndNoReceipt ==
    ASSUME TypeOK, NEW r \in Runs, End(r, NoReceipt)
    PROVE  Ends(r)
  BY DEF TypeOK, End, Ends, Go, Release, Result, NoReceipt, Receipts,
         Statuses, Codes

LEMMA PartialEnds ==
    ASSUME TypeOK, NEW r \in Runs, NEW code \in Codes, End(r, Partial(r, code))
    PROVE  Ends(r)
  BY DEF TypeOK, End, Ends, Go, Release, Partial, Result, Receipts,
         Statuses, Codes

LEMMA FailPartialEnds ==
    ASSUME TypeOK, NEW r \in Runs, NEW code \in Codes, FailPartial(r, code)
    PROVE  Ends(r) /\ DropTemps(r)
  BY PartialEnds DEF FailPartial

LEMMA FailObjectEnds ==
    ASSUME TypeOK, NEW r \in Runs, NEW code \in Codes, FailObject(r, code)
    PROVE  /\ Ends(r)
           /\ objTemp' \in {objTemp, [objTemp EXCEPT ![r] = "none"]}
           /\ curTemp' = curTemp
  BY PartialEnds DEF FailObject

LEMMA ReplaceErrorEnds ==
    ASSUME TypeOK, NEW r \in Runs, NEW code \in Codes, AfterReplaceError(r,
        code)
    PROVE  Ends(r) /\ DropTemps(r)
  BY EndEnds DEF AfterReplaceError, Statuses

\* The runs that do not step keep what does not depend on the current files.
LEMMA OthersKeep ==
    ASSUME TypeOK, NEW r \in Runs, Frame(r), NEW q \in Runs \ {r}, RunOK(q)
    PROVE  HoldsLock(q)' /\ TempsFull(q)' /\ Archived(q)' /\ NotYet(q)'
  <1>1. HoldsLock(q)'
    BY PlanFacts DEF Frame, RunOK, HoldsLock
  <1>2. TempsFull(q)'
    BY DEF Frame, RunOK, TempsFull
  <1>3. Archived(q)'
    BY PlanFacts DEF Frame, RunOK, Archived, Wanted
  <1>4. NotYet(q)'
    BY DEF Frame, RunOK, NotYet
  <1> QED BY <1>1, <1>2, <1>3, <1>4

\* A step that writes no current file keeps the invariant if it keeps the part
\* of the run that takes it.
LEMMA QuietStep ==
    ASSUME Inv, NEW r \in Runs, Frame(r), TypeOK', RunOK(r)',
           UNCHANGED <<current, swapped, surprised, overwritten, foreign>>
    PROVE  Inv'
  <1>1. ASSUME NEW q \in Runs \ {r} PROVE RunOK(q)'
    <2>1. HoldsLock(q)' /\ TempsFull(q)' /\ Archived(q)' /\ NotYet(q)'
      BY OthersKeep DEF Inv
    <2>2. Exact(current[Target(q)]) => Exact(current[Target(q)])'
      BY DEF Frame, Exact, Target
    <2>3. ReplaceSafe(q)'
      BY <2>2 DEF Inv, Frame, RunOK, ReplaceSafe, Untouched, Target
    <2> QED BY <2>1, <2>3 DEF RunOK
  <1>2. NoLostVersion'
    BY PlanFacts DEF Inv, NoLostVersion, Frame, Exact
  <1>3. NoTornBytes'
    BY DEF Inv, NoTornBytes, Frame
  <1> QED BY <1>1, <1>2, <1>3 DEF Inv

\* A run outside the locked region has nothing to keep but its slot.
LEMMA IdleOK ==
    ASSUME TypeOK, NEW r \in Runs, pc'[r] \in {"acquire", "done", "crashed"},
           pc'[r] = "acquire" => slot'[r] = "old" /\ r \notin swapped'
    PROVE  RunOK(r)'
  BY DEF RunOK, HoldsLock, TempsFull, Archived, ReplaceSafe, NotYet

-----------------------------------------------------------------------------
(* Initial states and steps                                                 *)

LEMMA InitInv == Init => Inv
  <1> SUFFICES ASSUME Init PROVE Inv
    OBVIOUS
  <1>1. TypeOK
    BY PublishConstants
    DEF Init, TypeOK, Steps, Statuses, Codes, NoReceipt, Result
  <1>2. ASSUME NEW r \in Runs PROVE RunOK(r)
    BY DEF Init, RunOK, HoldsLock, TempsFull, Archived, ReplaceSafe, NotYet
  <1>3. NoLostVersion /\ NoTornBytes
    BY PublishConstants DEF Init, NoLostVersion, NoTornBytes
  <1> QED BY <1>1, <1>2, <1>3 DEF Inv

LEMMA ValidateStep ==
    ASSUME Inv, NEW r \in Runs, Validate(r)
    PROVE  Inv'
  <1> USE DEF Inv
  <1>1. Goes(r, "acquire") \/ Ends(r)
    BY EndEnds DEF Validate, Statuses, Codes, Go, Goes
  <1>2. /\ pc[r] = "validate"
        /\ UNCHANGED <<store, plan, slot, temps, history>>
    BY DEF Validate
  <1>3. TypeOK'
    <2>1. pc' \in [Runs -> Steps] /\ lock' \in [Roots -> Runs \cup {NoRun}]
          /\ receipt' \in [Runs -> Receipts]
      BY <1>1 DEF TypeOK, Steps, Goes, Ends, Receipts
    <2> QED BY <1>2, <2>1 DEF TypeOK, Receipts, store, temps, history
  <1>4. Frame(r)
    BY <1>1, <1>2, PublishConstants, PlanFacts
    DEF TypeOK, Frame, Goes, Ends, DropTemps, Exact, store, temps, history
  <1>5. RunOK(r)'
    BY <1>1, <1>2, IdleOK
    DEF TypeOK, Ends, Goes, RunOK, Archived, NotYet, history
  <1> QED BY <1>2, <1>3, <1>4, <1>5, QuietStep DEF store, history

LEMMA AcquireLockStep ==
    ASSUME Inv, NEW r \in Runs, AcquireLock(r)
    PROVE  Inv'
  <1> USE DEF Inv
  <1>1. /\ pc' = [pc EXCEPT ![r] = "before_effect"]
        /\ lock[plan[r].root] = NoRun
        /\ lock' = [lock EXCEPT ![plan[r].root] = r]
    BY DEF AcquireLock, Go
  <1>2. /\ pc[r] = "acquire"
        /\ UNCHANGED <<store, plan, slot, temps, receipt, history>>
    BY DEF AcquireLock
  <1>3. TypeOK'
    BY <1>1, <1>2, PlanFacts
    DEF TypeOK, Steps, Goes, Ends, Receipts, DropTemps, store, temps, history
  <1>4. Frame(r)
    BY <1>1, <1>2, PublishConstants, PlanFacts
    DEF TypeOK, Frame, Goes, Ends, DropTemps, Exact, store, temps, history
  <1>5. RunOK(r)'
    <2>1. CASE Ends(r)
      BY <2>1, IdleOK DEF TypeOK, Ends
    <2>2. CASE ~Ends(r)
      BY <1>1, <1>2, <2>2, PlanFacts
      DEF TypeOK, Goes, RunOK, HoldsLock, TempsFull, Archived, ReplaceSafe,
          NotYet, Wanted, Exact, Target, store, temps, history
    <2> QED BY <2>1, <2>2
  <1> QED BY <1>2, <1>3, <1>4, <1>5, QuietStep DEF store, history

LEMMA BeforeEffectStep ==
    ASSUME Inv, NEW r \in Runs, BeforeEffect(r)
    PROVE  Inv'
  <1> USE DEF Inv
  <1>1. Goes(r, "observe") \/ Ends(r)
    BY EndEnds DEF BeforeEffect, Statuses, Codes, Go, Goes
  <1>2. /\ pc[r] = "before_effect"
        /\ UNCHANGED <<store, plan, slot, temps, history>>
    BY DEF BeforeEffect
  <1>3. TypeOK'
    <2>1. pc' \in [Runs -> Steps] /\ lock' \in [Roots -> Runs \cup {NoRun}]
          /\ receipt' \in [Runs -> Receipts]
      BY <1>1 DEF TypeOK, Steps, Goes, Ends, Receipts
    <2> QED BY <1>2, <2>1 DEF TypeOK, Receipts, store, temps, history
  <1>4. Frame(r)
    BY <1>1, <1>2, PublishConstants, PlanFacts
    DEF TypeOK, Frame, Goes, Ends, DropTemps, Exact, store, temps, history
  <1>5. RunOK(r)'
    <2>1. CASE Ends(r)
      BY <2>1, IdleOK DEF TypeOK, Ends
    <2>2. CASE ~Ends(r)
      BY <1>1, <1>2, <2>2, PlanFacts
      DEF TypeOK, Goes, RunOK, HoldsLock, TempsFull, Archived, ReplaceSafe,
          NotYet, Wanted, Exact, Target, store, temps, history
    <2> QED BY <2>1, <2>2
  <1> QED BY <1>2, <1>3, <1>4, <1>5, QuietStep DEF store, history

LEMMA ObserveStep ==
    ASSUME Inv, NEW r \in Runs, Observe(r)
    PROVE  Inv'
  <1> USE DEF Inv
  <1>1. Goes(r, "capture") \/ Ends(r)
    BY EndEnds DEF Observe, Statuses, Codes, Go, Goes
  <1>2. /\ pc[r] = "observe"
        /\ UNCHANGED <<store, plan, slot, temps, history>>
    BY DEF Observe
  <1>3. TypeOK'
    <2>1. pc' \in [Runs -> Steps] /\ lock' \in [Roots -> Runs \cup {NoRun}]
          /\ receipt' \in [Runs -> Receipts]
      BY <1>1 DEF TypeOK, Steps, Goes, Ends, Receipts
    <2> QED BY <1>2, <2>1 DEF TypeOK, Receipts, store, temps, history
  <1>4. Frame(r)
    BY <1>1, <1>2, PublishConstants, PlanFacts
    DEF TypeOK, Frame, Goes, Ends, DropTemps, Exact, store, temps, history
  <1>5. RunOK(r)'
    <2>1. CASE Ends(r)
      BY <2>1, IdleOK DEF TypeOK, Ends
    <2>2. CASE ~Ends(r)
      BY <1>1, <1>2, <2>2, PlanFacts
      DEF TypeOK, Goes, RunOK, HoldsLock, TempsFull, Archived, ReplaceSafe,
          NotYet, Wanted, Exact, Target, store, temps, history
    <2> QED BY <2>1, <2>2
  <1> QED BY <1>2, <1>3, <1>4, <1>5, QuietStep DEF store, history

LEMMA CaptureStep ==
    ASSUME Inv, NEW r \in Runs, Capture(r)
    PROVE  Inv'
  <1> USE DEF Inv
  <1>1. Goes(r, "ensure") \/ Ends(r)
    BY EndEnds DEF Capture, Statuses, Codes, Go, Goes
  <1>2. /\ pc[r] = "capture"
        /\ UNCHANGED <<store, plan, slot, temps, history>>
    BY DEF Capture
  <1>3. TypeOK'
    <2>1. pc' \in [Runs -> Steps] /\ lock' \in [Roots -> Runs \cup {NoRun}]
          /\ receipt' \in [Runs -> Receipts]
      BY <1>1 DEF TypeOK, Steps, Goes, Ends, Receipts
    <2> QED BY <1>2, <2>1 DEF TypeOK, Receipts, store, temps, history
  <1>4. Frame(r)
    BY <1>1, <1>2, PublishConstants, PlanFacts
    DEF TypeOK, Frame, Goes, Ends, DropTemps, Exact, store, temps, history
  <1>5. RunOK(r)'
    <2>1. CASE Ends(r)
      BY <2>1, IdleOK DEF TypeOK, Ends
    <2>2. CASE ~Ends(r)
      BY <1>1, <1>2, <2>2, PlanFacts
      DEF TypeOK, Goes, RunOK, HoldsLock, TempsFull, Archived, ReplaceSafe,
          NotYet, Wanted, Exact, Target, store, temps, history
    <2> QED BY <2>1, <2>2
  <1> QED BY <1>2, <1>3, <1>4, <1>5, QuietStep DEF store, history

LEMMA EnsureObjectStep ==
    ASSUME Inv, NEW r \in Runs, EnsureObject(r)
    PROVE  Inv'
  <1> USE DEF Inv
  <1>1. \/ /\ Exact(Wanted(r)) /\ slot[r] = "old" /\ Goes(r, "ensure")
           /\ slot' = [slot EXCEPT ![r] = "new"] /\ UNCHANGED temps
        \/ /\ Exact(Wanted(r)) /\ slot[r] # "old" /\ Goes(r, "stage")
           /\ UNCHANGED <<slot, temps>>
        \/ Ends(r) /\ UNCHANGED <<slot, curTemp>>
           /\ objTemp' \in {objTemp, [objTemp EXCEPT ![r] = "none"]}
        \/ /\ Goes(r, "fill") /\ UNCHANGED <<slot, curTemp>>
           /\ objTemp' = [objTemp EXCEPT ![r] = "partial"]
    BY FailObjectEnds, PlanFacts
    DEF EnsureObject, Codes, Go, Goes, Ensured, Exact, temps
  <1>2. /\ pc[r] = "ensure"
        /\ UNCHANGED <<store, plan, history>>
    BY DEF EnsureObject
  <1>3. TypeOK'
    <2>1. pc' \in [Runs -> Steps] /\ lock' \in [Roots -> Runs \cup {NoRun}]
          /\ receipt' \in [Runs -> Receipts]
      BY <1>1 DEF TypeOK, Steps, Goes, Ends, Receipts
    <2>2. /\ slot' \in [Runs -> Slots]
          /\ objTemp' \in [Runs -> {"none", "partial", "full"}]
          /\ curTemp' \in [Runs -> {"none", "partial", "full"}]
      BY <1>1, <1>2 DEF TypeOK, DropTemps, temps
    <2> QED BY <1>1, <1>2, <2>1, <2>2, PlanFacts
      DEF TypeOK, Receipts, store, history
  <1>4. Frame(r)
    BY <1>1, <1>2, PublishConstants, PlanFacts
    DEF TypeOK, Frame, Goes, Ends, DropTemps, Exact, store, temps, history
  <1>5. RunOK(r)'
    <2>1. CASE Ends(r)
      BY <2>1, IdleOK DEF TypeOK, Ends
    <2>2. CASE ~Ends(r)
      BY <1>1, <1>2, <2>2, PlanFacts
      DEF TypeOK, Goes, RunOK, HoldsLock, TempsFull, Archived, ReplaceSafe,
          NotYet, Wanted, Exact, Target, store, temps, history
    <2> QED BY <2>1, <2>2
  <1> QED BY <1>2, <1>3, <1>4, <1>5, QuietStep DEF store, history

LEMMA FillObjectStep ==
    ASSUME Inv, NEW r \in Runs, FillObject(r)
    PROVE  Inv'
  <1> USE DEF Inv
  <1>1. \/ Goes(r, "link") /\ objTemp' = [objTemp EXCEPT ![r] = "full"]
           /\ UNCHANGED curTemp
        \/ Ends(r) /\ UNCHANGED curTemp
           /\ objTemp' \in {objTemp, [objTemp EXCEPT ![r] = "none"]}
    BY FailObjectEnds DEF FillObject, Codes, Go, Goes, temps
  <1>2. /\ pc[r] = "fill"
        /\ UNCHANGED <<store, plan, slot, history>>
    BY DEF FillObject
  <1>3. TypeOK'
    <2>1. pc' \in [Runs -> Steps] /\ lock' \in [Roots -> Runs \cup {NoRun}]
          /\ receipt' \in [Runs -> Receipts]
      BY <1>1 DEF TypeOK, Steps, Goes, Ends, Receipts
    <2>2. /\ slot' \in [Runs -> Slots]
          /\ objTemp' \in [Runs -> {"none", "partial", "full"}]
          /\ curTemp' \in [Runs -> {"none", "partial", "full"}]
      BY <1>1, <1>2 DEF TypeOK, DropTemps, temps
    <2> QED BY <1>1, <1>2, <2>1, <2>2, PlanFacts
      DEF TypeOK, Receipts, store, history
  <1>4. Frame(r)
    BY <1>1, <1>2, PublishConstants, PlanFacts
    DEF TypeOK, Frame, Goes, Ends, DropTemps, Exact, store, temps, history
  <1>5. RunOK(r)'
    <2>1. CASE Ends(r)
      BY <2>1, IdleOK DEF TypeOK, Ends
    <2>2. CASE ~Ends(r)
      <3>1. pc'[r] = "link"
        BY <1>1, <2>2 DEF TypeOK, Goes
      <3>2. ReplaceSafe(r)'
        BY <3>1 DEF ReplaceSafe
      <3> QED BY <1>1, <1>2, <2>2, <3>1, <3>2, PlanFacts
        DEF TypeOK, Goes, RunOK, HoldsLock, TempsFull, Archived, NotYet, Wanted,
            Exact, store, temps, history
    <2> QED BY <2>1, <2>2
  <1> QED BY <1>2, <1>3, <1>4, <1>5, QuietStep DEF store, history

LEMMA LinkObjectStep ==
    ASSUME Inv, NEW r \in Runs, LinkObject(r)
    PROVE  Inv'
  <1> USE DEF Inv
  <1>1. \/ /\ objects[Wanted(r)] = "absent" /\ Goes(r, "sync")
           /\ objects' = [objects EXCEPT ![Wanted(r)] = "exact"]
           /\ created' = [created EXCEPT ![r] = @ \cup {Wanted(r)}]
           /\ UNCHANGED <<slot, temps>>
        \/ /\ Exact(Wanted(r)) /\ slot[r] = "old" /\ Goes(r, "ensure")
           /\ slot' = [slot EXCEPT ![r] = "new"]
           /\ objTemp' = [objTemp EXCEPT ![r] = "none"]
           /\ UNCHANGED <<objects, created, curTemp>>
        \/ /\ Exact(Wanted(r)) /\ slot[r] # "old" /\ Goes(r, "stage")
           /\ objTemp' = [objTemp EXCEPT ![r] = "none"]
           /\ UNCHANGED <<objects, created, slot, curTemp>>
        \/ Ends(r) /\ UNCHANGED <<objects, created, slot, curTemp>>
           /\ objTemp' \in {objTemp, [objTemp EXCEPT ![r] = "none"]}
    BY FailObjectEnds, PlanFacts
    DEF LinkObject, RunOK, TempsFull, Codes, Go, Goes, Ensured, Exact, temps
  <1>2. /\ pc[r] = "link"
        /\ UNCHANGED <<current, synced, plan, swapped, surprised, overwritten, edits,
            foreign>>
    BY DEF LinkObject
  <1>3. TypeOK'
    <2>1. pc' \in [Runs -> Steps] /\ lock' \in [Roots -> Runs \cup {NoRun}]
          /\ receipt' \in [Runs -> Receipts]
      BY <1>1 DEF TypeOK, Steps, Goes, Ends, Receipts
    <2>2. slot' \in [Runs -> Slots]
      BY <1>1, <1>2 DEF TypeOK, temps
    <2>3. /\ objTemp' \in [Runs -> {"none", "partial", "full"}]
          /\ curTemp' \in [Runs -> {"none", "partial", "full"}]
      BY <1>1, <1>2 DEF TypeOK, DropTemps, temps
    <2>4. /\ objects' \in [Versions -> {"absent", "exact", "other"}]
          /\ created' \in [Runs -> SUBSET Versions]
          /\ synced' \subseteq Versions
      <3>1. Wanted(r) \in Versions
        BY PlanFacts
      <3>2. objects' \in [Versions -> {"absent", "exact", "other"}]
        BY <1>1, <1>2, <3>1 DEF TypeOK, store
      <3>3. created' \in [Runs -> SUBSET Versions]
        BY <1>1, <1>2, <3>1 DEF TypeOK, history
      <3>4. synced' \subseteq Versions
        BY <1>1, <1>2, <3>1 DEF TypeOK, store
      <3> QED BY <3>2, <3>3, <3>4
    <2> QED BY <1>2, <2>1, <2>2, <2>3, <2>4 DEF TypeOK, Receipts, store, history
  <1>4. Frame(r)
    BY <1>1, <1>2, PublishConstants, PlanFacts
    DEF TypeOK, Frame, Goes, Ends, DropTemps, Exact, store, temps, history
  <1>5. RunOK(r)'
    <2>1. CASE Ends(r)
      BY <2>1, IdleOK DEF TypeOK, Ends
    <2>2. CASE ~Ends(r)
      BY <1>1, <1>2, <2>2, PlanFacts
      DEF TypeOK, Goes, RunOK, HoldsLock, TempsFull, Archived, ReplaceSafe,
          NotYet, Wanted, Exact, Target, store, temps, history
    <2> QED BY <2>1, <2>2
  <1> QED BY <1>2, <1>3, <1>4, <1>5, QuietStep DEF store, history

LEMMA SyncObjectStep ==
    ASSUME Inv, NEW r \in Runs, SyncObject(r)
    PROVE  Inv'
  <1> USE DEF Inv
  <1>1. \/ /\ Exact(Wanted(r)) /\ slot[r] = "old" /\ Goes(r, "ensure")
           /\ slot' = [slot EXCEPT ![r] = "new"]
           /\ synced' = synced \cup {Wanted(r)}
           /\ objTemp' = [objTemp EXCEPT ![r] = "none"] /\ UNCHANGED curTemp
        \/ /\ Exact(Wanted(r)) /\ slot[r] # "old" /\ Goes(r, "stage")
           /\ synced' = synced \cup {Wanted(r)}
           /\ objTemp' = [objTemp EXCEPT ![r] = "none"]
           /\ UNCHANGED <<slot, curTemp>>
        \/ Ends(r) /\ UNCHANGED <<synced, slot, curTemp>>
           /\ objTemp' \in {objTemp, [objTemp EXCEPT ![r] = "none"]}
    BY FailObjectEnds
    DEF SyncObject, RunOK, Archived, Codes, Go, Goes, Ensured, temps
  <1>2. /\ pc[r] = "sync"
        /\ UNCHANGED <<current, objects, plan, history>>
    BY DEF SyncObject
  <1>3. TypeOK'
    <2>1. pc' \in [Runs -> Steps] /\ lock' \in [Roots -> Runs \cup {NoRun}]
          /\ receipt' \in [Runs -> Receipts]
      BY <1>1 DEF TypeOK, Steps, Goes, Ends, Receipts
    <2>2. /\ slot' \in [Runs -> Slots]
          /\ objTemp' \in [Runs -> {"none", "partial", "full"}]
          /\ curTemp' \in [Runs -> {"none", "partial", "full"}]
      BY <1>1, <1>2 DEF TypeOK, DropTemps, temps
    <2> QED BY <1>1, <1>2, <2>1, <2>2, PlanFacts
      DEF TypeOK, Receipts, store, history
  <1>4. Frame(r)
    BY <1>1, <1>2, PublishConstants, PlanFacts
    DEF TypeOK, Frame, Goes, Ends, DropTemps, Exact, store, temps, history
  <1>5. RunOK(r)'
    <2>1. CASE Ends(r)
      BY <2>1, IdleOK DEF TypeOK, Ends
    <2>2. CASE ~Ends(r)
      BY <1>1, <1>2, <2>2, PlanFacts
      DEF TypeOK, Goes, RunOK, HoldsLock, TempsFull, Archived, ReplaceSafe,
          NotYet, Wanted, Exact, Target, store, temps, history
    <2> QED BY <2>1, <2>2
  <1> QED BY <1>2, <1>3, <1>4, <1>5, QuietStep DEF store, history

LEMMA StageCurrentStep ==
    ASSUME Inv, NEW r \in Runs, StageCurrent(r)
    PROVE  Inv'
  <1> USE DEF Inv
  <1>1. \/ Goes(r, "fill_current") /\ UNCHANGED objTemp
           /\ curTemp' = [curTemp EXCEPT ![r] = "partial"]
        \/ Ends(r) /\ DropTemps(r)
    BY FailPartialEnds DEF StageCurrent, Codes, Go, Goes, temps
  <1>2. /\ pc[r] = "stage"
        /\ UNCHANGED <<store, plan, slot, history>>
    BY DEF StageCurrent
  <1>3. TypeOK'
    <2>1. pc' \in [Runs -> Steps] /\ lock' \in [Roots -> Runs \cup {NoRun}]
          /\ receipt' \in [Runs -> Receipts]
      BY <1>1 DEF TypeOK, Steps, Goes, Ends, Receipts
    <2>2. /\ slot' \in [Runs -> Slots]
          /\ objTemp' \in [Runs -> {"none", "partial", "full"}]
          /\ curTemp' \in [Runs -> {"none", "partial", "full"}]
      BY <1>1, <1>2 DEF TypeOK, DropTemps, temps
    <2> QED BY <1>1, <1>2, <2>1, <2>2, PlanFacts
      DEF TypeOK, Receipts, store, history
  <1>4. Frame(r)
    BY <1>1, <1>2, PublishConstants, PlanFacts
    DEF TypeOK, Frame, Goes, Ends, DropTemps, Exact, store, temps, history
  <1>5. RunOK(r)'
    <2>1. CASE Ends(r)
      BY <2>1, IdleOK DEF TypeOK, Ends
    <2>2. CASE ~Ends(r)
      <3>1. pc'[r] = "fill_current"
        BY <1>1, <2>2 DEF TypeOK, Goes
      <3>2. ReplaceSafe(r)'
        BY <3>1 DEF ReplaceSafe
      <3> QED BY <1>1, <1>2, <2>2, <3>1, <3>2, PlanFacts
        DEF TypeOK, Goes, RunOK, HoldsLock, TempsFull, Archived, NotYet, Wanted,
            Exact, store, temps, history
    <2> QED BY <2>1, <2>2
  <1> QED BY <1>2, <1>3, <1>4, <1>5, QuietStep DEF store, history

LEMMA FillCurrentStep ==
    ASSUME Inv, NEW r \in Runs, FillCurrent(r)
    PROVE  Inv'
  <1> USE DEF Inv
  <1>1. \/ Goes(r, "revalidate") /\ UNCHANGED objTemp
           /\ curTemp' = [curTemp EXCEPT ![r] = "full"]
        \/ Ends(r) /\ DropTemps(r)
    BY FailPartialEnds DEF FillCurrent, Codes, Go, Goes, temps
  <1>2. /\ pc[r] = "fill_current"
        /\ UNCHANGED <<store, plan, slot, history>>
    BY DEF FillCurrent
  <1>3. TypeOK'
    <2>1. pc' \in [Runs -> Steps] /\ lock' \in [Roots -> Runs \cup {NoRun}]
          /\ receipt' \in [Runs -> Receipts]
      BY <1>1 DEF TypeOK, Steps, Goes, Ends, Receipts
    <2>2. /\ slot' \in [Runs -> Slots]
          /\ objTemp' \in [Runs -> {"none", "partial", "full"}]
          /\ curTemp' \in [Runs -> {"none", "partial", "full"}]
      BY <1>1, <1>2 DEF TypeOK, DropTemps, temps
    <2> QED BY <1>1, <1>2, <2>1, <2>2, PlanFacts
      DEF TypeOK, Receipts, store, history
  <1>4. Frame(r)
    BY <1>1, <1>2, PublishConstants, PlanFacts
    DEF TypeOK, Frame, Goes, Ends, DropTemps, Exact, store, temps, history
  <1>5. RunOK(r)'
    <2>1. CASE Ends(r)
      BY <2>1, IdleOK DEF TypeOK, Ends
    <2>2. CASE ~Ends(r)
      <3>1. pc'[r] = "revalidate"
        BY <1>1, <2>2 DEF TypeOK, Goes
      <3>2. ReplaceSafe(r)'
        BY <3>1 DEF ReplaceSafe
      <3>3. TempsFull(r)' /\ NotYet(r)'
        BY <1>1, <1>2, <2>2, <3>1 DEF TypeOK, RunOK, TempsFull, NotYet, history
      <3>4. HoldsLock(r)' /\ Archived(r)'
        BY <1>1, <1>2, <2>2, <3>1, PlanFacts
        DEF TypeOK, Goes, RunOK, HoldsLock, Archived, Exact, store
      <3> QED BY <3>2, <3>3, <3>4 DEF RunOK
    <2> QED BY <2>1, <2>2
  <1> QED BY <1>2, <1>3, <1>4, <1>5, QuietStep DEF store, history

LEMMA RevalidateStep ==
    ASSUME Inv, NEW r \in Runs, Revalidate(r)
    PROVE  Inv'
  <1> USE DEF Inv
  <1>1. \/ /\ current[Target(r)] = plan[r].old
           /\ Goes(r, "replace") /\ UNCHANGED temps
        \/ Ends(r) /\ DropTemps(r)
    BY FailPartialEnds DEF Revalidate, Codes, Go, Goes, temps
  <1>2. /\ pc[r] = "revalidate"
        /\ UNCHANGED <<store, plan, slot, history>>
    BY DEF Revalidate
  <1>3. TypeOK'
    <2>1. pc' \in [Runs -> Steps] /\ lock' \in [Roots -> Runs \cup {NoRun}]
          /\ receipt' \in [Runs -> Receipts]
      BY <1>1 DEF TypeOK, Steps, Goes, Ends, Receipts
    <2>2. /\ slot' \in [Runs -> Slots]
          /\ objTemp' \in [Runs -> {"none", "partial", "full"}]
          /\ curTemp' \in [Runs -> {"none", "partial", "full"}]
      BY <1>1, <1>2 DEF TypeOK, DropTemps, temps
    <2> QED BY <1>1, <1>2, <2>1, <2>2, PlanFacts
      DEF TypeOK, Receipts, store, history
  <1>4. Frame(r)
    BY <1>1, <1>2, PublishConstants, PlanFacts
    DEF TypeOK, Frame, Goes, Ends, DropTemps, Exact, store, temps, history
  <1>5. RunOK(r)'
    <2>1. CASE Ends(r)
      BY <2>1, IdleOK DEF TypeOK, Ends
    <2>2. CASE ~Ends(r)
      BY <1>1, <1>2, <2>2, PlanFacts
      DEF TypeOK, Goes, RunOK, HoldsLock, TempsFull, Archived, ReplaceSafe,
          NotYet, Wanted, Exact, Target, store, temps, history
    <2> QED BY <2>1, <2>2
  <1> QED BY <1>2, <1>3, <1>4, <1>5, QuietStep DEF store, history

LEMMA ReplaceFailsStep ==
    ASSUME Inv, NEW r \in Runs, ReplaceFails(r)
    PROVE  Inv'
  <1> USE DEF Inv
  <1>1. Ends(r) /\ DropTemps(r)
    BY ReplaceErrorEnds DEF ReplaceFails, Codes
  <1>2. UNCHANGED <<store, plan, slot, history>>
    BY DEF ReplaceFails
  <1>3. TypeOK'
    BY <1>1, <1>2, PlanFacts
    DEF TypeOK, Steps, Goes, Ends, Receipts, DropTemps, store, temps, history
  <1>4. Frame(r)
    BY <1>1, <1>2, PublishConstants, PlanFacts
    DEF TypeOK, Frame, Goes, Ends, DropTemps, Exact, store, temps, history
  <1>5. RunOK(r)'
    BY <1>1, IdleOK DEF TypeOK, Ends
  <1> QED BY <1>2, <1>3, <1>4, <1>5, QuietStep DEF store, history

LEMMA VerifyStep ==
    ASSUME Inv, NEW r \in Runs, Verify(r)
    PROVE  Inv'
  <1> USE DEF Inv
  <1>1. Ends(r) /\ (DropTemps(r) \/ UNCHANGED temps)
    BY EndEnds, ReplaceErrorEnds DEF Verify, Statuses, Codes
  <1>2. UNCHANGED <<store, plan, slot, history>>
    BY DEF Verify
  <1>3. TypeOK'
    BY <1>1, <1>2, PlanFacts
    DEF TypeOK, Steps, Goes, Ends, Receipts, DropTemps, store, temps, history
  <1>4. Frame(r)
    BY <1>1, <1>2, PublishConstants, PlanFacts
    DEF TypeOK, Frame, Goes, Ends, DropTemps, Exact, store, temps, history
  <1>5. RunOK(r)'
    BY <1>1, IdleOK DEF TypeOK, Ends
  <1> QED BY <1>2, <1>3, <1>4, <1>5, QuietStep DEF store, history

LEMMA UnreportedStep ==
    ASSUME Inv, NEW r \in Runs, Unreported(r)
    PROVE  Inv'
  <1> USE DEF Inv
  <1>1. /\ Ends(r)
        /\ objTemp' \in {objTemp, [objTemp EXCEPT ![r] = "none"]}
        /\ curTemp' \in {curTemp, [curTemp EXCEPT ![r] = "none"]}
    BY EndNoReceipt DEF Unreported
  <1>2. UNCHANGED <<store, plan, slot, history>>
    BY DEF Unreported
  <1>3. TypeOK'
    BY <1>1, <1>2, PlanFacts
    DEF TypeOK, Steps, Goes, Ends, Receipts, store, temps, history
  <1>4. Frame(r)
    BY <1>1, <1>2, PublishConstants, PlanFacts
    DEF TypeOK, Frame, Goes, Ends, Exact, store, temps, history
  <1>5. RunOK(r)'
    BY <1>1, IdleOK DEF TypeOK, Ends
  <1> QED BY <1>2, <1>3, <1>4, <1>5, QuietStep DEF store, history

LEMMA CrashStep ==
    ASSUME Inv, NEW r \in Runs, Crash(r)
    PROVE  Inv'
  <1> USE DEF Inv
  <1>1. /\ pc' = [pc EXCEPT ![r] = "crashed"]
        /\ lock' = [d \in Roots |-> IF lock[d] = r THEN NoRun ELSE lock[d]]
    BY DEF Crash, Go, Release
  <1>2. UNCHANGED <<store, plan, slot, temps, receipt, history>>
    BY DEF Crash
  <1>3. TypeOK'
    BY <1>1, <1>2, PlanFacts
    DEF TypeOK, Steps, Goes, Ends, Receipts, DropTemps, store, temps, history
  <1>4. Frame(r)
    BY <1>1, <1>2, PublishConstants, PlanFacts
    DEF TypeOK, Frame, Goes, Ends, DropTemps, Exact, store, temps, history
  <1>5. RunOK(r)'
    BY <1>1, IdleOK DEF TypeOK, Ends
  <1> QED BY <1>2, <1>3, <1>4, <1>5, QuietStep DEF store, history

LEMMA ReplaceStep ==
    ASSUME Inv, NEW r \in Runs, Replace(r)
    PROVE  Inv'
  <1> USE DEF Inv
  <1> DEFINE f == Target(r)
  <1>1. /\ pc[r] = "replace" /\ pc' = [pc EXCEPT ![r] = "verify"]
        /\ curTemp' = [curTemp EXCEPT ![r] = "none"]
        /\ current' = [current EXCEPT ![f] = plan[r].new]
        /\ swapped' = swapped \cup {r}
        /\ overwritten' = IF r \in surprised THEN overwritten
                                             ELSE overwritten \cup {current[f]}
    BY DEF Replace, Go, RunOK, TempsFull
  <1>2. UNCHANGED <<objects, synced, lock, plan, slot, objTemp, receipt,
                    created, surprised, edits, foreign>>
    BY DEF Replace
  <1>3. Exact(plan[r].old) /\ Exact(plan[r].new)
    BY <1>1 DEF RunOK, Archived
  <1>4. TypeOK'
    BY <1>1, <1>2, PlanFacts DEF TypeOK, Steps
  <1>5. Frame(r)
    BY <1>1, <1>2 DEF TypeOK, Frame, Exact
  <1>6. RunOK(r)'
    BY <1>1, <1>2, <1>3
    DEF TypeOK, RunOK, HoldsLock, TempsFull, Archived, ReplaceSafe, NotYet,
        Exact
  <1>7. ASSUME NEW q \in Runs \ {r} PROVE RunOK(q)'
    <2>1. HoldsLock(q)' /\ TempsFull(q)' /\ Archived(q)' /\ NotYet(q)'
      BY <1>5, OthersKeep
    <2>2. ReplaceSafe(q)'
      <3> SUFFICES ASSUME pc[q] = "replace"
                   PROVE  /\ q \notin surprised => Exact(current[Target(q)])'
                          /\ Untouched(Target(q)) /\ OneRootPerFile
                                => current'[Target(q)] = plan[q].old
        BY <1>5, <1>2 DEF Frame, ReplaceSafe, Untouched, Target
      <3>1. CASE Target(q) = f
        \* One root per file: q and r would hold the same lock.
        <4>1. ~OneRootPerFile
          BY <1>1, <3>1, PlanFacts DEF RunOK, HoldsLock, OneRootPerFile
        <4>2. Exact(current[Target(q)])'
          BY <1>1, <1>2, <1>3, <3>1, PlanFacts DEF TypeOK, Exact, Target
        <4> QED BY <4>1, <4>2
      <3>2. CASE Target(q) # f
        BY <1>1, <1>2, <3>2, PlanFacts
        DEF TypeOK, RunOK, ReplaceSafe, Exact, Target
      <3> QED BY <3>1, <3>2
    <2> QED BY <2>1, <2>2 DEF RunOK
  <1>8. NoLostVersion'
    <2>1. r \notin surprised => Exact(current[f])
      BY <1>1 DEF RunOK, ReplaceSafe
    <2> QED BY <1>1, <1>2, <1>3, <2>1 DEF NoLostVersion, Exact
  <1>9. NoTornBytes'
    BY <1>1, <1>2, PlanFacts, PublishConstants DEF TypeOK, NoTornBytes
  <1> QED BY <1>4, <1>6, <1>7, <1>8, <1>9

LEMMA OutsideEditStep ==
    ASSUME Inv, NEW f \in Files, OutsideEdit(f)
    PROVE  Inv'
  <1> USE DEF Inv
  <1>1. PICK v \in Versions \cup {Link} : current' = [current EXCEPT ![f] = v]
    BY DEF OutsideEdit
  <1>2. edits[f] < MaxEdits /\ edits' = [edits EXCEPT ![f] = @ + 1]
    BY DEF OutsideEdit
  <1>3. /\ UNCHANGED <<objects, synced, lock, pc, plan, slot, temps, receipt,
                       created, swapped, overwritten, foreign>>
        /\ surprised' = surprised \cup
                           {r \in Runs : pc[r] = "replace" /\ Target(r) = f}
    BY DEF OutsideEdit
  <1>4. TypeOK'
    BY <1>1, <1>2, <1>3, PublishConstants DEF TypeOK, temps
  <1>5. ASSUME NEW q \in Runs PROVE RunOK(q)'
    <2>1. HoldsLock(q)' /\ TempsFull(q)' /\ Archived(q)' /\ NotYet(q)'
      BY <1>3
      DEF RunOK, HoldsLock, TempsFull, Archived, NotYet, Exact, Wanted, temps
    <2>2. CASE Target(q) = f
      <3>1. /\ ~Untouched(Target(q))'
            /\ pc'[q] = "replace" => q \in surprised'
        BY <1>2, <1>3, <2>2 DEF TypeOK, Untouched, Target
      <3> QED BY <2>1, <3>1 DEF RunOK, ReplaceSafe
    <2>3. CASE Target(q) # f
      <3>1. ReplaceSafe(q)'
        BY <1>1, <1>2, <1>3, <2>3, PlanFacts
        DEF TypeOK, RunOK, ReplaceSafe, Untouched, Exact, Target
      <3> QED BY <2>1, <3>1 DEF RunOK
    <2> QED BY <2>2, <2>3
  <1>6. NoLostVersion' /\ NoTornBytes'
    BY <1>1, <1>3, PublishConstants
    DEF TypeOK, NoLostVersion, NoTornBytes, Exact
  <1> QED BY <1>4, <1>5, <1>6

LEMMA OutsideObjectStep ==
    ASSUME Inv, NEW v \in Versions, OutsideObject(v)
    PROVE  Inv'
  <1> USE DEF Inv
  <1>1. /\ objects[v] = "absent" /\ objects' = [objects EXCEPT ![v] = "other"]
        /\ foreign' = foreign \cup {v}
        /\ UNCHANGED <<current, synced, lock, pc, plan, slot, temps, receipt,
                       created, swapped, surprised, overwritten, edits>>
    BY DEF OutsideObject
  <1>2. TypeOK'
    BY <1>1 DEF TypeOK, temps
  <1>3. \A u : Exact(u) => Exact(u)'
    BY <1>1 DEF TypeOK, Exact
  <1>4. ASSUME NEW q \in Runs PROVE RunOK(q)'
    BY <1>1, <1>3
    DEF RunOK, HoldsLock, TempsFull, Archived, ReplaceSafe, NotYet, Untouched,
        Target, Wanted, temps
  <1>5. NoLostVersion' /\ NoTornBytes'
    BY <1>1, <1>3 DEF TypeOK, NoLostVersion, NoTornBytes
  <1> QED BY <1>2, <1>4, <1>5

LEMMA StutterStep ==
    ASSUME Inv, UNCHANGED vars
    PROVE  Inv'
  BY DEF Inv, TypeOK, RunOK, HoldsLock, TempsFull, Archived, ReplaceSafe,
      NotYet,
         NoLostVersion, NoTornBytes, Exact, Wanted, Untouched, Target,
         vars, store, temps, history

LEMMA NextInv == Inv /\ [Next]_vars => Inv'
  <1> SUFFICES ASSUME Inv, [Next]_vars PROVE Inv'
    OBVIOUS
  <1>1. ASSUME NEW r \in Runs, Progress(r) PROVE Inv'
    BY <1>1, ValidateStep, AcquireLockStep, BeforeEffectStep, ObserveStep,
       CaptureStep, EnsureObjectStep, FillObjectStep, LinkObjectStep,
       SyncObjectStep, StageCurrentStep, FillCurrentStep, RevalidateStep,
       ReplaceStep, ReplaceFailsStep, VerifyStep, UnreportedStep DEF Progress
  <1>2. ASSUME NEW r \in Runs, Crash(r) PROVE Inv'
    BY <1>2, CrashStep
  <1>3. ASSUME NEW f \in Files, OutsideEdit(f) PROVE Inv'
    BY <1>3, OutsideEditStep
  <1>4. ASSUME NEW v \in Versions, OutsideObject(v) PROVE Inv'
    BY <1>4, OutsideObjectStep
  <1>5. CASE UNCHANGED vars
    BY <1>5, StutterStep
  <1> QED BY <1>1, <1>2, <1>3, <1>4, <1>5 DEF Next

\* The invariant holds in every reachable state.
LEMMA Invariance == Spec => []Inv
  <1>1. Init => Inv
    BY InitInv
  <1>2. Inv /\ [Next]_vars => Inv'
    BY NextInv
  <1> QED BY <1>1, <1>2, PTL DEF Spec

-----------------------------------------------------------------------------
(* The theorems                                                             *)

\* Every variable keeps its type: no step of execute or _ensure_object, no
\* fault and no crash leaves the vocabulary of the model.
THEOREM TypeCorrect == Spec => []TypeOK
  <1>1. Inv => TypeOK
    BY DEF Inv
  <1> QED BY <1>1, Invariance, PTL

\* However many runs publish to however many files, under one lock or under
\* several for the same file, the archive-before-replace order of execute keeps
\* every overwritten and every published version in the object store.
THEOREM VersionsNeverLost == Spec => []NoLostVersion
  <1>1. Inv => NoLostVersion
    BY DEF Inv
  <1> QED BY <1>1, Invariance, PTL

\* Temporary file, read-back, os.link and os.replace: no reader of a current
\* file or of an object locator ever finds a part of a version.
THEOREM NothingTorn == Spec => []NoTornBytes
  <1>1. Inv => NoTornBytes
    BY DEF Inv
  <1> QED BY <1>1, Invariance, PTL

-----------------------------------------------------------------------------
(* The runs implement VersionStore                                          *)

stored == {v \in Versions : objects[v] = "exact"}
edited == {f \in Files : edits[f] > 0}

\* A step of a run that writes no current file archives at most one version.
LEMMA QuietArchives ==
    ASSUME Inv, NEW r \in Runs, Progress(r) \/ Crash(r), ~Replace(r)
    PROVE  [Store!Next]_(Store!vars)
  <1>1. UNCHANGED <<plan, current, swapped, edits>>
    BY DEF Progress, Validate, AcquireLock, BeforeEffect, Observe, Capture,
           EnsureObject, FillObject, LinkObject, SyncObject, StageCurrent,
           FillCurrent, Revalidate, ReplaceFails, Verify, Unreported, Crash,
           store, history
  <1>2. UNCHANGED objects \/ objects' = [objects EXCEPT ![Wanted(r)] = "exact"]
    BY DEF Progress, Validate, AcquireLock, BeforeEffect, Observe, Capture,
           EnsureObject, FillObject, LinkObject, SyncObject, StageCurrent,
           FillCurrent, Revalidate, ReplaceFails, Verify, Unreported, Crash,
           store, Inv, RunOK, TempsFull
  <1>3. CASE UNCHANGED objects
    BY <1>1, <1>3 DEF Store!vars
  <1>4. CASE objects' = [objects EXCEPT ![Wanted(r)] = "exact"]
    <2>1. Wanted(r) \in Versions
      BY PlanFacts DEF Inv
    <2>2. stored' = stored \cup {Wanted(r)}
      BY <1>4, <2>1 DEF Inv, TypeOK, stored
    <2>3. Wanted(r) \in {plan[r].old, plan[r].new}
      BY DEF Wanted
    <2>4. Store!Archive(r)
      BY <1>1, <2>2, <2>3 DEF Store!Archive, stored
    <2>5. Store!Next
      BY <2>4 DEF Store!Next
    <2> QED BY <2>5
  <1> QED BY <1>2, <1>3, <1>4

\* A replace is a compare and swap: both versions are archived, and under one
\* root nobody has moved the file since it was compared.
LEMMA ReplacePublishes ==
    ASSUME Inv, OneRootPerFile, NEW r \in Runs, Replace(r)
    PROVE  Store!Publish(r)
  <1> USE DEF Inv
  <1>1. /\ pc[r] = "replace"
        /\ current' = [current EXCEPT ![Target(r)] = plan[r].new]
        /\ swapped' = swapped \cup {r}
        /\ r \notin swapped
        /\ UNCHANGED <<plan, objects, edits>>
    BY DEF Replace, RunOK, TempsFull, NotYet
  <1>2. {plan[r].old, plan[r].new} \subseteq stored
    BY <1>1 DEF RunOK, Archived, Exact, stored
  <1>3. Target(r) \in edited \/ current[Target(r)] = plan[r].old
    <2>1. CASE Untouched(Target(r))
      BY <1>1, <2>1 DEF RunOK, ReplaceSafe
    <2>2. CASE ~Untouched(Target(r))
      BY <2>2, PlanFacts DEF TypeOK, Untouched, edited
    <2> QED BY <2>1, <2>2
  <1> QED BY <1>1, <1>2, <1>3 DEF Store!Publish, Target, stored, edited

LEMMA OutsideStore ==
    ASSUME Inv, \/ \E f \in Files : OutsideEdit(f)
                \/ \E v \in Versions : OutsideObject(v)
    PROVE  [Store!Next]_(Store!vars)
  <1>1. ASSUME NEW f \in Files, OutsideEdit(f) PROVE Store!Next
    <2>1. PICK v \in Versions \cup {Link} : current' = [current EXCEPT ![f] = v]
      BY <1>1 DEF OutsideEdit
    <2>2. edits' = [edits EXCEPT ![f] = @ + 1] /\ UNCHANGED <<plan, objects,
        swapped>>
      BY <1>1 DEF OutsideEdit
    <2>3. edited' = edited \cup {f}
      BY <2>2 DEF Inv, TypeOK, edited
    <2>4. Store!Edit(f, v)
      BY <2>1, <2>2, <2>3 DEF Store!Edit, edited
    <2> QED BY <2>4 DEF Store!Next
  <1>2. ASSUME NEW v \in Versions, OutsideObject(v) PROVE UNCHANGED Store!vars
    <2>1. /\ objects[v] = "absent" /\ objects' = [objects EXCEPT ![v] = "other"]
          /\ UNCHANGED <<plan, current, swapped, edits>>
      BY <1>2 DEF OutsideObject
    <2>2. stored' = stored
      BY <2>1 DEF Inv, TypeOK, stored
    <2> QED BY <2>1, <2>2 DEF Store!vars, stored
  <1> QED BY <1>1, <1>2

\* Where every file has one current root, any number of interleaved, failing
\* and dying runs is a sequence of archivings and compare-and-swap publications.
THEOREM PublishImplementsVersionStore ==
    ASSUME OneRootPerFile
    PROVE  Spec => ImplementsVersionStore
  <1>1. Init => Store!Init
    BY PublishConstants DEF Init, Store!Init
  <1>2. Inv /\ [Next]_vars => [Store!Next]_(Store!vars)
    <2> SUFFICES ASSUME Inv, [Next]_vars PROVE [Store!Next]_(Store!vars)
      OBVIOUS
    <2>1. ASSUME NEW r \in Runs, Progress(r) \/ Crash(r), ~Replace(r)
          PROVE  [Store!Next]_(Store!vars)
      BY <2>1, QuietArchives
    <2>2. ASSUME NEW r \in Runs, Replace(r) PROVE Store!Next
      <3>1. Store!Publish(r)
        BY <2>2, ReplacePublishes
      <3> QED BY <3>1 DEF Store!Next
    <2>3. CASE \/ \E f \in Files : OutsideEdit(f)
               \/ \E v \in Versions : OutsideObject(v)
      BY <2>3, OutsideStore
    <2>4. CASE UNCHANGED vars
      BY <2>4 DEF vars, store, history, Store!vars
    <2> QED BY <2>1, <2>2, <2>3, <2>4 DEF Next
  <1> QED BY <1>1, <1>2, Invariance, PTL
    DEF Spec, ImplementsVersionStore, Store!Spec

=============================================================================
