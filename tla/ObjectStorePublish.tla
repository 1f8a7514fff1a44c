------------------------- MODULE ObjectStorePublish -------------------------
(***************************************************************************)
(* The publish_new_version v2 mechanism (mutation/object_store_publish.py) *)
(* as the broker drives it: several runs, each a separate process, publish *)
(* new versions of current files.  A run archives the old bytes and the    *)
(* new bytes as immutable, content-addressed objects and then replaces the *)
(* current file atomically.  The current root is locked; the objects root, *)
(* which many current roots share, is not.                                 *)
(*                                                                         *)
(* A version stands for its bytes, and a digest for the bytes it names, so *)
(* the object locator of a version is the version itself.                  *)
(***************************************************************************)
EXTENDS Naturals, FiniteSets

CONSTANTS
    Runs,       \* run ids; every invocation has its own
    Files,      \* physical current files
    Roots,      \* directories that invocations bind as their current root
    RootsOf,    \* RootsOf[f]: the roots through which f can be named
    Versions,   \* contents a current file may hold
    Link,       \* a symbolic link where a current file should be
    Torn,       \* a current file with part of its bytes
    NoRun,      \* the holder of a free lock
    MaxEdits,   \* bound on the writes to one file that bypass Phase
    MaxForeign  \* bound on the object locators that something else occupies

ASSUME PublishConstants ==
    /\ RootsOf \in [Files -> SUBSET Roots]
    /\ Link \notin Versions
    /\ Torn \notin Versions
    /\ Link # Torn
    /\ NoRun \notin Runs
    /\ MaxEdits \in Nat
    /\ MaxForeign \in Nat

VARIABLES
    current,    \* current[f]: what a reader of the file sees
    objects,    \* objects[v]: "absent", "exact" or "other" bytes at its locator
    synced,     \* objects whose directory entry a parent fsync has covered
    lock,       \* lock[d]: the run that holds TargetRootLock of root d
    pc,         \* the step each run is about to take
    plan,       \* the static plan each run was invoked with
    slot,       \* the object _ensure_object is called for: "old" or "new"
    objTemp,    \* the run's <object>.phase-tmp-object-<token> file
    curTemp,    \* the run's <current>.phase-tmp-<run id> file
    receipt,    \* the effect receipt, or what the run ended with instead
    \* History, read by the properties only
    created,    \* objects that each run linked
    swapped,    \* runs whose os.replace took effect
    surprised,  \* runs whose file was written outside after their last look
    overwritten,\* what the replaces of the other runs overwrote
    edits,      \* edits[f]: writes to f that did not go through Phase
    foreign     \* versions whose object locator something else occupies

store   == <<current, objects, synced>>
temps   == <<objTemp, curTemp>>
history == <<created, swapped, surprised, overwritten, edits, foreign>>
vars    == <<store, lock, pc, plan, slot, temps, receipt, history>>

Slots == {"old", "new"}

Plans == {p \in [file : Files, root : Roots, old : Versions, new : Versions] :
             p.root \in RootsOf[p.file]}

\* Steps of a run that hold the lock of its current root.
Locked == {"before_effect", "observe", "capture", "ensure", "fill", "link",
           "sync", "stage", "fill_current", "revalidate", "replace", "verify"}

Steps == Locked \cup {"validate", "acquire", "done", "crashed"}

Codes == {"none", "preconditions", "path", "changed_during_capture",
          "current_mismatch", "object_conflict", "write_failed",
          "temporary_write_failed", "current_verification_failed",
          "replace_failed", "post_replace_failed", "result_mismatch"}

Statuses == {"none", "rejected", "applied_verified", "applied_unverified",
             "failed_no_effect", "failed_partial", "indeterminate"}

Result(status, code) == [status |-> status, code |-> code]

NoReceipt == Result("none", "none")

\* A file that only Phase has written since the model's initial state.
Untouched(f) == edits[f] = 0

Target(r) == plan[r].file

\* The version whose object _ensure_object is creating for r.
Wanted(r) == IF slot[r] = "old" THEN plan[r].old ELSE plan[r].new

-----------------------------------------------------------------------------

Init ==
    /\ current \in [Files -> Versions]
    /\ objects \in [Versions -> {"absent", "exact"}]
    /\ synced = {v \in Versions : objects[v] = "exact"}
    /\ lock = [d \in Roots |-> NoRun]
    /\ pc = [r \in Runs |-> "validate"]
    /\ plan \in [Runs -> Plans]
    /\ slot = [r \in Runs |-> "old"]
    /\ objTemp = [r \in Runs |-> "none"]
    /\ curTemp = [r \in Runs |-> "none"]
    /\ receipt = [r \in Runs |-> NoReceipt]
    /\ created = [r \in Runs |-> {}]
    /\ swapped = {}
    /\ surprised = {}
    /\ overwritten = {}
    /\ edits = [f \in Files |-> 0]
    /\ foreign = {}

Go(r, step) == pc' = [pc EXCEPT ![r] = step]

\* Mutant of Release: a lock file that outlives its holder.
ReleaseNothing(r) == UNCHANGED lock

\* Leaving the `with TargetRootLock` block, or the death of the process.
Release(r) ==
    lock' = [d \in Roots |-> IF lock[d] = r THEN NoRun ELSE lock[d]]

\* The run ends with this result and releases the lock if it holds it.
End(r, result) ==
    /\ Go(r, "done")
    /\ Release(r)
    /\ receipt' = [receipt EXCEPT ![r] = result]

\* The `finally` clauses: a run unlinks the temporary files it created.
DropTemps(r) ==
    /\ objTemp' = [objTemp EXCEPT ![r] = "none"]
    /\ curTemp' = [curTemp EXCEPT ![r] = "none"]

(***************************************************************************)
(* The failed_partial receipts observe the current file while they are     *)
(* built.  A link there makes observe raise PhaseError, no effect receipt  *)
(* exists, and the Core answers with a rejection receipt.                  *)
(***************************************************************************)
Partial(r, code) ==
    IF current[Target(r)] = Link THEN Result("rejected", "path")
                                 ELSE Result("failed_partial", code)

FailPartial(r, code) == End(r, Partial(r, code)) /\ DropTemps(r)

\* A failure inside _ensure_object whose own unlink may fail as well.
FailObject(r, code) ==
    /\ End(r, Partial(r, code))
    /\ objTemp' \in {objTemp, [objTemp EXCEPT ![r] = "none"]}
    /\ UNCHANGED curTemp

\* validate_preconditions: the current file is the expected one, or already
\* the new one with the old one archived, and no locator is occupied.
Preconditions(p) ==
    /\ objects[p.new] \in {"absent", "exact"}
    /\ \/ current[p.file] = p.old /\ objects[p.old] \in {"absent", "exact"}
       \/ current[p.file] = p.new /\ objects[p.old] = "exact"

-----------------------------------------------------------------------------
(* The steps of one run                                                     *)

\* The blocking preconditions validator, before intent and without the lock.
Validate(r) ==
    /\ pc[r] = "validate"
    /\ IF Preconditions(plan[r])
         THEN Go(r, "acquire") /\ UNCHANGED <<lock, receipt>>
         ELSE End(r, Result("rejected", "preconditions"))
    /\ UNCHANGED <<store, plan, slot, temps, history>>

\* Mutant of AcquireLock: it does not wait for the holder.
AcquireTakenLock(r) ==
    /\ pc[r] = "acquire"
    /\ lock' = [lock EXCEPT ![plan[r].root] = r]
    /\ Go(r, "before_effect")
    /\ UNCHANGED <<store, plan, slot, temps, receipt, history>>

\* flock on the directory of the bound root; it waits for the holder.
AcquireLock(r) ==
    /\ pc[r] = "acquire"
    /\ lock[plan[r].root] = NoRun
    /\ lock' = [lock EXCEPT ![plan[r].root] = r]
    /\ Go(r, "before_effect")
    /\ UNCHANGED <<store, plan, slot, temps, receipt, history>>

\* The hook repeats the preconditions under the lock.
BeforeEffect(r) ==
    /\ pc[r] = "before_effect"
    /\ IF Preconditions(plan[r])
         THEN Go(r, "observe") /\ UNCHANGED <<lock, receipt>>
         ELSE End(r, Result("rejected", "preconditions"))
    /\ UNCHANGED <<store, plan, slot, temps, history>>

\* Mutant of Observe: a current file with the new bytes is complete, whatever
\* the object store holds.
ObserveCurrentOnly(r) ==
    LET p == plan[r]
        seen == current[p.file]
    IN
    /\ pc[r] = "observe"
    /\ \/ seen = Link /\ End(r, Result("rejected", "path"))
       \/ seen = p.new /\ End(r, Result("applied_verified", "none"))
       \/ /\ seen \notin {p.new, p.old, Link}
          /\ End(r, Result("failed_no_effect", "current_mismatch"))
       \/ /\ seen # p.new /\ seen = p.old
          /\ Go(r, "capture") /\ UNCHANGED <<lock, receipt>>
    /\ UNCHANGED <<store, plan, slot, temps, history>>

\* The three observations and the two receipts they may already decide.  They
\* are one step: of the objects only whether both are exact is used, and what is
\* exact stays so.
Observe(r) ==
    LET p == plan[r]
        seen == current[p.file]
        complete == seen = p.new /\ objects[p.old] = "exact"
                                 /\ objects[p.new] = "exact"
    IN
    /\ pc[r] = "observe"
    /\ \/ seen = Link /\ End(r, Result("rejected", "path"))
       \/ complete /\ End(r, Result("applied_verified", "none"))
       \/ /\ seen # Link /\ ~complete /\ seen # p.old
          /\ End(r, Result("failed_no_effect", "current_mismatch"))
       \/ /\ ~complete /\ seen = p.old
          /\ Go(r, "capture") /\ UNCHANGED <<lock, receipt>>
    /\ UNCHANGED <<store, plan, slot, temps, history>>

\* The bytes to archive are read from the current file once more.  A link
\* there fails the open with OSError: see Unreported.
Capture(r) ==
    /\ pc[r] = "capture"
    /\ current[Target(r)] # Link
    /\ IF current[Target(r)] = plan[r].old
         THEN Go(r, "ensure") /\ UNCHANGED <<lock, receipt>>
         ELSE End(r, Result("rejected", "changed_during_capture"))
    /\ UNCHANGED <<store, plan, slot, temps, history>>

\* Mutant of Ensured: the loop runs once more.
EnsuredOnceMore(r) ==
    IF slot[r] = "old"
      THEN Go(r, "ensure") /\ slot' = [slot EXCEPT ![r] = "new"]
      ELSE Go(r, "ensure") /\ slot' = [slot EXCEPT ![r] = "newer"]

\* Where _ensure_object returns: first the old object, then the new one.
Ensured(r) ==
    IF slot[r] = "old"
      THEN Go(r, "ensure") /\ slot' = [slot EXCEPT ![r] = "new"]
      ELSE Go(r, "stage") /\ UNCHANGED slot

\* An object with the exact bytes is kept, other bytes are a conflict, and an
\* absent object gets an exclusively created temporary file.
EnsureObject(r) ==
    LET found == objects[Wanted(r)] IN
    /\ pc[r] = "ensure"
    /\ \/ found = "exact" /\ Ensured(r) /\ UNCHANGED <<lock, receipt, temps>>
       \/ found = "other" /\ FailObject(r, "object_conflict") /\ UNCHANGED slot
       \/ /\ found = "absent"
          /\ objTemp' = [objTemp EXCEPT ![r] = "partial"]
          /\ Go(r, "fill")
          /\ UNCHANGED <<lock, receipt, slot, curTemp>>
    /\ UNCHANGED <<store, plan, history>>

\* Mutant of FillObject: a short write passes.
FillObjectUnread(r) ==
    /\ pc[r] = "fill"
    /\ objTemp' \in {objTemp, [objTemp EXCEPT ![r] = "full"]}
    /\ Go(r, "link")
    /\ UNCHANGED <<store, plan, slot, history, lock, receipt, curTemp>>

\* Write, fsync and read back the temporary object.
FillObject(r) ==
    /\ pc[r] = "fill"
    /\ \/ /\ objTemp' = [objTemp EXCEPT ![r] = "full"]
          /\ Go(r, "link")
          /\ UNCHANGED <<lock, receipt, curTemp>>
       \/ FailObject(r, "write_failed")
    /\ UNCHANGED <<store, plan, slot, history>>

\* Mutant of LinkObject: an object that appeared meanwhile is a conflict.
LinkObjectOrFail(r) ==
    LET v == Wanted(r) IN
    /\ pc[r] = "link"
    /\ \/ /\ objects[v] = "absent"
          /\ objects' = [objects EXCEPT ![v] = "exact"]
          /\ created' = [created EXCEPT ![r] = @ \cup {v}]
          /\ Go(r, "sync")
          /\ UNCHANGED <<lock, receipt, slot, temps>>
       \/ /\ objects[v] # "absent"
          /\ FailObject(r, "object_conflict")
          /\ UNCHANGED <<objects, created, slot>>
    /\ UNCHANGED <<current, synced, plan, swapped, surprised, overwritten, edits,
                   foreign>>

\* os.link creates the object only where nothing exists.  A run that loses
\* the race to the same bytes returns at once, without syncing the parent.
LinkObject(r) ==
    LET v == Wanted(r)
        raced == objects[v] = "exact"
    IN
    /\ pc[r] = "link"
    /\ \/ /\ objects[v] = "absent"
          /\ objects' = [objects EXCEPT ![v] =
                            IF objTemp[r] = "full" THEN "exact" ELSE "other"]
          /\ created' = [created EXCEPT ![r] = @ \cup {v}]
          /\ Go(r, "sync")
          /\ UNCHANGED <<lock, receipt, slot, temps>>
       \/ /\ raced
          /\ objTemp' = [objTemp EXCEPT ![r] = "none"]
          /\ Ensured(r)
          /\ UNCHANGED <<objects, created, lock, receipt, curTemp>>
       \/ /\ FailObject(r, IF objects[v] = "other" THEN "object_conflict"
                                                   ELSE "write_failed")
          /\ UNCHANGED <<objects, created, slot>>
    /\ UNCHANGED <<current, synced, plan, swapped, surprised, overwritten, edits,
                   foreign>>

\* fsync of the parent directory, the last observation and the unlink.
SyncObject(r) ==
    /\ pc[r] = "sync"
    /\ \/ /\ synced' = synced \cup {Wanted(r)}
          /\ objTemp' = [objTemp EXCEPT ![r] = "none"]
          /\ Ensured(r)
          /\ UNCHANGED <<lock, receipt, curTemp>>
       \/ FailObject(r, "write_failed") /\ UNCHANGED <<synced, slot>>
    /\ UNCHANGED <<current, objects, plan, history>>

\* The exclusively created temporary file beside the current file ...
StageCurrent(r) ==
    /\ pc[r] = "stage"
    /\ \/ /\ curTemp' = [curTemp EXCEPT ![r] = "partial"]
          /\ Go(r, "fill_current")
          /\ UNCHANGED <<lock, receipt, objTemp>>
       \/ FailPartial(r, "temporary_write_failed")
    /\ UNCHANGED <<store, plan, slot, history>>

\* ... is written, synced and read back.
FillCurrent(r) ==
    /\ pc[r] = "fill_current"
    /\ \/ /\ curTemp' = [curTemp EXCEPT ![r] = "full"]
          /\ Go(r, "revalidate")
          /\ UNCHANGED <<lock, receipt, objTemp>>
       \/ FailPartial(r, "temporary_write_failed")
    /\ UNCHANGED <<store, plan, slot, history>>

\* Mutant of Revalidate: it goes by the bytes that were captured.
RevalidateUnread(r) ==
    /\ pc[r] = "revalidate"
    /\ Go(r, "replace")
    /\ UNCHANGED <<store, plan, slot, history, lock, receipt, temps>>

\* The last look at the current file before it is replaced.
Revalidate(r) ==
    /\ pc[r] = "revalidate"
    /\ \/ /\ current[Target(r)] = plan[r].old
          /\ Go(r, "replace")
          /\ UNCHANGED <<lock, receipt, temps>>
       \/ /\ current[Target(r)] # plan[r].old
          /\ FailPartial(r, "current_verification_failed")
    /\ UNCHANGED <<store, plan, slot, history>>

\* os.replace of the current file, one atomic step for every reader.
Replace(r) ==
    LET f == Target(r) IN
    /\ pc[r] = "replace"
    /\ current' = [current EXCEPT ![f] =
                      IF curTemp[r] = "full" THEN plan[r].new ELSE Torn]
    /\ curTemp' = [curTemp EXCEPT ![r] = "none"]
    /\ swapped' = swapped \cup {r}
    /\ overwritten' = IF r \in surprised THEN overwritten
                                         ELSE overwritten \cup {current[f]}
    /\ Go(r, "verify")
    /\ UNCHANGED <<objects, synced, lock, plan, slot, objTemp, receipt,
                   created, surprised, edits, foreign>>

\* Mutant of AfterReplaceError: it does not look at the current file again.
AfterReplaceErrorBlind(r, code) ==
    /\ End(r, Result("failed_partial", code))
    /\ DropTemps(r)

(***************************************************************************)
(* The except clause around the replace.  It observes again: a link or an  *)
(* unreadable file is indeterminate, the new bytes are applied but not     *)
(* verified, anything else is failed_partial.                              *)
(***************************************************************************)
AfterReplaceError(r, code) ==
    LET seen == current[Target(r)] IN
    /\ \E status \in {"indeterminate", "applied_unverified", "failed_partial"} :
        /\ status = "applied_unverified" => seen = plan[r].new
        /\ status = "failed_partial" => seen \notin {plan[r].new, Link}
        /\ End(r, Result(status, code))
    /\ DropTemps(r)

ReplaceFails(r) ==
    /\ pc[r] = "replace"
    /\ AfterReplaceError(r, "replace_failed")
    /\ UNCHANGED <<store, plan, slot, history>>

\* Parent fsync, read-back of the current file and of both objects.
Verify(r) ==
    LET p == plan[r] IN
    /\ pc[r] = "verify"
    /\ \/ AfterReplaceError(r, "post_replace_failed")
       \/ /\ current[p.file] # Link
          /\ IF /\ current[p.file] = p.new
                /\ objects[p.old] = "exact"
                /\ objects[p.new] = "exact"
               THEN End(r, Result("applied_verified", "none"))
               ELSE End(r, Result("applied_unverified", "result_mismatch"))
          /\ UNCHANGED temps
    /\ UNCHANGED <<store, plan, slot, history>>

(***************************************************************************)
(* An OSError outside every except clause: the Core re-raises it, and no   *)
(* receipt is written.  It comes from an observation, also from one that a *)
(* failed_partial receipt needs, or from the unlink in the last `finally`, *)
(* which takes the place of the receipt that was to be returned.           *)
(***************************************************************************)
Unreported(r) ==
    /\ pc[r] \in Locked \ {"before_effect", "verify"}
    /\ End(r, NoReceipt)
    /\ objTemp' \in {objTemp, [objTemp EXCEPT ![r] = "none"]}
    /\ curTemp' \in {curTemp, [curTemp EXCEPT ![r] = "none"]}
    /\ UNCHANGED <<store, plan, slot, history>>

\* The process dies.  The kernel releases the flock; temporary files stay.
Crash(r) ==
    /\ pc[r] \in Locked \cup {"acquire"}
    /\ Go(r, "crashed")
    /\ Release(r)
    /\ UNCHANGED <<store, plan, slot, temps, receipt, history>>

\* Somebody writes a current file without Phase and without its lock.
OutsideEdit(f) ==
    /\ edits[f] < MaxEdits
    /\ \E v \in (Versions \cup {Link}) \ {current[f]} :
          current' = [current EXCEPT ![f] = v]
    /\ edits' = [edits EXCEPT ![f] = @ + 1]
    /\ surprised' = surprised \cup
                       {r \in Runs : pc[r] = "replace" /\ Target(r) = f}
    /\ UNCHANGED <<objects, synced, lock, pc, plan, slot, temps, receipt,
                   created, swapped, overwritten, foreign>>

\* Something else occupies the locator of an object that does not exist yet.
OutsideObject(v) ==
    /\ objects[v] = "absent"
    /\ Cardinality(foreign) < MaxForeign
    /\ objects' = [objects EXCEPT ![v] = "other"]
    /\ foreign' = foreign \cup {v}
    /\ UNCHANGED <<current, synced, lock, pc, plan, slot, temps, receipt,
                   created, swapped, surprised, overwritten, edits>>

Progress(r) ==
    \/ Validate(r) \/ AcquireLock(r) \/ BeforeEffect(r) \/ Observe(r)
    \/ Capture(r) \/ EnsureObject(r) \/ FillObject(r) \/ LinkObject(r)
    \/ SyncObject(r) \/ StageCurrent(r) \/ FillCurrent(r) \/ Revalidate(r)
    \/ Replace(r) \/ ReplaceFails(r) \/ Verify(r) \/ Unreported(r)

Next ==
    \/ \E r \in Runs : Progress(r) \/ Crash(r)
    \/ \E f \in Files : OutsideEdit(f)
    \/ \E v \in Versions : OutsideObject(v)

Spec == Init /\ [][Next]_vars

\* Each process is sequential code that waits for nothing but the flock.
FairSpec == Spec /\ \A r \in Runs : WF_vars(Progress(r))

-----------------------------------------------------------------------------
(* Properties                                                               *)

TypeOK ==
    /\ current \in [Files -> Versions \cup {Link, Torn}]
    /\ objects \in [Versions -> {"absent", "exact", "other"}]
    /\ synced \subseteq Versions
    /\ lock \in [Roots -> Runs \cup {NoRun}]
    /\ pc \in [Runs -> Steps]
    /\ plan \in [Runs -> Plans]
    /\ slot \in [Runs -> Slots]
    /\ objTemp \in [Runs -> {"none", "partial", "full"}]
    /\ curTemp \in [Runs -> {"none", "partial", "full"}]
    /\ receipt \in [Runs -> [status : Statuses, code : Codes]]
    /\ created \in [Runs -> SUBSET Versions]
    /\ swapped \subseteq Runs
    /\ surprised \subseteq Runs
    /\ overwritten \subseteq Versions \cup {Link, Torn}
    /\ edits \in [Files -> 0 .. MaxEdits]
    /\ foreign \subseteq Versions

Exact(v) == v \in Versions /\ objects[v] = "exact"

\* Nothing but Phase occupies the two object locators that r needs.
OwnLocators(r) == {plan[r].old, plan[r].new} \cap foreign = {}

\* No file can be reached through two different current roots, so that all
\* its publishers contend for one lock.
OneRootPerFile == \A f \in Files : \A d, e \in RootsOf[f] : d = e

\* Whatever a publish overwrote, and whatever it published, is in the object
\* store: no interleaving, fault or crash loses a version, not even where two
\* publishers reach one file under different locks, and not even one that
\* somebody wrote without Phase while the objects were made.  Only what is
\* written there between the last look and the replace escapes the code, and
\* the history leaves that out.
NoLostVersion ==
    /\ \A v \in overwritten : Exact(v)
    /\ \A r \in swapped : Exact(plan[r].old) /\ Exact(plan[r].new)

\* No reader ever finds part of a version, under an object locator or in a
\* current file; whatever occupied a locator before is still there.
NoTornBytes ==
    /\ \A f \in Files : current[f] # Torn
    /\ \A v \in Versions : objects[v] = "other" <=> v \in foreign

\* What an effect receipt says happened did happen: applied_verified has both
\* objects behind it; failed_no_effect, the rejection of a precondition and a
\* replaced file never go together; failed_partial never hides a replace
\* that nobody interfered with.
ReceiptTruth ==
    \A r \in Runs :
        LET result == receipt[r]
            alone == OneRootPerFile /\ Untouched(Target(r))
            nothing == created[r] = {} /\ r \notin swapped
        IN
        /\ result.status = "applied_verified"
              => Exact(plan[r].old) /\ Exact(plan[r].new)
        /\ result.status = "failed_no_effect" => nothing
        /\ result.code = "preconditions" => nothing
        /\ result.status = "failed_partial" /\ alone => r \notin swapped
        /\ result.status = "rejected" => r \notin swapped

\* Publishers that share an objects root never make each other fail: in a file
\* that only Phase writes, under one root, no run ends with a conflict that
\* another run caused after its own preconditions held.
SharingIsHarmless ==
    \A r \in Runs :
        OneRootPerFile /\ Untouched(Target(r)) /\ OwnLocators(r)
            => receipt[r].code \notin
                  {"object_conflict", "changed_during_capture",
                   "current_verification_failed", "result_mismatch"}

\* Mutant of Classify: it forgets a run that died between the two objects.
ClassifyBothObjects(p) ==
    LET now == current[p.file]
        exact == {v \in {p.old, p.new} : objects[v] = "exact"}
    IN
    CASE now = p.old /\ exact = {} -> "no_effect_observed"
      [] now = p.old /\ exact = {p.old, p.new} -> "archived_not_published"
      [] now = p.new /\ now # p.old /\ exact = {p.old, p.new}
           -> "published_not_finalized"
      [] OTHER -> "blocked"

\* _classify, which inspection and a same-key retry apply to a prior run.
Classify(p) ==
    LET now == current[p.file]
        settled(v) == objects[v] \in {"absent", "exact"}
    IN
    CASE now = p.old /\ objects[p.old] = "absent" /\ objects[p.new] = "absent"
           -> "no_effect_observed"
      [] /\ now = p.old /\ settled(p.old) /\ settled(p.new)
         /\ "exact" \in {objects[p.old], objects[p.new]}
           -> "archived_not_published"
      [] /\ now = p.new /\ now # p.old
         /\ objects[p.old] = "exact" /\ objects[p.new] = "exact"
           -> "published_not_finalized"
      [] OTHER -> "blocked"

\* A run that changed anything leaves a state that inspection can classify,
\* at every step and after every crash or failure, as long as no other
\* request has moved the file to a third version.
Recoverable ==
    \A r \in Runs :
        /\ created[r] # {} \/ r \in swapped
        /\ Untouched(Target(r)) /\ OwnLocators(r)
        /\ current[Target(r)] \in {plan[r].old, plan[r].new}
        => Classify(plan[r]) # "blocked"

\* A rejected run is one that no mutation mechanism was invoked for, so it has
\* archived nothing.
RejectedMeansNoEffect ==
    \A r \in Runs : receipt[r].status = "rejected"
                       => created[r] = {} /\ r \notin swapped

\* Every invocation ends: it waits for the lock of its root only, and every
\* holder releases it, by finishing or by dying.
EveryRunEnds == \A r \in Runs : <>(pc[r] \in {"done", "crashed"})

\* The abstract store of VersionStore that the runs implement together.
Store == INSTANCE VersionStore WITH
            request <- plan,
            published <- swapped,
            Requests <- Plans,
            stored <- {v \in Versions : objects[v] = "exact"},
            edited <- {f \in Files : edits[f] > 0},
            Contents <- Versions \cup {Link}

\* Steps, faults, crashes and all, runs of the mechanism are a sequence of
\* archivings and compare-and-swap publications, at most one for each run.
ImplementsVersionStore == Store!Spec
=============================================================================
