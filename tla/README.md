# TLA+ models of phase-tool

phase-tool (`src/src/phase_tool/`) turns a *candidate* request into a checked,
evidenced change of files under declared roots.  A run resolves a contract,
freezes its inputs, validates them, writes a durable *intent*, lets one broker
apply the planned effects through a mechanism, verifies the result and writes a
*receipt*.  Runs are separate processes.  They share nothing but the file
system: target roots, an evidence root (`.phase/runs/<run-id>/…`) and the lock
files and lock directories in both.  Any of them may die at any step.

The models ask what this leaves open for a test suite that starts one process
at a time: interleavings of runs, faults and crashes between two steps, retries
that judge a target other runs have changed, and writers outside Phase.

## 1. Inventory

| Component | State it keeps | Operations | Correct when |
|---|---|---|---|
| `core.py` PhaseCore | none in memory between runs; intents and receipts in the evidence root | `run` (plan or execute), idempotency check, receipts | a key binds one request, a success is final, receipts are true, a dead run can be retried |
| `mutation/broker.py` | effect receipts of one plan | `execute`: lock, `before_effect`, dispatch, stop at the first failure | intent before effect, effects in order, one lock holder |
| `mutation/target_authority.py` | open directory handles, flock on a root | lock, observe, create, link, replace, unlink, sync | mutual exclusion per root; no partial file under a final name |
| `mutation/object_store_publish.py` | current file, object store | publish a version (v2) | no version lost, no torn bytes, receipt tells the effect |
| `contracts/publish_new_version_v2.py` | none | preconditions, classification, post-validation | every state a run can leave is classified |
| `mutation/archive_then_publish.py`, `contracts/publish_new_version_v1.py` | current file, archive | publish in place (v1) | the archive is complete before the file is truncated |
| `mutation/exclusive_create.py` | one file | create | never replaces; status matches what is there |
| `mutation/content_addressed_copy.py` | objects | copy, adopt equal content | an object has the content of its name, or the receipt says otherwise |
| `mutation/expected_head_append.py`, `append_codec.py` | a JSON-lines stream | append at an expected head | one successor per head; a stream only grows |
| `contracts/task_journal_v1.py` | a stream per task | open, event, close, correction | what is appended can be replayed; a key appends once |
| `contracts/source_admission_v1.py` | blobs and descriptors | admit: blob, then descriptor | one descriptor for a logical id, never without its blob |
| `contracts/knowledge_admission_v1.py` | blobs and descriptors | admit against verified sources, reuse | a result is admitted once, on verified grounds; a reused one was verified |
| `evidence/`, `inspection/` | run directories | write once, read back, classify | what was finalised can be inspected |
| `validation/`, `planning/`, `freeze/`, `candidate/`, `canonical.py`, `paths.py`, `registry/` | none, or snapshots | pure checks and digests | deterministic |
| `application.py`, `cli/`, `mcp_server.py`, `integrations/` | none | facades | no behaviour of their own |

How they interact: `PhaseCore.run` holds the *idempotency lock* of its key and
scope (a lock file under the evidence root) from the check to the receipt.  The
broker holds the *root lock* (`TargetRootLock`, a flock on the directory of the
target root) around `before_effect` and the mechanism; post-operation validation
runs after it is released.  Inspection and the idempotency check read evidence
of other runs, finished or not, without any lock of theirs.

What is hard: two locks with different lifetimes; two root locks when one
directory is bound through two roots; an object store that publishers of
different roots share without a common lock; evidence files that are filled in
place; a retry that must find out from the target alone what a dead run did.
`PROJECT.json` lists these places, each at its line, as *hazards*.

## 2. Modules

| Module | What it is |
|---|---|
| `VersionStore` | abstract: what publishing promises, without steps |
| `ObjectStorePublish` | the v2 publish mechanism, step by step, under broker and root lock |
| `MCObjectStorePublish` | its instances for TLC |
| `ObjectStorePublishProofs` | its safety theorems, with the refinement |
| `ObjectStoreReceiptProofs` | its theorems on receipts, sharing and recovery |
| `PhaseCore` | the lifecycle of runs: keys, evidence, retries, receipts |
| `MCPhaseCore` | its instances for TLC |
| `PhaseCoreProofs` | its theorems and their proofs |
| `SourceCatalogue` | abstract: what admitting a source promises, without steps |
| `SourceAdmission` | two ordered effects: the content-addressed blob, then its descriptor |
| `MCSourceAdmission` | its instances for TLC |
| `SourceAdmissionProofs` | its theorems and their proofs |
| `KnowledgeBase` | abstract: what admitting knowledge promises, without steps |
| `KnowledgeAdmission` | keys, verified sources and reuse before the two effects of `SourceAdmission`, which it instantiates |
| `MCKnowledgeAdmission` | its instances for TLC |
| `KnowledgeAdmissionProofs` | its theorems and their proofs |
| `TaskLog` | abstract: an append-only log with the life cycle of a task |
| `TaskJournal` | the append at an expected head, with key, plan and contract |
| `MCTaskJournal` | its instances for TLC |
| `TaskJournalProofs` | its theorems and their proofs |
| `VersionArchive` | abstract: files that are taken apart only once archived |
| `ArchiveThenPublish` | the v1 publish: archive, then rewrite in place |
| `MCArchiveThenPublish` | its instances for TLC |
| `ArchiveThenPublishProofs` | its theorems and their proofs |

What composes what: `ObjectStorePublish` and `PhaseCore` both implement
`VersionStore`, one from below (the mechanism's system calls), one from above (the
lifecycle, over a mechanism at the grain of `VersionStore`).  `KnowledgeAdmission`
contains `SourceAdmission` as an instance and adds what comes before and around
its effects.  The other mechanisms carry the part of the Core they need with
them: `_executed_receipt` as `TerminalStatus`, the except clauses of
`_run_after_idempotency_binding` as `Raise` and `FinalizationFails`.

### ObjectStorePublish

One action per system call or observation that another process can tell apart.
`current[f]` and `objects[v]` are the files; a version stands for bytes and
their digest, `Torn` for a part of a version, `Link` for a symlink or any other
node that `observe` refuses.  `objects[v]` is `exact` when the locator of `v`
holds the bytes of `v`.  `lock[d]` is the flock on root `d`; `RootsOf[f]` says
through which roots a file is reached.

| Action | Code (`object_store_publish.py` unless named) |
|---|---|
| `Validate`, `BeforeEffect` | `validate_preconditions`, before the intent and again under the lock |
| `AcquireLock`, `Release` | `TargetRootLock` |
| `Observe` | the three observations, as one step; already complete, or mismatch |
| `Capture` | the bytes that will be archived |
| `EnsureObject`, `FillObject`, `LinkObject`, `SyncObject` | `_ensure_object`, once for the old and once for the new version |
| `StageCurrent`, `FillCurrent`, `Revalidate`, `Replace`, `Verify` | temporary file, last look, `os.replace`, read-back |
| `FailPartial`, `FailObject`, `AfterReplaceError`, `Unreported` | the except clauses and the errors no clause catches |
| `Crash` | death of the process: the kernel frees the lock, files stay |
| `OutsideEdit`, `OutsideObject` | programs that write without Phase (bounded by `MaxEdits`, `MaxForeign`) |

`created`, `swapped`, `overwritten`, `surprised`, `edits` and `foreign` are
history: no guard of a run reads them.  A step that can fail may fail in any way
its except clause distinguishes; `Unreported` is every OSError that reaches no
receipt, be it of a lock, of an observation, of an observation made for the receipt
of a failure, or of the `unlink` in the last `finally`.  The three observations of
`Observe` are one step because the objects are looked at again where they matter
(`EnsureObject`, `LinkObject`) and the file before the replace (`Revalidate`).
`surprised` holds the runs whose file was written without Phase after their last
look at it: what such a run overwrites the code cannot know of, and `NoLostVersion`
says nothing of it.  An edit before the last look is in `NoLostVersion`, and its
mutant is a last look that is skipped.  Byte counts, verification references, messages and timestamps
of receipts are left out; of a receipt the status and the error code remain.

### PhaseCore

The mechanism shrinks to the grain of `VersionStore` (`Examine`, `Archive`,
`Swap`, `Verify`) and everything around it is told in full: the key lock, the
scan over prior runs one by one (`seen`), the torn and complete states of
`intent.json` and `receipt.json`, the effect status, the terminal status, and a
crash between any two of them.  One current file and one evidence root; a
request is a key, the version it expects, the one it publishes and whether it is
executed or only planned.  A crash forgets `seen`, `effect` and `outcome`, which
are memory, and keeps `intent` and `receipt`, which are files.

`Judge` and `Prior` are the returns and raises of `_check_idempotency`, in
their order.  `Resumable` is what that check asks of `inspect_run`:
the target is classified by the contract's hook, a rejection after the intent
has no `validator-results.json` and cannot be inspected, and a
`committed_unverified` receipt names a result that has to be there still.
Attachments are part of the step that writes the file after them; an OSError
there leaves the same evidence as a crash and is one.

Not in this module: writers outside Phase (so the PhaseError paths that only
they open are absent here and are in `ObjectStorePublish`), several evidence
roots, contracts without a key, contracts whose hook has no classification.

### SourceAdmission

The broker over an ordered plan, with both mechanisms it uses.  `files[c]` is
the blob of a content and `files[q]` the descriptor of a result; a result is a
logical id, a content and the metadata that its hash covers.  Both mechanisms
create their file exclusively and fill it *in place*, so a file is `unfinished`
for everybody until it is `exact`, and stays so if its run fails or dies.

| Action | Code |
|---|---|
| `ReadBlob`, `Validate` | `validate_preconditions` before the plan: the blob first, then the descriptors, without a lock |
| `TakeLock` | `TargetRootLock`, taken by the copy for the content and by the broker for the logical id |
| `BeforeEffect` | the hook's second `validate_preconditions`, under the lock, before the descriptor only |
| `Open`, `Fill`, `ReadBack` | `content_addressed_copy.py` for effect 0, `exclusive_create.py` for effect 1 |
| `Progress` | the broker goes on after a verified effect, else it stops |
| `PostOperation` | `run_post_validator`, then `_executed_receipt` |
| `ContentUnbound`, `Raise`, `OpenFails`, `FillFails`, `ReadBackFails`, `FinalizationFails` | the except clauses of broker, mechanisms and Core |
| `Crash` | death of the process |

`TerminalStatus` is `_executed_receipt` over the receipts of a plan of two
effects.  Only a receipt's status and what was observed after it are kept.
`LockOf` says which scopes share a lock: on POSIX all scopes of a root do (the
flock is on the root directory), on Windows each has a mutex of its own.
`admission_race` runs the weaker exclusion, the proofs cover both.  `created` is
history.

Not in this module: operation keys and reuse, which are told in `PhaseCore` and
`KnowledgeAdmission` (here every run has a key of its own), and programs that
write below the root without Phase; without them `applied_unverified` cannot occur.

### KnowledgeAdmission

A request is an operation key and a result; a result is a logical id, a content,
its sources and the result it supersedes (all hashed into its name, so results
form no cycles).  Sources are atoms: `sound` is the set of those whose descriptor,
blob and receipt pass `verify_result_reference` and `inspect_run` at the moment,
and an outside writer may `Spoil` one at any time.

| Action | Code (`knowledge_admission_v1.py` unless named) |
|---|---|
| `CheckIdempotency` | the key lock and `_check_idempotency` of `core.py`: intents of the same key and result; without a hook for a missing receipt, only a verified prior is an answer |
| `ValidateCandidate` | `validate_candidate`: the scan for other requests of the key, every source, the superseded result |
| `ReadBlob`, `Validate` | `run_validator`: blob, then descriptors; before the intent and once more after it |
| `FindReusable` | `find_reusable_result`; without a result the plan and the intent become durable |
| `BeforeEffect` | the hook's verification of sources and placement under the lock of the logical id, before the descriptor only |
| `Execute`, `PostOperation`, `ExecutionFails` | broker, mechanisms and faults of `SourceAdmission`, by instance |
| `PreliminaryFails` | a PhaseError or an OSError before the broker |

`SameLock` says what the key lock covers: key *and* result locator.  Runs under one
lock ask for the same request here; that a scope is also refused to another request
digest (`core.py:154`), one more rejection, is left out.  `ValidateCandidate` is one
step although the code reads intents, sources and receipt one after the other.  `Inspected`
is `inspect_result`: descriptor and blob are in place, the run that created them
has a verified receipt, its sources still verify.  `grounded` is history: the
results about to be created, whose sources have just verified under the lock and
whose superseded result had its verified receipt, which `validate_candidate` looks at
once, before the plan, and nobody takes back.

### TaskJournal

The stream of one task.  `journal` holds its complete records, `torn` says that a
part of another follows.  A head token is the digest of the whole stream; it is
modelled as the sequence of bodies it digests, because in a legal stream number
and chain of a record follow from its place.  `home` is the evidence root of a
run: runs of different roots share stream and root lock, but neither keys nor
receipts.

| Action | Code (`expected_head_append.py` unless named) |
|---|---|
| `Submit` | a client that asks for an append to a head the stream has, or has had |
| `CheckIdempotency` | key lock and `_check_idempotency`, for a contract without a hook |
| `Validate` | `validate_state` of `task_journal_v1.py`: replay, head, life cycle, target of a correction |
| `Plan` | `build_record` on a stream that is read again (`append_existing_bytes`) and not compared with the head |
| `TakeLock`, `Observe` | root lock, lock file of the mechanism, head under the lock |
| `Open`, `Write`, `Fill` | creation if it is to be created, first bytes, last bytes |
| `ReadBack`, `PostOperation` | sync and read-back; then `result_digest_v1` without a lock |
| `Raise`, `CooperativeFails`, `WriteFails`, `FillFails`, `ReadBackFails`, `FinalizationFails`, `Crash` | the except clauses, in the order of the code, and death |

`Replayable` is the replay of `_validate_record_replay`; `Token`, `HeadAfter` and
`Recorded` are the codec and the chain.  The refinement shows the stream as
`TaskLog`, which is sealed once an append failed in the middle or left an empty
file.

### ArchiveThenPublish

Files of one root and its archive, which is filled in place; `Torn` is a file cut
off and not rewritten to the end.  `LockOf` is as in `SourceAdmission`: with a lock
for each file, runs on two files meet at the archive of a version both held.

| Action | Code (`archive_then_publish.py` unless named) |
|---|---|
| `Validate`, `BeforeEffect` | `validate_preconditions` of `publish_new_version_v1.py`, before the intent and under the lock; both are `_classify_states` |
| `Plan` | `build_effects`, which reads the length of the old version again |
| `Observe` | the first two observations: complete, mismatch, or to be done |
| `CreateArchive`, `FillArchive`, `VerifyArchive`, `Conclude` | `_create_archive` and the status from what is there when it fails |
| `Pin`, `Truncate`, `Rewrite`, `ReadBack` | the descriptors, `_publish_current`, the read-back |
| `Raise`, `ArchiveFails`, `RewriteFails`, `FinalizationFails`, `Crash` | the except clauses and death |

`held`, `created` and `rewrote` are history.  `Classify` is also what inspection
makes of a run that died; retries by key are those of `PhaseCore`, whose
`Classify` is the same function over the v2 store.

## 3. Runs

| Run | Instance | Shows |
|---|---|---|
| `publish_shared` | 2 runs, 2 files under a root each, one object store, fair | `ImplementsVersionStore`, `SharingIsHarmless`, `ReceiptTruth`, `EveryRunEnds` |
| `publish_disturbed` | 2 runs, 1 file under 2 root locks, an outside edit, a foreign object | `NoLostVersion`, `NoTornBytes`, `ReceiptTruth`, `Recoverable` |
| `publish_rejected` | one outside edit | violated: `RejectedMeansNoEffect` |
| `core_retries` | 3 runs, 2 keys, 2 versions, plans and executions | `KeyBindsOneRequest`, `SuccessIsFinal`, `ReceiptsAreTrue`, `CrashIsRetryable`, `ImplementsVersionStore` |
| `core_crossing` | 2 executions, 3 versions, any object store, fair | `SuccessWasSeen`, `CrashIsRetryable`, `EveryRunEnds` |
| `core_reapplied` | as `core_retries` | violated: `RetryAppliesOnce` |
| `core_torn_intent` | as `core_retries` | violated: `UnrelatedRunsProceed` |
| `admission_race` | 2 runs, 4 results over 2 logical ids and 2 contents, any blobs at the start, 2 failures, fair | `CatalogueConsistent`, `ReceiptsAreTrue`, `ImplementsCatalogue`, `EveryRunEnds`, `OneIsAdmitted` |
| `knowledge_races` | 2 runs, 4 requests under 2 keys, 2 sources, 2 failures or spoilt sources, fair | `ReceiptsAreTrue`, `ImplementsKnowledgeBase`, `EveryRunEnds` |
| `knowledge_keys` | the same requests, no failure | violated: `KeyBindsOneRequest` |
| `journal_races` | 2 runs under 1 or 2 evidence roots, 5 bodies, a task that is new, open or closed, 2 failures, fair | `JournalIsSound`, `ReceiptsAreTrue`, `AppendsOnce`, `ImplementsTaskLog`, `EveryRunEnds`, `HeadMovesOn` |
| `archive_races` | 2 runs, 2 files, 2 versions, any archives at the start, 2 failures, fair | `NoLostVersion`, `ReceiptsAreTrue`, `ImplementsVersionArchive`, `EveryRunEnds` |

Each passing run but `publish_disturbed` and `core_crossing` also checks `TypeOK`.

Bounds.  Two publishers are enough for a race on the mechanism, because a run
meets others only through the current file, the objects and the locks, and a
third would repeat what the second can do; crashes make their number no smaller.
Three runs are needed for retries: one that dies, one of another key that moves
the file back, one that retries.  Two versions give both directions; the third
version in `core_crossing` is what makes a precondition fail after the intent.
One outside edit is enough for each observation to differ from the one before.
In `admission_race` the two runs may ask for the same result, for two contents
or two descriptions under one logical id, or for one content under two logical
ids, and blobs of earlier runs are there, missing or torn; two failures let one
run fail in both effects, or let both runs fail.

In `knowledge_races` one result is asked for under two keys, one key asks for two
results, a rival shares logical id and bytes with another provenance, and a
result supersedes the first; as the same run cannot be retried, the second run
is the retry of the first.  In `journal_races` heads are any the stream has had,
two requests share a key, one correction names a record that only another run
can add, and two failures allow a torn record and a failure of the run that
finds it.  In `archive_races` the requests go both ways between two versions,
publish a version onto itself, and name a second file with the same old version.
The three have about 233,000, 187,000 and 227,000 distinct states.

Symmetry over runs, keys and versions is used in the runs of `core_retries`
only, where no liveness is checked; `NoRun` is not part of it.

Fairness is weak fairness of each run's progress.  A run is sequential code
whose only waits are two flocks; it needs no fairness stronger than that the
operating system runs the process, since an invocation takes each lock once.
Crashes, faults, outside writers and the
clients of `TaskJournal` (`Submit`) are never forced.  Each model ends when its
invocations have ended, which is why deadlock is not checked.

The four violations are disagreements between a document and the code; each is
told, with the quoted line, under *findings* in `PROJECT.json`:
a rejected run may have archived versions; a retry may publish twice when the
file was moved back; an unrelated torn intent stops every run of the evidence
root; two requests of one key that race both create their result.

Read while modelling, and not made a property because no document decides it:
`validate_preconditions` accepts a current file that already has the new bytes
when only the old object exists, a state the mechanism then refuses as
`publish.current_mismatch` and `_classify` calls `blocked` (this is why
`CrashIsRetryable` asks for a publication behind the new version); a result that
is already complete is reported as attempted and applied;
`failed_partial` is also reported when only temporary files were written.

Other differences between a document and the code that came up while modelling.
The models do what the code does, and each property says only what the code can
hold; none of these has a run of its own.

Publish v2: an object whose directory entry was never synced, because its run
died, is accepted as it is (`object_store_publish.py:115`), although the plan
promises file and directory synced (PLATFORM-GUARANTEE-MATRIX.md:96).

Admission: validation reads the blob without its lock, so a run is rejected
because another is just storing the same content (`source_admission_v1.py:227`;
STAGE-6-SOURCE-ADMISSION-SPEC-CANDIDATE.md:131), in both admissions.  An error
whose observation afterwards fails too is `failed_no_effect`
(`exclusive_create.py:165-173`), where TERMINAL-STATUS-MODEL.md:62 says that a
missing observation never proves no effect; `ReceiptsAreTrue` therefore reads
`failed_no_effect` as a claim only if every observation was made.  A descriptor
conflict over a blob that existed before is `failed_partial` (`core.py:498`),
where STAGE-6-SOURCE-ADMISSION-SPEC-CANDIDATE.md:147 and
ADMISSION-MULTI-EFFECT-SPEC-CANDIDATE.md:95 have `failed_no_effect`; so
`failed_partial` is only read as "a part of the result is there".  An
indeterminate descriptor over a blob that is in place is `failed_partial`, too.

Knowledge: a result whose run died after its descriptor and before its receipt is
neither reused nor admitted again under any key, as `find_reusable_result` asks
for a verified receipt and placement for an absent descriptor; a
`committed_unverified` that comes from a failed finalization is returned to the
caller but is not what the receipt on disk says.  Source admission itself has no
scan for other requests of its key.

Appends: a failed sync after a full record is `failed_partial`
(`expected_head_append.py:303`), where EFFECT-MECHANISM-SPEC.md:130 has
`committed_unverified`.  A contract without a hook refuses the retry of a run that
left no verified receipt for ever (`core.py:169`; compare
IDEMPOTENCY-PROTOCOL.md:69), which is what makes `AppendsOnce` hold.  A torn
record seals its stream and makes the earlier, verified records uninspectable; a
run that died between creating the stream and its first byte leaves an empty
file that validation takes for an absent one and the mechanism never accepts.
An append that another one follows before its post-operation check is
`committed_unverified`; `ReceiptsAreTrue` says that this is true, too, but would not
notice a run that ignored the check and said `succeeded_verified`, since its record is
in the stream all the same.  For publications `SuccessWasSeen` would notice it.

Publish v1: a PhaseError while the archive is concluded or the descriptors are
pinned ends as `rejected` although an archive was created; `failed_no_effect`
may leave a complete archive; a torn archive, or a torn file, blocks all later
publications of it.  Without writers outside Phase the `publish.current_mismatch`
arm of `Observe` and the second arm of `Pin` cannot be reached.

## 4. Proofs

Each component's module has a proof module.  What they share: an inductive
invariant that adds, run by run, what a run knows at its step; a lemma (`Frame`,
`Beside`, `OthersKept`) that a step of one run keeps the part of every other; a
lemma for each action, or group of actions, about its own run; and the
refinement, in which every step maps to an abstract step or a stutter.

A theorem either states a property of a run, or one that no run checks, stated in
the proof module beside it.  Of the second kind each component has, besides those
told below:

- `...NoCircularWait`: a held lock belongs to a run at work (`HolderLives`), and
  while a run has not ended, some run is `Ready`: no lock that its next step takes
  is held by another (in `TaskJournal` a key is not a variable but a condition);
- `...RunsOut`: an action property; each step of a run lowers `Remaining`, a
  bound on the steps it has left, and no step of anybody else changes that;
- an action property that says what is final when a run has ended (`...EndIsFinal`,
  in `PhaseCore` part of `EvidenceStays`).

The first two are the part of `EveryRunEnds` that needs no fairness.  From them
liveness follows if a `Ready` run can take a step, which is read off the guards
(`ENABLED` cannot be proved here), and if it takes it, which is the fairness; TLC
checks the conclusion.  They say more than `EveryRunEnds` on an instance, namely
how long a run can take: 11 steps for an entry of a journal, 13 for a publication
in place, 15 for a source, 18 for a publication (v2) and 20 for knowledge,
whatever the other runs and writers outside Phase do; in the lifecycle 12, and one
for each run the scan reads and for each version archived.

### Publish v2

`ObjectStorePublishProofs` proves, for every number of runs, files, roots and
versions and with every fault, crash and outside writer:

- `TypeCorrect`: `Spec => []TypeOK`;
- `VersionsNeverLost`: `Spec => []NoLostVersion`;
- `NothingTorn`: `Spec => []NoTornBytes`;
- `PublishImplementsVersionStore`: if every file is reached through one root
  (`OneRootPerFile`), `Spec => ImplementsVersionStore`.

Assumed is only what `ObjectStorePublish` states about its constants: the
special values are not versions, every root set is a set of roots, the two
bounds are naturals.

Neither safety invariant is inductive as it stands: that a replace keeps the
replaced version depends on what the run did many steps earlier.  The inductive
invariant `Inv` adds, for each run, `HoldsLock` (the lock of its root between
acquiring and leaving), `TempsFull` (a temporary file that is about to be linked
or renamed is complete), `Archived` (which of its two objects exist at which
step), `ReplaceSafe` (about to replace, the file holds an archived version unless
somebody wrote it since the last look; under one root, the expected version unless
somebody wrote it without Phase) and `NotYet` (a run replaces once).
Each action is one lemma, with one step for each conjunct it can disturb.  The
lemmas show that objects once exact stay exact and that other runs' steps do not
touch a run's own part; `ReplaceSafe` is the one that needs the lock.  The
refinement maps every step to `Archive`, `Publish`, `Edit` or a stutter.

`ObjectStoreReceiptProofs` rests on `Inv` and proves three more invariants of
the same specification:

- `PublishReceiptsTrue`: `Spec => []ReceiptTruth`;
- `PublishersAreHarmless`: `Spec => []SharingIsHarmless`;
- `WhatIsLeftIsRecoverable`: `Spec => []Recoverable`.

They need to know more: `StaysPut` (under one root, and unless somebody wrote it
without Phase, the file still holds the old version between observation and
replacement), `Makes` (no object of the run before the objects are made, the old
one first), `MovedOn` (also under two locks: what a run has captured was
replaced by archived versions only) and `Honest` (the receipt tells that).  The
locks matter to `StaysPut` alone; `MovedOn` is why `Recoverable` holds even
where a file is reached under two locks.

No run checks the three that say who answers for what is left on the disk:

- `PublishedObjectsSynced`: when a run has replaced the current file, every object
  that it linked itself is synced;
- `PublishUnsyncedKnown`: an object that is whole and was never synced has a run
  about to sync it, one that died, or one that ended without a success:
  `failed_partial`, `rejected`, or no receipt.  This bounds the hazard at `object_store_publish.py:115`, where the
  next run accepts such an object as it is;
- `PublishDebrisKnown`: a leftover temporary file likewise; after a success there is
  none.

Their invariant `Durable` adds `Syncs` (only the object that is about to be synced
may be unsynced among those of a run) to `Inv`.

### Lifecycle

`PhaseCoreProofs` proves, for every set of runs, keys, versions and requests,
every failure and every crash:

- `TypeCorrect`, `KeysBindOneRequest`, `ReceiptsTrue`, `CrashesAreRetryable`:
  `Spec => []Inv` of `TypeOK`, `KeyBindsOneRequest`, `ReceiptsAreTrue`,
  `CrashIsRetryable`;
- `SuccessesAreFinal`, `VerifiedSuccessWasSeen`: `Spec => SuccessIsFinal` and
  `Spec => SuccessWasSeen`, action properties;
- `CoreImplementsVersionStore`: `Spec => ImplementsVersionStore`.

Assumed is `CoreConstants`: the form of requests, and that `NoRun` is not a run.

Its inductive invariant adds, for each run, `HoldsLocks` (the key lock from scan
to receipt, the target lock in the broker), `Written` (how far its evidence has
grown), `Done` (what it did to the target so far; between examination and swap
the file still has the expected version), `Truthful` (effect and outcome tell
that), `ScanHolds` (what the scan has passed is compatible with the request, and
no success for an execution) and `Expected` (past validation, the expected
version is in the file or in the store), and for all of them that a published
file is archived.  `ScanHolds` is the one that carries keys: it speaks of the
evidence of *other* runs, and survives their steps only because a run that
writes evidence holds the lock of its key, so not of this one.  A step of one
run keeps the part of every other run by one lemma (`OthersKeep`, from `Frame`,
which says what a step leaves alone) and its own part by one lemma for each
action.

Three more are checked by no run:

- `CoreSucceedsOnce`: at most one run of a key, in all the evidence, has a verified
  success.  It is the part that holds of what `core_reapplied` refutes: a retry may
  publish again, but not after a success, and two never both succeed.  The scan
  only looks for successes before the effect; `Unrivalled` carries what it has
  found to the receipt, under the lock of the key;
- `CoreIntentComesFirst`: what was archived or published has an executing run with a
  whole intent on disk;
- `CoreEvidenceStays`: whole intents and the status of receipts stay as they are, so
  a whole file of another run, read without a lock, is never out of date.

### Admissions

`SourceAdmissionProofs` proves, for every set of runs, logical ids, contents and
results, every assignment of locks to scopes and any number of failures:

- `AdmissionTypeCorrect`, `CatalogueStaysConsistent`, `AdmissionReceiptsTrue`:
  `Spec => []Inv` of `TypeOK`, `CatalogueConsistent`, `ReceiptsAreTrue`;
- `AdmissionImplementsCatalogue`: `Spec => ImplementsCatalogue`.

Assumed is `AdmissionConstants`: results are made of ids and contents, blobs and
descriptors have different names, each scope has a lock.  The inductive
invariant `IInv` adds, for each run, `Ordered` (how many receipts there can be
at which step, and that a second effect follows a verified first one),
`HoldsLock`, `InHand` (the file being written is the run's own, and a run about
to create a descriptor has no rival), `EffectsTrue` (each effect receipt tells
what is there) and `Truthful` (the Phase receipt does).  `InHand` is the one
that needs the lock of the logical id: nobody else creates a descriptor for it
between the second validation and the creation.  `Finished` and `Decided` say
once what ending an effect and deciding a run does, and the lemmas for single
steps rest on them.

Two more say who made what: `AdmissionOneMaker` (a descriptor on disk was created by
a run that was asked for it, and no two runs claim one file) and
`AdmissionOneWinner` (at most one run is told that its result for a logical id is in
place, even if both asked for the same result).

`KnowledgeAdmissionProofs` proves, for every set of runs, requests, logical ids,
contents, sources and results, every assignment of locks to scopes and any
number of failures and spoilt sources:

- `KnowledgeTypeCorrect`, `KnowledgeReceiptsTrue`: `Spec => []Inv` of `TypeOK`,
  `ReceiptsAreTrue`;
- `KnowledgeImplementsBase`: `Spec => ImplementsKnowledgeBase`.

Assumed is `KnowledgeConstants`.  A run has two parts, `Prelude`, which only reads,
and `Executes`, and each step is of one of them.  Beyond the conjuncts of
`SourceAdmission`'s invariant there are `Made` (what a run has created is its own
and nobody else's, so a result has one run that can vouch for it), `Founded`
(past the validation of its candidate the superseded result has a verified
receipt, and as verified receipts are final nothing has to be verified again) and
`Reused` (an answer without an effect names another run's verified result).
Nothing is assumed of `sound`: that sources verify is needed, and known, only at
the step that grounds a result.

Of the model with its instance of `SourceAdmission` it is also proved that what
comes before the effects spoils nothing they promise: `KnowledgeImplementsCatalogue`
(it implements `SourceCatalogue`, too) and `KnowledgeCatalogueConsistent`.  And, from
two more invariants:

- `KnowledgeEachHasMaker`, `KnowledgeOneWinner`: as for sources;
- `KnowledgeChainUnbroken`: no descriptor, not even one left unfinished, appears
  before its grounds were seen to hold, and the result that it supersedes is there with
  a verified receipt of the run that created it (`Grounds`, from `Founded`);
- `KnowledgeOneIntent`: runs that repeat a request do not overlap, and at most one
  of them, with any crashes between, ever has a durable intent (`Unrivalled`);
- `KnowledgeIntentComesFirst`: before it no lock of an effect, no effect receipt and
  no file.

`KnowledgeOneIntent` and the refuted `KeyBindsOneRequest` of `knowledge_keys` belong
together: the lock and the scan bind the repetitions of a request, not two requests
that are given the same key.

### Task journal

`TaskJournalProofs` proves, for every set of runs, evidence roots, bodies and
earlier streams and any number of failures:

- `JournalTypeCorrect`, `JournalStaysSound`, `JournalReceiptsTrue`,
  `JournalAppendsOnce`: `Spec => []Inv` of `TypeOK`, `JournalIsSound`,
  `ReceiptsAreTrue`, `AppendsOnce`;
- `JournalImplementsTaskLog`: `Spec => ImplementsTaskLog`.

Assumed is `JournalConstants`: earlier streams are legal, special values are
distinct.  The inductive invariant adds `Exclusive` (while a run holds the lock of
its key, no other run of the key has an intent), and for each run `Ordered`,
`Asked`, `Planned`, `InHand`, `Traced` (what it left in the file) and `Truthful`.
The argument that carries `JournalIsSound` is in `NextRecord`: a record may be
planned on another stream than the one its head names, with a number too high
and the wrong life cycle, but streams only grow, so the head no longer matches
under the lock and the record is never written.

`JournalOneSuccessor` says of the root lock what no run checks by itself: two
records are never written on the same head, also by runs of different evidence roots,
which share neither keys nor receipts (`Landed`, `Apart`: a record written is in
place, at an offset of its own).

### Publish v1

`ArchiveThenPublishProofs` proves, for every set of runs, files, versions and
requests, every assignment of locks to files and any number of failures:

- `ArchiveTypeCorrect`, `ArchiveKeepsVersions`, `ArchiveReceiptsTrue`:
  `Spec => []Inv` of `TypeOK`, `NoLostVersion`, `ReceiptsAreTrue`;
- `ArchiveImplementsVersionArchive`: `Spec => ImplementsVersionArchive`.

Assumed is `ArchiveConstants`.  The inductive invariant adds `Held` (what a file
shows is one of the versions it held), `HoldsLock`, `Ordered`, `InHand` (the archive
is exact from its verification on, and the file in hand is what the step expects)
and `Truthful`.  The archive is shared without a common lock; it is enough that an
exact archive stays exact, whichever run made it.

`ArchiveTornIsKnown` is what can be said of the rewrite in place, which does leave
torn files: a torn file is being filled by the run that cut it off, under its lock, or
that run has died, or its receipt says `failed_partial` or `indeterminate`.

### Only model-checked

Liveness under fairness is outside the prover's reach: `EveryRunEnds`,
`OneIsAdmitted` and `HeadMovesOn` are checked by TLC only.  That a `Ready`
run is enabled is not proved either; `EveryRunEnds` would fail if it were not.  Every invariant, action
property and refinement that a passing run checks has a theorem.

## 5. Not modelled

- `freeze/`, `candidate/`, `canonical.py`, `paths.py`: parsing, encoding and
  captures into the run's own directory.  One process reads one file; TLC has no
  interleaving to explore, and what they refuse ends the run before its plan.
- `registry/`, schemas, contracts and fixtures: read-only data.
- `application.py`, `cli/`, `mcp_server.py`, `integrations/`, `scripts/`: facades,
  clients and release checks without state of their own.
- The handles of `target_authority.py` on Windows and its directory pinning: the
  models use what they give, mutual exclusion for a root or for a scope.
- The recovery of missing ordered receipts in `core.py` and the receipts of plans
  that are never executed; the built-in validators of contracts without a module;
  the digest cross-checks of `inspection/`, which hold for evidence Phase wrote.
- Appends of plain records, which use the mechanism of `TaskJournal` without a life
  cycle, and `project_task`, a read of a replayed journal.
- Programs that write below the root without Phase, except for publish v2, where
  they are part of the model, and for the sources of knowledge.
- Power failures: a crash is the death of a process, after which the files are
  what the system calls made them.
