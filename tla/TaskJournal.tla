---------------------------- MODULE TaskJournal ----------------------------
(***************************************************************************)
(* task_journal.v1 on expected_head_append: runs of Phase append records   *)
(* to the stream of one task.  A client names the head it has read; the    *)
(* record is built and validated without a lock, and the mechanism appends *)
(* it in place only if the stream still has that head under the lock of    *)
(* its root.  Runs may keep their evidence under different roots: they     *)
(* share the stream and its lock, but neither keys nor receipts.           *)
(*                                                                         *)
(* A head token is a digest of the whole stream.  In a legal stream number *)
(* and previous head of a record follow from its place, so a token tells   *)
(* the bodies of the records apart and nothing else.  Only runs of Phase   *)
(* write below the bound root; those of other tasks meet these only at the *)
(* root lock, which they give back.  Torn intents and receipts, and runs   *)
(* that only plan, are told in PhaseCore.                                  *)
(***************************************************************************)
EXTENDS Naturals, Sequences

CONSTANTS
    Runs,       \* run ids
    Roots,      \* evidence roots
    Bodies,     \* what a record says: its key, action and target
    Asks,       \* the bodies that may be asked for
    Journals,   \* the streams of earlier runs, as bodies
    NoRun,      \* the holder of a free lock
    NoHead,     \* expected_head null: the stream is to be created
    MaxFaults   \* bound: crashes and I/O errors in a behaviour

VARIABLES
    present,    \* whether the file of the stream exists
    journal,    \* its complete records
    torn,       \* whether a part of another record follows them
    lock,       \* the run that holds the root lock
    pc,         \* the step each run is about to take
    ask,        \* the body each run is to append
    home,       \* the evidence root of each run
    head,       \* the expected head in its request
    sequence,   \* the number in its planned record; its intent is durable if > 0
    offset,     \* append_offset: the records the mechanism found
    effect,     \* the effect receipt of the run
    outcome,    \* the terminal status of its Phase receipt
    faults,     \* crashes and I/O errors so far
    wrote       \* history: what the run has left in the file

stream  == <<present, journal, torn>>
request == <<ask, home, head>>
memory  == <<sequence, offset, effect, outcome>>
vars    == <<stream, lock, pc, request, memory, faults, wrote>>

Actions == {"open", "event", "close", "correction"}

Ended == {"done", "crashed"}

Steps == {"check", "validate", "plan", "lock", "observe", "open", "write",
          "fill", "readback", "post"}

EffectStatuses == {"applied_verified", "failed_no_effect", "failed_partial",
                   "indeterminate"}

NoEffect == [status |-> "none", known |-> FALSE]

EffectReceipts == [status : EffectStatuses, known : BOOLEAN] \cup {NoEffect}

Outcomes == {"none", "rejected", "reused", "succeeded_verified",
             "committed_unverified", "failed_no_effect", "failed_partial",
             "indeterminate"}

Traces == {"nothing", "file", "part", "record"}

-----------------------------------------------------------------------------
(* What a legal journal is                                                  *)

Heads == Seq(Bodies) \cup {NoHead}

Records == [body : Bodies, sequence : Nat, previous : Heads]

\* stream_head_token.
Token(s) == [i \in DOMAIN s |-> s[i].body]

\* The head that the record after the first n must name.
HeadAfter(bs, n) == IF n = 0 THEN NoHead ELSE SubSeq(bs, 1, n)

\* Mutant of StateOf: only the last record decides.
StateOfLast(bs) ==
    CASE bs = <<>> -> "absent"
      [] bs # <<>> /\ bs[Len(bs)].action = "close" -> "closed"
      [] OTHER -> "open"

StateOf(bs) ==
    CASE bs = <<>> -> "absent"
      [] bs # <<>> /\ \E i \in DOMAIN bs : bs[i].action = "close" -> "closed"
      [] OTHER -> "open"

\* The life cycle, as build_record and validate_state have it.
May(b, bs) ==
    /\ b.action = "open" => bs = <<>>
    /\ b.action \in {"event", "close"} => StateOf(bs) = "open"
    /\ b.action = "correction" => StateOf(bs) # "absent"

\* A correction names a record of its journal by number and hash.
TargetIn(b, bs) ==
    \E i \in DOMAIN bs : b.target = [sequence |-> i, key |-> bs[i].key]

\* The life cycle, number and chain of heads, as the replay checks them.
Replayable(s) ==
    \A i \in DOMAIN s :
        LET before == SubSeq(Token(s), 1, i - 1) IN
        /\ s[i].sequence = i
        /\ s[i].previous = HeadAfter(Token(s), i - 1)
        /\ s[i].body.action = "open" <=> i = 1
        /\ s[i].body.action \in {"event", "close"} => StateOf(before) = "open"

\* The records that a legal sequence of bodies gives.
Recorded(bs) ==
    [i \in DOMAIN bs |-> [body |-> bs[i], sequence |-> i,
                          previous |-> HeadAfter(bs, i - 1)]]

ASSUME JournalConstants ==
    /\ \A b \in Bodies : b.action \in Actions
    /\ Asks \subseteq Bodies
    /\ \A bs \in Journals :
          /\ bs \in Seq(Bodies)
          /\ \A i \in DOMAIN bs :
                LET before == SubSeq(bs, 1, i - 1) IN
                /\ bs[i].action = "open" <=> i = 1
                /\ May(bs[i], before)
                /\ bs[i].action = "correction" => TargetIn(bs[i], before)
    /\ NoHead \notin Seq(Bodies)
    /\ NoRun \notin Runs
    /\ MaxFaults \in Nat

-----------------------------------------------------------------------------

Init ==
    /\ \E bs \in Journals : journal = Recorded(bs)
    /\ present = (journal # <<>>)
    /\ torn = FALSE
    /\ lock = NoRun
    /\ pc = [r \in Runs |-> "start"]
    /\ ask \in [Runs -> Asks]
    /\ home \in [Runs -> Roots]
    /\ head = [r \in Runs |-> NoHead]
    /\ sequence = [r \in Runs |-> 0]
    /\ offset = [r \in Runs |-> 0]
    /\ effect = [r \in Runs |-> NoEffect]
    /\ outcome = [r \in Runs |-> "none"]
    /\ faults = 0
    /\ wrote = [r \in Runs |-> "nothing"]

Go(r, step) == pc' = [pc EXCEPT ![r] = step]

\* The run returns, with this terminal status.
Decide(r, status) ==
    /\ outcome' = [outcome EXCEPT ![r] = status]
    /\ Go(r, "done")

\* Mutant of Release: the root lock is never given back.
ReleaseNothing(r) == UNCHANGED lock

Release(r) == lock' = IF lock = r THEN NoRun ELSE lock

\* The effect has a receipt and the root lock is free.
Finish(r, status, known) ==
    /\ effect' = [effect EXCEPT ![r] = [status |-> status, known |-> known]]
    /\ Release(r)
    /\ Go(r, "post")

\* The record of the plan.
Record(r) == [body |-> ask[r], sequence |-> sequence[r], previous |-> head[r]]

\* The bodies of the stream the run expects.
Base(r) == IF head[r] = NoHead THEN <<>> ELSE head[r]

-----------------------------------------------------------------------------
(* Idempotency                                                              *)

SameKey(q, r) == home[q] = home[r] /\ ask[q].key = ask[r].key

SameRequest(q, r) == ask[q] = ask[r] /\ head[q] = head[r]

\* The intents of the key that are on disk.
Priors(r) == {q \in Runs \ {r} : SameKey(q, r) /\ sequence[q] > 0}

\* inspect_run of a prior that succeeded: its record is still the one that its
\* receipt names, and the whole stream is valid.
Inspected(q) ==
    /\ ~torn
    /\ Len(journal) > offset[q]
    /\ SubSeq(Token(journal), 1, offset[q] + 1) = Append(Base(q), ask[q])

\* Mutant of Judge: a prior without a verified receipt is not held against the
\* retry.
JudgeReceipts(r) ==
    LET verified == {q \in Priors(r) : outcome[q] = "succeeded_verified"} IN
    CASE verified = {} -> "proceed"
      [] \E q \in verified : SameRequest(q, r) /\ Inspected(q) -> "reuse"
      [] OTHER -> "reject"

(***************************************************************************)
(* _check_idempotency for a contract without a hook: nothing classifies a  *)
(* run without a verified success, so its key is refused; a success is     *)
(* reused for the same request if it can be inspected.                     *)
(***************************************************************************)
Judge(r) ==
    CASE Priors(r) = {} -> "proceed"
      [] \E q \in Priors(r) : /\ SameRequest(q, r) /\ Inspected(q)
                               /\ outcome[q] = "succeeded_verified" -> "reuse"
      [] OTHER -> "reject"

-----------------------------------------------------------------------------
(* The steps of one run                                                     *)

\* A client asks for an append to a head that the stream has, or has had.
Submit(r) ==
    /\ pc[r] = "start"
    /\ IF ask[r].action = "open"
         THEN UNCHANGED head
         ELSE /\ present
              /\ \E n \in 0..Len(journal) :
                    head' = [head EXCEPT ![r] = SubSeq(Token(journal), 1, n)]
    /\ Go(r, "check")
    /\ UNCHANGED <<stream, lock, ask, home, memory, faults, wrote>>

\* The run waits for the lock of its key, which it holds until it returns.
CheckIdempotency(r) ==
    /\ pc[r] = "check"
    /\ \A q \in Runs \ {r} :
          SameKey(q, r) => pc[q] \in {"start", "check"} \cup Ended
    /\ CASE Judge(r) = "proceed" -> Go(r, "validate") /\ UNCHANGED outcome
         [] Judge(r) = "reuse" -> Decide(r, "reused")
         [] Judge(r) = "reject" -> Decide(r, "rejected")
    /\ UNCHANGED <<stream, lock, request, sequence, offset, effect, faults, wrote>>

\* validate_state: an empty file passes for an absent one.
Valid(r) ==
    /\ ~torn
    /\ Replayable(journal)
    /\ IF head[r] = NoHead
         THEN journal = <<>>
         ELSE /\ present
              /\ Token(journal) = head[r]
              /\ May(ask[r], Token(journal))
              /\ ask[r].action = "correction" => TargetIn(ask[r], Token(journal))

Validate(r) ==
    /\ pc[r] = "validate"
    /\ IF Valid(r) THEN Go(r, "plan") /\ UNCHANGED outcome
                   ELSE Decide(r, "rejected")
    /\ UNCHANGED <<stream, lock, request, sequence, offset, effect, faults, wrote>>

\* The stream as the plan sees it; it is not read if it is to be created.
Existing(r) == IF head[r] = NoHead THEN <<>> ELSE Token(journal)

\* The record is built on the stream as it is now, which is read once more and
\* not compared with the head; then plan and intent become durable.
Plan(r) ==
    /\ pc[r] = "plan"
    /\ IF /\ head[r] = NoHead \/ (~torn /\ Replayable(journal))
          /\ May(ask[r], Existing(r))
         THEN /\ sequence' = [sequence EXCEPT ![r] = Len(Existing(r)) + 1]
              /\ Go(r, "lock")
              /\ UNCHANGED outcome
         ELSE Decide(r, "rejected") /\ UNCHANGED sequence
    /\ UNCHANGED <<stream, lock, request, offset, effect, faults, wrote>>

\* The lock of the root.  The lock of the mechanism belongs to the evidence
\* root; whoever may take it holds that of the root, so it is always free.
TakeLock(r) ==
    /\ pc[r] = "lock"
    /\ lock = NoRun
    /\ lock' = r
    /\ Go(r, "observe")
    /\ UNCHANGED <<stream, request, memory, faults, wrote>>

\* Mutant of Matches: that there is a stream is enough.
MatchesExistence(r) == ~torn /\ present = (head[r] # NoHead)

\* Mutant of Matches: the head that the last record names, not its own.
MatchesPrevious(r) ==
    /\ ~torn
    /\ IF head[r] = NoHead THEN ~present
                           ELSE present /\ HeadAfter(Token(journal), Len(journal) - 1) = head[r]

\* Mutant of Matches: a torn tail is not looked at.
MatchesTornTail(r) ==
    IF head[r] = NoHead THEN ~present ELSE present /\ Token(journal) = head[r]

\* The observation under the lock: a torn tail has no head, and no head means
\* no file.
Matches(r) ==
    /\ ~torn
    /\ IF head[r] = NoHead THEN ~present
                           ELSE present /\ Token(journal) = head[r]

Observe(r) ==
    /\ pc[r] = "observe"
    /\ IF Matches(r)
         THEN /\ offset' = [offset EXCEPT ![r] = Len(journal)]
              /\ Go(r, "open")
              /\ UNCHANGED <<lock, effect>>
         ELSE Finish(r, "failed_no_effect", ~torn) /\ UNCHANGED offset
    /\ UNCHANGED <<stream, request, sequence, outcome, faults, wrote>>

\* The file is opened, and created if it is to be.
Open(r) ==
    /\ pc[r] = "open"
    /\ present' = TRUE
    /\ wrote' = [wrote EXCEPT ![r] = IF present THEN @ ELSE "file"]
    /\ Go(r, "write")
    /\ UNCHANGED <<journal, torn, lock, request, memory, faults>>

\* The first bytes of the record, in place ...
Write(r) ==
    /\ pc[r] = "write"
    /\ torn' = TRUE
    /\ wrote' = [wrote EXCEPT ![r] = "part"]
    /\ Go(r, "fill")
    /\ UNCHANGED <<present, journal, lock, request, memory, faults>>

\* ... and the last.
Fill(r) ==
    /\ pc[r] = "fill"
    /\ journal' = Append(journal, Record(r))
    /\ torn' = FALSE
    /\ wrote' = [wrote EXCEPT ![r] = "record"]
    /\ Go(r, "readback")
    /\ UNCHANGED <<present, lock, request, memory, faults>>

\* The record is synced and read back; under the lock nobody has changed it.
ReadBack(r) ==
    /\ pc[r] = "readback"
    /\ Finish(r, "applied_verified", TRUE)
    /\ UNCHANGED <<stream, request, sequence, offset, outcome, faults, wrote>>

\* Mutant of TerminalStatus: the status of the effect as it is.
TerminalStatusRaw(status, verified) == status

\* _executed_receipt, for one effect.
TerminalStatus(status, verified) ==
    CASE status = "applied_verified" /\ verified -> "succeeded_verified"
      [] status = "applied_verified" /\ ~verified -> "committed_unverified"
      [] OTHER -> status

\* result_digest_v1, without a lock: the stream still ends with the record.
PostOperation(r) ==
    LET verified == /\ ~torn /\ journal # <<>>
                    /\ journal[Len(journal)] = Record(r)
    IN
    /\ pc[r] = "post"
    /\ Decide(r, TerminalStatus(effect[r].status, verified))
    /\ UNCHANGED <<stream, lock, request, sequence, offset, effect, faults, wrote>>

-----------------------------------------------------------------------------
(* What may go wrong at a step                                              *)

Fault ==
    /\ faults < MaxFaults
    /\ faults' = faults + 1

\* Something cannot be read or locked before there is an effect receipt: a
\* PhaseError is a rejection, an OSError leaves no receipt.
Raise(r) ==
    /\ pc[r] \in {"check", "validate", "plan", "lock", "observe"}
    /\ \/ Decide(r, "rejected")
       \/ Go(r, "crashed") /\ UNCHANGED outcome
    /\ Release(r)
    /\ UNCHANGED <<stream, request, sequence, offset, effect, wrote>>

\* The lock file of the mechanism cannot be opened or locked.
CooperativeFails(r) ==
    /\ pc[r] = "observe"
    /\ \/ ~torn /\ Finish(r, "failed_no_effect", TRUE)
       \/ Finish(r, "indeterminate", FALSE)
    /\ UNCHANGED <<stream, request, sequence, offset, outcome, wrote>>

\* Mutant of StatusUnwritten: only the bytes written are counted.
StatusUnwrittenCount(r, known) == "failed_no_effect"

\* The status of a failed write of which no byte was written: the length after
\* it is compared with the one before, each of which may be null.
StatusUnwritten(r, known) ==
    CASE known /\ wrote[r] = "file" -> "failed_partial"
      [] ~known /\ head[r] # NoHead -> "failed_partial"
      [] OTHER -> "failed_no_effect"

\* The file cannot be opened, or the first write fails.
WriteFails(r) ==
    /\ pc[r] \in {"open", "write"}
    /\ \E known \in BOOLEAN : Finish(r, StatusUnwritten(r, known), known)
    /\ UNCHANGED <<stream, request, sequence, offset, outcome, wrote>>

\* A later write or the sync fails; what is written stays.
FillFails(r) ==
    /\ pc[r] \in {"fill", "readback"}
    /\ \E known \in BOOLEAN : Finish(r, "failed_partial", known)
    /\ UNCHANGED <<stream, request, sequence, offset, outcome, wrote>>

ReadBackFails(r) ==
    /\ pc[r] = "readback"
    /\ Finish(r, "indeterminate", FALSE)
    /\ UNCHANGED <<stream, request, sequence, offset, outcome, wrote>>

\* An attachment or the post-operation validation fails.
FinalizationFails(r) ==
    /\ pc[r] = "post"
    /\ Decide(r, TerminalStatus(effect[r].status, FALSE))
    /\ UNCHANGED <<stream, lock, request, sequence, offset, effect, wrote>>

\* The process dies and its locks are free.
Crash(r) ==
    /\ pc[r] \in Steps
    /\ Go(r, "crashed")
    /\ Release(r)
    /\ UNCHANGED <<stream, request, memory, wrote>>

-----------------------------------------------------------------------------

Step(r) ==
    \/ CheckIdempotency(r) \/ Validate(r) \/ Plan(r) \/ TakeLock(r)
    \/ Observe(r) \/ Open(r) \/ Write(r) \/ Fill(r) \/ ReadBack(r)
    \/ PostOperation(r)

Failure(r) ==
    /\ Fault
    /\ \/ Raise(r) \/ CooperativeFails(r) \/ WriteFails(r) \/ FillFails(r)
       \/ ReadBackFails(r) \/ FinalizationFails(r) \/ Crash(r)

Next == \E r \in Runs : Submit(r) \/ Step(r) \/ Failure(r)

Spec == Init /\ [][Next]_vars

\* A process runs on until it returns, except while it waits for a lock.  No
\* client has to submit anything.
FairSpec == Spec /\ \A r \in Runs : WF_vars(Step(r))

-----------------------------------------------------------------------------
(* Properties                                                               *)

\* Every variable has the values its code can give it.
TypeOK ==
    /\ present \in BOOLEAN
    /\ journal \in Seq(Records)
    /\ torn \in BOOLEAN
    /\ lock \in Runs \cup {NoRun}
    /\ pc \in [Runs -> Steps \cup Ended \cup {"start"}]
    /\ ask \in [Runs -> Asks]
    /\ home \in [Runs -> Roots]
    /\ head \in [Runs -> Heads]
    /\ sequence \in [Runs -> Nat]
    /\ offset \in [Runs -> Nat]
    /\ effect \in [Runs -> EffectReceipts]
    /\ outcome \in [Runs -> Outcomes]
    /\ faults \in 0..MaxFaults
    /\ wrote \in [Runs -> Traces]

\* The stream can always be replayed, with whatever interleaving its records
\* were planned, validated and appended: numbers without a gap, an unbroken
\* chain of heads, one open at the start, no event or close after a close.
JournalIsSound == Replayable(journal) /\ (journal # <<>> => present)

\* The record of a run is where its receipt says, after the head it names.
InPlace(r) ==
    /\ Len(journal) > offset[r]
    /\ journal[offset[r] + 1] = Record(r)
    /\ SubSeq(Token(journal), 1, offset[r]) = Base(r)

(***************************************************************************)
(* A receipt tells what its run did, for ever.  After success, and for     *)
(* reuse, the record is in the stream after the head that was asked for.   *)
(* Committed means that it was appended; rejected, that nothing happened;  *)
(* no effect, if the file could be observed, that nothing did, and else at *)
(* most that a file was created; partial, if it could, that something did; *)
(* and indeterminate, that no part of a record was left.                   *)
(***************************************************************************)
ReceiptsAreTrue ==
    \A r \in Runs :
        /\ outcome[r] \in {"succeeded_verified", "committed_unverified"}
              => wrote[r] = "record" /\ InPlace(r)
        /\ outcome[r] = "reused"
              => LET n == Len(Base(r)) + 1 IN
                 /\ Len(journal) >= n
                 /\ SubSeq(Token(journal), 1, n) = Append(Base(r), ask[r])
        /\ outcome[r] = "rejected" => wrote[r] = "nothing"
        /\ outcome[r] = "failed_no_effect"
              => wrote[r] \in {"nothing"} \cup
                              (IF effect[r].known THEN {} ELSE {"file"})
        /\ outcome[r] = "failed_partial" /\ effect[r].known
              => wrote[r] # "nothing"
        /\ outcome[r] = "indeterminate" => wrote[r] \in {"nothing", "record"}

\* Whatever died, failed or was retried: under one evidence root, the runs of
\* a key append one record between them.
AppendsOnce ==
    \A q, r \in Runs :
        q # r /\ SameKey(q, r) => ~(wrote[q] = "record" /\ wrote[r] = "record")

\* Every run that was submitted returns or dies: no lock is kept or waited for
\* in a circle.
EveryRunEnds == \A r \in Runs : pc[r] # "start" ~> pc[r] \in Ended

\* Of the runs that plan an append to one head, not all lose: if nothing fails,
\* the stream grows past the head.
HeadMovesOn ==
    \A r \in Runs :
        pc[r] = "lock" ~> faults > 0 \/ Len(journal) > Len(Base(r))

\* A run is writing.
Writing == \E r \in Runs : pc[r] \in {"write", "fill"}

\* A failed append left a part of a record, or an empty file.
Sealed == ~Writing /\ (torn \/ (present /\ journal = <<>>))

Log == INSTANCE TaskLog WITH log <- Token(journal), sealed <- Sealed,
                             Past <- Journals

\* The stream is an append-only log with the life cycle of a task, and an
\* append that failed in the middle seals it for ever.
ImplementsTaskLog == Log!Spec
=============================================================================
