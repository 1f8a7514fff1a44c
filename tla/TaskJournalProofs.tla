------------------------- MODULE TaskJournalProofs -------------------------
(***************************************************************************)
(* Theorems about TaskJournal, for every set of runs, evidence roots,      *)
(* bodies and earlier journals, and any number of failures.                *)
(***************************************************************************)
EXTENDS TaskJournal, SequenceTheorems, TLAPS

-----------------------------------------------------------------------------
(* The inductive invariant                                                  *)

\* Under the lock of the root.
Locked == {"observe", "open", "write", "fill", "readback"}

\* Under the lock of its key.
Holding == {"validate", "plan", "lock", "post"} \cup Locked

\* On the way to its effect, and not written to the file.
Clean == {"start", "check", "validate", "plan", "lock", "observe", "open"}

Ordered(r) ==
    /\ pc[r] # "done" => outcome[r] = "none"
    /\ pc[r] = "post" => effect[r] # NoEffect
    /\ pc[r] \in Clean \cup Locked => effect[r] = NoEffect

\* Only a record that opens its journal expects none.
Asked(r) ==
    /\ ask[r].action = "open" \/ pc[r] = "start" => head[r] = NoHead
    /\ ask[r].action # "open" /\ pc[r] # "start" => head[r] # NoHead

\* The body was legal after the head it names.  Its number may have been taken
\* from a longer stream, but then the head is no longer the stream's.
Planned(r) ==
    /\ pc[r] \in {"plan", "lock", "observe", "open", "write", "fill"} =>
          /\ May(ask[r], Base(r))
          /\ ask[r].action = "correction" => TargetIn(ask[r], Base(r))
          /\ Len(Base(r)) <= Len(journal)
    /\ pc[r] \in {"lock", "observe", "open", "write", "fill"} =>
          Len(Base(r)) + 1 <= sequence[r] /\ sequence[r] <= Len(journal) + 1

\* What a run under the lock of the root relies on.
InHand(r) ==
    /\ pc[r] \in Locked => lock = r
    /\ pc[r] \in {"open", "write", "fill"}
          => Token(journal) = Base(r) /\ offset[r] = Len(journal)
    /\ pc[r] \in {"open", "write"} => ~torn
    /\ pc[r] = "open" /\ head[r] = NoHead => ~present
    /\ pc[r] \in {"write", "fill"} => present
    /\ pc[r] = "readback" => InPlace(r)

Traced(r) ==
    /\ pc[r] \in Clean \/ sequence[r] = 0 => wrote[r] = "nothing"
    /\ pc[r] = "write" => wrote[r] \in {"nothing", "file"}
    /\ pc[r] = "fill" => wrote[r] = "part"
    /\ pc[r] = "readback" => wrote[r] = "record"

\* What a status says of run r is so.
Says(r, status) ==
    /\ status \in {"applied_verified", "succeeded_verified", "committed_unverified"}
          => wrote[r] = "record" /\ InPlace(r)
    /\ status = "reused"
          => LET n == Len(Base(r)) + 1 IN
             /\ Len(journal) >= n
             /\ SubSeq(Token(journal), 1, n) = Append(Base(r), ask[r])
    /\ status = "rejected" => wrote[r] = "nothing"
    /\ status = "failed_no_effect" => wrote[r] \in {"nothing", "file"}
    /\ status = "failed_no_effect" /\ effect[r].known => wrote[r] = "nothing"
    /\ status = "failed_partial" /\ effect[r].known => wrote[r] # "nothing"
    /\ status = "indeterminate" => wrote[r] \in {"nothing", "record"}

Truthful(r) == Says(r, effect[r].status) /\ Says(r, outcome[r])

RunOK(r) ==
    Ordered(r) /\ Asked(r) /\ Planned(r) /\ InHand(r) /\ Traced(r) /\ Truthful(r)

\* While a run holds the lock of its key, no other run of the key has an intent.
Exclusive ==
    \A q, r \in Runs :
        q # r /\ SameKey(q, r) /\ pc[r] \in Holding
            => pc[q] \notin Holding /\ sequence[q] = 0

IInv ==
    /\ TypeOK
    /\ JournalIsSound
    /\ Exclusive
    /\ AppendsOnce
    /\ \A r \in Runs : RunOK(r)

Act(r) == Submit(r) \/ Step(r) \/ Failure(r)

-----------------------------------------------------------------------------
(* Streams and their tokens                                                 *)

LEMMA Prefix ==
    ASSUME NEW S, NEW t \in Seq(S), NEW n \in 0..Len(t)
    PROVE  /\ SubSeq(t, 1, n) \in Seq(S)
           /\ Len(SubSeq(t, 1, n)) = n
           /\ \A i \in 1..n : SubSeq(t, 1, n)[i] = t[i]
<1>1. \A i \in 1..n : t[i] \in S /\ 1 + i - 1 = i
  BY ElementOfSeq
<1>2. n \in Int /\ 1 \in Int /\ n - 1 + 1 = n
  OBVIOUS
<1> QED
  BY <1>1, <1>2, SubSeqProperties

\* A beginning of a sequence is one of the longer sequence, too.
LEMMA PrefixKept ==
    ASSUME NEW S, NEW t \in Seq(S), NEW e \in S, NEW n \in 0..Len(t)
    PROVE  SubSeq(Append(t, e), 1, n) = SubSeq(t, 1, n)
<1>1. /\ Append(t, e) \in Seq(S) /\ Len(Append(t, e)) = Len(t) + 1
      /\ \A i \in 1..Len(t) : Append(t, e)[i] = t[i]
  BY AppendProperties
<1>2. n \in 0..Len(Append(t, e)) /\ \A i \in 1..n : i \in 1..Len(t)
  BY <1>1
<1>3. /\ SubSeq(Append(t, e), 1, n) \in Seq(S) /\ Len(SubSeq(Append(t, e), 1, n)) = n
      /\ \A i \in 1..n : SubSeq(Append(t, e), 1, n)[i] = Append(t, e)[i]
  BY <1>1, <1>2, Prefix
<1> QED
  BY <1>1, <1>2, <1>3, Prefix, SeqEqual

LEMMA TokenFacts ==
    ASSUME NEW s \in Seq(Records)
    PROVE  /\ Token(s) \in Seq(Bodies) /\ Len(Token(s)) = Len(s) /\ Len(s) \in Nat
           /\ DOMAIN Token(s) = 1..Len(s)
           /\ \A i \in 1..Len(s) : Token(s)[i] = s[i].body /\ s[i] \in Records
           /\ Token(s) = <<>> <=> s = <<>>
<1>1. Len(s) \in Nat /\ DOMAIN s = 1..Len(s)
  BY LenProperties
<1>2. \A i \in 1..Len(s) : s[i] \in Records
  BY ElementOfSeq
<1>3. Token(s) \in [1..Len(s) -> Bodies]
  BY <1>1, <1>2 DEF Token, Records
<1>4. Token(s) \in Seq(Bodies)
  BY <1>1, <1>3, SeqDef
<1>5. Len(Token(s)) = Len(s) /\ DOMAIN Token(s) = 1..Len(s)
  BY <1>1, <1>3, <1>4
<1> QED
  BY <1>1, <1>2, <1>4, <1>5, EmptySeq DEF Token

LEMMA TokenOfAppend ==
    ASSUME NEW s \in Seq(Records), NEW e \in Records
    PROVE  Token(Append(s, e)) = Append(Token(s), e.body)
<1> DEFINE t == Append(s, e)
<1>1. /\ t \in Seq(Records) /\ Len(t) = Len(s) + 1 /\ t[Len(s) + 1] = e
      /\ \A i \in 1..Len(s) : t[i] = s[i]
  BY AppendProperties
<1>2. e.body \in Bodies
  BY DEF Records
<1> HIDE DEF t
<1>3. /\ Token(t) \in Seq(Bodies) /\ Len(Token(t)) = Len(s) + 1 /\ Len(s) \in Nat
      /\ \A i \in 1..(Len(s) + 1) : Token(t)[i] = t[i].body
      /\ Token(s) \in Seq(Bodies) /\ Len(Token(s)) = Len(s)
      /\ \A i \in 1..Len(s) : Token(s)[i] = s[i].body
  BY <1>1, TokenFacts
<1>4. /\ Append(Token(s), e.body) \in Seq(Bodies)
      /\ Len(Append(Token(s), e.body)) = Len(s) + 1
      /\ \A i \in 1..Len(s) : Append(Token(s), e.body)[i] = Token(s)[i]
      /\ Append(Token(s), e.body)[Len(s) + 1] = e.body
  BY <1>2, <1>3, AppendProperties
<1>5. \A i \in 1..(Len(s) + 1) : Token(t)[i] = Append(Token(s), e.body)[i]
  <2> SUFFICES ASSUME NEW i \in 1..(Len(s) + 1)
               PROVE  Token(t)[i] = Append(Token(s), e.body)[i]
    OBVIOUS
  <2>1. i \in 1..Len(s) \/ i = Len(s) + 1
    BY <1>3
  <2> QED
    BY <1>1, <1>3, <1>4, <2>1
<1>6. Token(t) = Append(Token(s), e.body)
  BY <1>3, <1>4, <1>5, SeqEqual
<1> QED
  BY <1>6 DEF t

LEMMA Ranges ==
    ASSUME TypeOK, NEW r \in Runs
    PROVE  /\ ask[r] \in Bodies /\ head[r] \in Heads
           /\ Base(r) \in Seq(Bodies) /\ Len(Base(r)) \in Nat
           /\ sequence[r] \in Nat /\ offset[r] \in Nat
           /\ Record(r) \in Records
           /\ Token(journal) \in Seq(Bodies) /\ Len(Token(journal)) = Len(journal)
           /\ Len(journal) \in Nat /\ journal \in Seq(Records)
<1>1. ask[r] \in Bodies /\ head[r] \in Heads /\ sequence[r] \in Nat /\ offset[r] \in Nat
  BY JournalConstants DEF TypeOK
<1>2. Base(r) \in Seq(Bodies) /\ Len(Base(r)) \in Nat
  BY <1>1, EmptySeq DEF Base, Heads
<1>3. Record(r) \in Records
  BY <1>1 DEF Record, Records
<1>4. /\ Token(journal) \in Seq(Bodies) /\ Len(Token(journal)) = Len(journal)
      /\ Len(journal) \in Nat /\ journal \in Seq(Records)
  BY TokenFacts DEF TypeOK
<1> QED
  BY <1>1, <1>2, <1>3, <1>4

-----------------------------------------------------------------------------
(* What a step leaves alone                                                 *)

LEMMA Verdicts ==
    ASSUME NEW r \in Runs, CheckIdempotency(r)
    PROVE  \/ Judge(r) = "proceed" /\ Go(r, "validate") /\ UNCHANGED outcome
           \/ Judge(r) = "reuse" /\ Decide(r, "reused")
           \/ Judge(r) = "reject" /\ Decide(r, "rejected")
<1>1. Judge(r) \in {"proceed", "reuse", "reject"}
  BY DEF Judge
<1> QED
  BY <1>1 DEF CheckIdempotency

\* A step of r changes nothing that is another run's.
LEMMA Frame ==
    ASSUME TypeOK, NEW r \in Runs, Act(r)
    PROVE  /\ ask' = ask /\ home' = home
           /\ \A s \in Runs \ {r} :
                 /\ pc'[s] = pc[s] /\ head'[s] = head[s] /\ sequence'[s] = sequence[s]
                 /\ offset'[s] = offset[s] /\ effect'[s] = effect[s]
                 /\ outcome'[s] = outcome[s] /\ wrote'[s] = wrote[s]
                 /\ lock = s => lock' = s
<1> USE DEF TypeOK, stream, request, memory, Go, Decide
<1>1. ASSUME NEW status, NEW known, Finish(r, status, known)
      PROVE  \A s \in Runs \ {r} :
                pc'[s] = pc[s] /\ effect'[s] = effect[s] /\ (lock = s => lock' = s)
  BY <1>1 DEF Finish, Release
<1>2. ASSUME Release(r)
      PROVE  \A s \in Runs \ {r} : lock = s => lock' = s
  BY <1>2 DEF Release
<1>3. CASE Submit(r)
  <2>1. head' = head \/ \E h : head' = [head EXCEPT ![r] = h]
    BY <1>3 DEF Submit
  <2>2. \A s \in Runs \ {r} : head'[s] = head[s]
    BY <2>1
  <2> QED
    BY <1>3, <2>2 DEF Submit
<1>4. CASE Failure(r)
  <2>1. CASE Raise(r)
    BY <2>1, <1>2 DEF Raise
  <2>2. CASE CooperativeFails(r)
    BY <2>2, <1>1 DEF CooperativeFails
  <2>3. CASE WriteFails(r)
    BY <2>3, <1>1 DEF WriteFails
  <2>4. CASE FillFails(r)
    BY <2>4, <1>1 DEF FillFails
  <2>5. CASE ReadBackFails(r)
    BY <2>5, <1>1 DEF ReadBackFails
  <2>6. CASE FinalizationFails(r)
    BY <2>6 DEF FinalizationFails
  <2>7. CASE Crash(r)
    BY <2>7, <1>2 DEF Crash
  <2> QED
    BY <1>4, <2>1, <2>2, <2>3, <2>4, <2>5, <2>6, <2>7 DEF Failure
<1>5. CASE Step(r)
  <2>1. CASE CheckIdempotency(r)
    BY <2>1, Verdicts DEF CheckIdempotency
  <2>2. CASE Validate(r)
    BY <2>2 DEF Validate
  <2>3. CASE Plan(r)
    BY <2>3 DEF Plan
  <2>4. CASE TakeLock(r)
    BY <2>4, JournalConstants DEF TakeLock
  <2>5. CASE Observe(r)
    BY <2>5, <1>1 DEF Observe
  <2>6. CASE Open(r)
    BY <2>6 DEF Open
  <2>7. CASE Write(r)
    BY <2>7 DEF Write
  <2>8. CASE Fill(r)
    BY <2>8 DEF Fill
  <2>9. CASE ReadBack(r)
    BY <2>9, <1>1 DEF ReadBack
  <2>10. CASE PostOperation(r)
    BY <2>10 DEF PostOperation
  <2> QED
    BY <1>5, <2>1, <2>2, <2>3, <2>4, <2>5, <2>6, <2>7, <2>8, <2>9, <2>10 DEF Step
<1> QED
  BY <1>3, <1>4, <1>5 DEF Act

\* The stream grows by the record of the run that steps, or stays; and only a
\* record completes what is torn.
LEMMA StreamFrame ==
    ASSUME NEW r \in Runs, Act(r)
    PROVE  \/ UNCHANGED stream
           \/ Open(r) \/ Write(r) \/ Fill(r)
<1>1. CASE Step(r)
  <2>1. CASE Open(r) \/ Write(r) \/ Fill(r)
    BY <2>1
  <2>2. CASE ~(Open(r) \/ Write(r) \/ Fill(r))
    <3>1. \/ CheckIdempotency(r) \/ Validate(r) \/ Plan(r) \/ TakeLock(r)
          \/ Observe(r) \/ ReadBack(r) \/ PostOperation(r)
      BY <1>1, <2>2 DEF Step
    <3>2. UNCHANGED stream
      BY <3>1 DEF CheckIdempotency, Validate, Plan, TakeLock, Observe, ReadBack,
                  PostOperation
    <3> QED
      BY <3>2
  <2> QED
    BY <2>1, <2>2
<1>2. CASE Submit(r) \/ Failure(r)
  <2>1. UNCHANGED stream
    BY <1>2 DEF Submit, Failure, Raise, CooperativeFails, WriteFails, FillFails,
                ReadBackFails, FinalizationFails, Crash
  <2> QED
    BY <2>1
<1> QED
  BY <1>1, <1>2 DEF Act

\* A journal keeps what it has.
LEMMA Growth ==
    ASSUME TypeOK, NEW r \in Runs, Act(r)
    PROVE  /\ \/ journal' = journal
              \/ /\ journal' = Append(journal, Record(r)) /\ pc[r] = "fill"
                 /\ Token(journal)' = Append(Token(journal), ask[r])
           /\ journal' \in Seq(Records)
           /\ Len(journal)' \in Nat /\ Len(journal) <= Len(journal)'
           /\ Token(journal)' \in Seq(Bodies) /\ Len(Token(journal)') = Len(journal)'
           /\ \A i \in 1..Len(journal) : journal'[i] = journal[i]
           /\ \A n \in 0..Len(journal) :
                 SubSeq(Token(journal)', 1, n) = SubSeq(Token(journal), 1, n)
<1>1. /\ Record(r) \in Records /\ journal \in Seq(Records) /\ Len(journal) \in Nat
      /\ Record(r).body = ask[r] /\ ask[r] \in Bodies
      /\ Token(journal) \in Seq(Bodies) /\ Len(Token(journal)) = Len(journal)
  BY Ranges DEF Record
<1>2. CASE journal' = journal
  BY <1>1, <1>2
<1>3. CASE Fill(r)
  <2>1. journal' = Append(journal, Record(r)) /\ pc[r] = "fill"
    BY <1>3 DEF Fill
  <2>2. /\ journal' \in Seq(Records) /\ Len(journal') = Len(journal) + 1
        /\ \A i \in 1..Len(journal) : journal'[i] = journal[i]
    BY <1>1, <2>1, AppendProperties
  <2>3. Token(journal)' = Append(Token(journal), ask[r])
    BY <1>1, <2>1, TokenOfAppend
  <2>4. Token(journal') \in Seq(Bodies) /\ Len(Token(journal')) = Len(journal')
    BY <2>2, TokenFacts
  <2>5. \A n \in 0..Len(journal) :
           SubSeq(Token(journal)', 1, n) = SubSeq(Token(journal), 1, n)
    BY <1>1, <2>3, PrefixKept
  <2> QED
    BY <1>1, <2>1, <2>2, <2>3, <2>4, <2>5
<1> QED
  BY <1>2, <1>3, StreamFrame DEF stream, Open, Write

-----------------------------------------------------------------------------
(* Types                                                                    *)

LEMMA FinishTypes ==
    ASSUME TypeOK, NEW r \in Runs, NEW status \in EffectStatuses, NEW known \in BOOLEAN,
           Finish(r, status, known)
    PROVE  /\ effect' \in [Runs -> EffectReceipts]
           /\ effect'[r] = [status |-> status, known |-> known]
           /\ lock' \in Runs \cup {NoRun}
           /\ pc' \in [Runs -> Steps \cup Ended \cup {"start"}] /\ pc'[r] = "post"
<1>1. [status |-> status, known |-> known] \in EffectReceipts
  BY DEF EffectReceipts
<1>2. /\ effect' \in [Runs -> EffectReceipts]
      /\ effect'[r] = [status |-> status, known |-> known]
  BY <1>1 DEF Finish, TypeOK
<1>3. lock' \in Runs \cup {NoRun}
  BY DEF Finish, Release, TypeOK
<1>4. pc' \in [Runs -> Steps \cup Ended \cup {"start"}] /\ pc'[r] = "post"
  BY DEF Finish, Go, Steps, TypeOK
<1> QED
  BY <1>2, <1>3, <1>4

\* The effect of a run after it has a receipt.
LEMMA EffectStatus ==
    ASSUME IInv, NEW r \in Runs, pc[r] = "post"
    PROVE  effect[r] \in [status : EffectStatuses, known : BOOLEAN]
           /\ effect[r].status \in EffectStatuses
<1>1. effect[r] \in EffectReceipts /\ effect[r] # NoEffect
  BY DEF IInv, TypeOK, RunOK, Ordered
<1>2. effect[r] \in [status : EffectStatuses, known : BOOLEAN]
  BY <1>1 DEF EffectReceipts
<1> QED
  BY <1>2

\* What becomes of a run whose effect has a receipt is a terminal status, and
\* it says no more than the receipt does.
LEMMA StatusSays ==
    ASSUME NEW r \in Runs, NEW status \in EffectStatuses, NEW verified \in BOOLEAN,
           Says(r, status)
    PROVE  /\ TerminalStatus(status, verified) \in Outcomes
           /\ Says(r, TerminalStatus(status, verified))
<1>1. CASE status = "applied_verified"
  <2>1. TerminalStatus(status, verified) =
           IF verified THEN "succeeded_verified" ELSE "committed_unverified"
    BY <1>1 DEF TerminalStatus
  <2> QED
    BY <1>1, <2>1 DEF Says, Outcomes
<1>2. CASE status # "applied_verified"
  <2>1. TerminalStatus(status, verified) = status
    BY <1>2 DEF TerminalStatus
  <2> QED
    BY <1>2, <2>1 DEF Outcomes, EffectStatuses
<1> QED
  BY <1>1, <1>2

LEMMA TypeStep ==
    ASSUME IInv, NEW r \in Runs, Act(r)
    PROVE  TypeOK'
<1> USE DEF stream, request, memory
<1> DEFINE Places == Steps \cup Ended \cup {"start"}
<1>0. /\ TypeOK /\ Token(journal) \in Seq(Bodies) /\ Len(Token(journal)) = Len(journal)
      /\ Len(journal) \in Nat /\ journal' \in Seq(Records)
      /\ head[r] \in Heads /\ Base(r) \in Seq(Bodies)
  BY Ranges, Growth DEF IInv
<1>1. ASSUME NEW step \in Places, Go(r, step)
      PROVE  pc' \in [Runs -> Places]
  BY <1>0, <1>1 DEF Go, TypeOK
<1>2. ASSUME NEW status \in Outcomes, Decide(r, status)
      PROVE  outcome' \in [Runs -> Outcomes] /\ pc' \in [Runs -> Places]
  BY <1>0, <1>2 DEF Decide, Go, TypeOK, Ended
<1>3. Release(r) => lock' \in Runs \cup {NoRun}
  BY <1>0 DEF Release, TypeOK
<1>4. /\ Steps \cup {"crashed", "done"} \subseteq Places
      /\ {"observe", "open", "write", "fill", "readback", "validate", "plan", "lock",
          "check", "post"} \subseteq Places
      /\ {"rejected", "reused"} \subseteq Outcomes
      /\ {"failed_no_effect", "failed_partial", "indeterminate", "applied_verified"}
             \subseteq EffectStatuses
  BY DEF Ended, Outcomes, Steps, EffectStatuses
<1>5. ASSUME NEW verified \in BOOLEAN, pc[r] = "post",
             Decide(r, TerminalStatus(effect[r].status, verified))
      PROVE  outcome' \in [Runs -> Outcomes] /\ pc' \in [Runs -> Places]
  <2>1. effect[r].status \in EffectStatuses /\ Says(r, effect[r].status)
    BY <1>5, EffectStatus DEF IInv, RunOK, Truthful
  <2>2. TerminalStatus(effect[r].status, verified) \in Outcomes
    BY <2>1, StatusSays
  <2> QED
    BY <1>2, <1>5, <2>2
<1>6. ASSUME NEW status \in EffectStatuses, NEW known \in BOOLEAN,
             Finish(r, status, known)
      PROVE  /\ effect' \in [Runs -> EffectReceipts] /\ lock' \in Runs \cup {NoRun}
              /\ pc' \in [Runs -> Places]
  BY <1>0, <1>6, FinishTypes, Zenon
<1>7. CASE Submit(r)
  <2>1. head' \in [Runs -> Heads]
    <3>1. \A n \in 0..Len(journal) : SubSeq(Token(journal), 1, n) \in Heads
      BY <1>0, Prefix DEF Heads
    <3> QED
      BY <1>0, <1>7, <3>1 DEF Submit, TypeOK
  <2> QED
    BY <1>0, <1>1, <1>4, <1>7, <2>1 DEF Submit, TypeOK
<1>8. CASE Failure(r)
  <2>0. faults' \in 0..MaxFaults
    BY <1>0, <1>8, JournalConstants DEF Failure, Fault, TypeOK
  <2>1. CASE Raise(r)
    <3>1. pc' \in [Runs -> Places] /\ outcome' \in [Runs -> Outcomes]
      BY <1>0, <1>1, <1>2, <1>4, <2>1 DEF Raise, TypeOK
    <3> QED
      BY <1>0, <1>3, <2>0, <2>1, <3>1 DEF Raise, TypeOK
  <2>2. CASE CooperativeFails(r)
    <3>1. PICK status \in EffectStatuses, known \in BOOLEAN : Finish(r, status, known)
      BY <1>4, <2>2 DEF CooperativeFails
    <3>2. /\ effect' \in [Runs -> EffectReceipts] /\ lock' \in Runs \cup {NoRun}
          /\ pc' \in [Runs -> Places]
      BY <1>6, <3>1, Zenon
    <3> QED
      BY <1>0, <2>0, <2>2, <3>2 DEF CooperativeFails, TypeOK
  <2>3. CASE WriteFails(r)
    <3>1. PICK known \in BOOLEAN : Finish(r, StatusUnwritten(r, known), known)
      BY <2>3 DEF WriteFails
    <3>2. StatusUnwritten(r, known) \in EffectStatuses
      BY DEF StatusUnwritten, EffectStatuses
    <3>3. /\ effect' \in [Runs -> EffectReceipts] /\ lock' \in Runs \cup {NoRun}
          /\ pc' \in [Runs -> Places]
      BY <1>6, <3>1, <3>2, Zenon
    <3> QED
      BY <1>0, <2>0, <2>3, <3>3 DEF WriteFails, TypeOK
  <2>4. CASE FillFails(r)
    <3>1. PICK known \in BOOLEAN : Finish(r, "failed_partial", known)
      BY <2>4 DEF FillFails
    <3>2. /\ effect' \in [Runs -> EffectReceipts] /\ lock' \in Runs \cup {NoRun}
          /\ pc' \in [Runs -> Places]
      BY <1>4, <1>6, <3>1
    <3> QED
      BY <1>0, <2>0, <2>4, <3>2 DEF FillFails, TypeOK
  <2>5. CASE ReadBackFails(r)
    BY <1>0, <1>4, <2>0, <2>5, FinishTypes DEF ReadBackFails, TypeOK
  <2>6. CASE FinalizationFails(r)
    BY <1>0, <1>5, <2>0, <2>6 DEF FinalizationFails, TypeOK
  <2>7. CASE Crash(r)
    BY <1>0, <1>1, <1>3, <1>4, <2>0, <2>7 DEF Crash, TypeOK
  <2> QED
    BY <1>8, <2>1, <2>2, <2>3, <2>4, <2>5, <2>6, <2>7 DEF Failure
<1>9. CASE Step(r)
  <2>1. CASE CheckIdempotency(r)
    <3>1. pc' \in [Runs -> Places] /\ outcome' \in [Runs -> Outcomes]
      BY <1>0, <1>1, <1>2, <1>4, <2>1, Verdicts DEF TypeOK
    <3> QED
      BY <1>0, <2>1, <3>1 DEF CheckIdempotency, TypeOK
  <2>2. CASE Validate(r)
    <3>1. pc' \in [Runs -> Places] /\ outcome' \in [Runs -> Outcomes]
      BY <1>0, <1>1, <1>2, <1>4, <2>2 DEF Validate, TypeOK
    <3> QED
      BY <1>0, <2>2, <3>1 DEF Validate, TypeOK
  <2>3. CASE Plan(r)
    <3>1. Len(Existing(r)) \in Nat
      BY <1>0, EmptySeq DEF Existing
    <3>2. \/ /\ sequence' = [sequence EXCEPT ![r] = Len(Existing(r)) + 1]
             /\ Go(r, "lock") /\ UNCHANGED outcome
          \/ Decide(r, "rejected") /\ UNCHANGED sequence
      BY <2>3 DEF Plan
    <3>3. pc' \in [Runs -> Places] /\ outcome' \in [Runs -> Outcomes]
      BY <1>0, <1>1, <1>2, <1>4, <3>2 DEF TypeOK
    <3>4. sequence' \in [Runs -> Nat]
      <4>1. Len(Existing(r)) + 1 \in Nat
        BY <3>1
      <4> QED
        BY <1>0, <3>2, <4>1 DEF TypeOK
    <3> QED
      BY <1>0, <2>3, <3>3, <3>4 DEF Plan, TypeOK
  <2>4. CASE TakeLock(r)
    BY <1>0, <1>1, <1>4, <2>4 DEF TakeLock, TypeOK
  <2>5. CASE Observe(r)
    <3>1. CASE Matches(r)
      <4>1. offset' \in [Runs -> Nat]
        BY <1>0, <2>5, <3>1 DEF Observe, TypeOK
      <4> QED
        BY <1>0, <1>1, <1>4, <2>5, <3>1, <4>1 DEF Observe, TypeOK
    <3>2. CASE ~Matches(r)
      <4>1. Finish(r, "failed_no_effect", ~torn) /\ offset' = offset
        BY <2>5, <3>2, Zenon DEF Observe
      <4>2. PICK known \in BOOLEAN : known = ~torn
        OBVIOUS
      <4>3. Finish(r, "failed_no_effect", known)
        BY <4>1, <4>2, Zenon
      <4>4. /\ effect' \in [Runs -> EffectReceipts] /\ lock' \in Runs \cup {NoRun}
            /\ pc' \in [Runs -> Places]
        BY <1>4, <1>6, <4>3
      <4> QED
        BY <1>0, <2>5, <4>1, <4>4 DEF Observe, TypeOK
    <3> QED
      BY <3>1, <3>2
  <2>6. CASE Open(r)
    <3>1. wrote' \in [Runs -> Traces]
      BY <1>0, <2>6 DEF Open, TypeOK, Traces
    <3> QED
      BY <1>0, <1>1, <1>4, <2>6, <3>1 DEF Open, TypeOK
  <2>7. CASE Write(r)
    <3>1. wrote' \in [Runs -> Traces]
      BY <1>0, <2>7 DEF Write, TypeOK, Traces
    <3> QED
      BY <1>0, <1>1, <1>4, <2>7, <3>1 DEF Write, TypeOK
  <2>8. CASE Fill(r)
    <3>1. wrote' \in [Runs -> Traces]
      BY <1>0, <2>8 DEF Fill, TypeOK, Traces
    <3>2. pc' \in [Runs -> Places]
      BY <1>1, <1>4, <2>8 DEF Fill
    <3> QED
      BY <1>0, <2>8, <3>1, <3>2 DEF Fill, TypeOK
  <2>9. CASE ReadBack(r)
    BY <1>0, <1>4, <2>9, FinishTypes DEF ReadBack, TypeOK
  <2>10. CASE PostOperation(r)
    <3>1. PICK verified \in BOOLEAN :
             Decide(r, TerminalStatus(effect[r].status, verified)) /\ pc[r] = "post"
      BY <2>10 DEF PostOperation
    <3>2. outcome' \in [Runs -> Outcomes] /\ pc' \in [Runs -> Places]
      BY <1>5, <3>1
    <3> QED
      BY <1>0, <2>10, <3>2 DEF PostOperation, TypeOK
  <2> QED
    BY <1>9, <2>1, <2>2, <2>3, <2>4, <2>5, <2>6, <2>7, <2>8, <2>9, <2>10 DEF Step
<1> QED
  BY <1>7, <1>8, <1>9 DEF Act

-----------------------------------------------------------------------------
(* What a step does to other runs                                           *)

\* What a run remembers of its request and plan stays with it.
Remembers(s) ==
    /\ ask'[s] = ask[s] /\ head'[s] = head[s] /\ sequence'[s] = sequence[s]
    /\ offset'[s] = offset[s]

LEMMA Remembered ==
    ASSUME TypeOK, NEW r \in Runs, Act(r), NEW s \in Runs, Remembers(s)
    PROVE  /\ Base(s)' = Base(s) /\ Record(s)' = Record(s)
           /\ InPlace(s) => InPlace(s)'
<1>1. Base(s)' = Base(s) /\ Record(s)' = Record(s)
  BY DEF Remembers, Base, Record
<1>2. ASSUME InPlace(s)
      PROVE  InPlace(s)'
  <2>1. /\ offset[s] \in Nat /\ Len(journal) \in Nat /\ Len(journal)' \in Nat
        /\ Len(journal) > offset[s] /\ Len(journal)' >= Len(journal)
    BY <1>2, Ranges, Growth DEF InPlace
  <2>2. offset[s] + 1 \in 1..Len(journal) /\ offset[s] \in 0..Len(journal)
    BY <2>1
  <2>3. /\ journal'[offset[s] + 1] = journal[offset[s] + 1]
        /\ SubSeq(Token(journal)', 1, offset[s]) = SubSeq(Token(journal), 1, offset[s])
    BY <2>2, Growth
  <2>4. Len(journal)' > offset[s]
    BY <2>1
  <2> QED
    BY <1>1, <1>2, <2>3, <2>4 DEF InPlace, Remembers
<1> QED
  BY <1>1, <1>2

\* What was true of a run stays true.
LEMMA SaysKept ==
    ASSUME TypeOK, NEW r \in Runs, Act(r), NEW s \in Runs, Remembers(s),
           wrote'[s] = wrote[s], effect'[s].known = effect[s].known,
           NEW status, Says(s, status)
    PROVE  Says(s, status)'
<1>1. /\ Base(s)' = Base(s) /\ ask'[s] = ask[s]
      /\ InPlace(s) => InPlace(s)'
  BY Remembered DEF Remembers
<1>2. /\ Len(Base(s)) \in Nat /\ Len(journal) \in Nat /\ Len(journal)' \in Nat
      /\ Len(journal)' >= Len(journal)
      /\ \A n \in 0..Len(journal) :
            SubSeq(Token(journal)', 1, n) = SubSeq(Token(journal), 1, n)
  BY Ranges, Growth
<1>3. ASSUME status = "reused"
      PROVE  /\ Len(journal)' >= Len(Base(s)) + 1
             /\ SubSeq(Token(journal)', 1, Len(Base(s)) + 1) = Append(Base(s), ask[s])
  <2>1. /\ Len(journal) >= Len(Base(s)) + 1
        /\ SubSeq(Token(journal), 1, Len(Base(s)) + 1) = Append(Base(s), ask[s])
    BY <1>3 DEF Says
  <2>2. /\ Len(Base(s)) + 1 \in 0..Len(journal)
        /\ Len(journal)' >= Len(Base(s)) + 1
    BY <1>2, <2>1
  <2>3. SubSeq(Token(journal)', 1, Len(Base(s)) + 1)
           = SubSeq(Token(journal), 1, Len(Base(s)) + 1)
    BY <1>2, <2>2, Zenon
  <2> QED
    BY <2>1, <2>2, <2>3
<1> QED
  BY <1>1, <1>3 DEF Says

\* Under the root lock there is one run.
LEMMA Alone ==
    ASSUME IInv, NEW r \in Runs, NEW s \in Runs, pc[r] \in Locked, pc[s] \in Locked
    PROVE  r = s
BY DEF IInv, RunOK, InHand

\* A step of one run keeps what holds of another.
LEMMA OthersKept ==
    ASSUME IInv, NEW r \in Runs, Act(r), NEW s \in Runs, s # r
    PROVE  RunOK(s)'
<1>1. /\ ask' = ask /\ pc'[s] = pc[s] /\ head'[s] = head[s] /\ sequence'[s] = sequence[s]
      /\ offset'[s] = offset[s] /\ effect'[s] = effect[s] /\ outcome'[s] = outcome[s]
      /\ wrote'[s] = wrote[s] /\ (lock = s => lock' = s)
  BY Frame DEF IInv
<1>2. RunOK(s) /\ TypeOK /\ Remembers(s)
  BY <1>1 DEF IInv, Remembers
<1>3. Base(s)' = Base(s) /\ (InPlace(s) => InPlace(s)')
  BY <1>2, Remembered
<1>4. Ordered(s)' /\ Asked(s)' /\ Traced(s)'
  BY <1>1, <1>2 DEF RunOK, Ordered, Asked, Traced
<1>5. Planned(s)'
  <2>1. /\ Len(Base(s)) \in Nat /\ Len(journal) \in Nat /\ Len(journal)' \in Nat
        /\ Len(journal)' >= Len(journal) /\ sequence[s] \in Nat
    BY <1>2, Ranges, Growth
  <2>2. /\ Len(Base(s)) <= Len(journal) => Len(Base(s)) <= Len(journal)'
        /\ sequence[s] <= Len(journal) + 1 => sequence[s] <= Len(journal)' + 1
    BY <2>1
  <2> QED
    BY <1>1, <1>2, <1>3, <2>2 DEF RunOK, Planned
<1>6. InHand(s)'
  <2>1. CASE pc[s] \in Locked
    <3>1. pc[r] \notin Locked
      BY <2>1, Alone
    <3>2. UNCHANGED stream
      BY <3>1, StreamFrame DEF Open, Write, Fill, Locked
    <3> QED
      BY <1>1, <1>2, <1>3, <3>2 DEF RunOK, InHand, stream
  <2>2. CASE pc[s] \notin Locked
    BY <1>1, <2>2 DEF InHand, Locked
  <2> QED
    BY <2>1, <2>2
<1>7. Truthful(s)'
  <2>1. /\ Says(s, effect[s].status) => Says(s, effect[s].status)'
        /\ Says(s, outcome[s]) => Says(s, outcome[s])'
    BY <1>1, <1>2, SaysKept
  <2> QED
    BY <1>1, <1>2, <2>1 DEF RunOK, Truthful, Says
<1> QED
  BY <1>4, <1>5, <1>6, <1>7 DEF RunOK

-----------------------------------------------------------------------------
(* What a step does to its own run                                          *)

\* An effect that ends with a true receipt leaves its run in order.
LEMMA Finished ==
    ASSUME IInv, NEW r \in Runs, pc[r] \in Locked,
           NEW status \in EffectStatuses, NEW known, Finish(r, status, known),
           UNCHANGED <<stream, request, sequence, offset, outcome, wrote>>,
           status = "applied_verified" => wrote[r] = "record" /\ InPlace(r),
           status = "failed_no_effect" => wrote[r] \in {"nothing", "file"},
           status = "failed_no_effect" /\ known => wrote[r] = "nothing",
           status = "failed_partial" /\ known => wrote[r] # "nothing",
           status = "indeterminate" => wrote[r] \in {"nothing", "record"}
    PROVE  RunOK(r)'
<1>1. /\ pc'[r] = "post" /\ outcome'[r] = "none"
      /\ effect'[r] = [status |-> status, known |-> known]
  BY DEF Finish, Go, IInv, TypeOK, RunOK, Ordered, Locked
<1>2. Base(r)' = Base(r) /\ InPlace(r)' = InPlace(r)
  BY DEF Base, InPlace, Record, stream, request
<1>3. Ordered(r)'
  BY <1>1 DEF Ordered, NoEffect, EffectStatuses, Clean, Locked
<1>4. Asked(r)' /\ Planned(r)' /\ InHand(r)'
  BY <1>1 DEF IInv, RunOK, Asked, Planned, InHand, Locked, request
<1>5. Traced(r)'
  BY <1>1 DEF IInv, RunOK, Traced, Clean
<1>6. Truthful(r)'
  <2>1. effect'[r].status = status /\ effect'[r].known = known
    BY <1>1
  <2>2. wrote'[r] = wrote[r] /\ Says(r, "none")'
    BY DEF Says
  <2>3. Says(r, status)'
    BY <1>2, <2>1, <2>2 DEF Says, EffectStatuses
  <2> QED
    BY <1>1, <2>1, <2>2, <2>3 DEF Truthful, Says
<1> QED
  BY <1>3, <1>4, <1>5, <1>6 DEF RunOK

\* So does a run that returns with a true receipt.
LEMMA Decided ==
    ASSUME IInv, NEW r \in Runs, pc[r] # "start", NEW status,
           Decide(r, status), Says(r, status),
           UNCHANGED <<stream, request, sequence, offset, effect, wrote>>
    PROVE  RunOK(r)'
<1>1. pc'[r] = "done" /\ effect'[r] = effect[r] /\ outcome'[r] = status
  BY DEF Decide, Go, IInv, TypeOK
<1>2. Base(r)' = Base(r) /\ InPlace(r)' = InPlace(r)
  BY DEF Base, InPlace, Record, stream, request
<1>3. Ordered(r)'
  BY <1>1 DEF Ordered, Clean, Locked
<1>4. Asked(r)' /\ Planned(r)' /\ InHand(r)'
  BY <1>1 DEF IInv, RunOK, Asked, Planned, InHand, Locked, request
<1>5. Traced(r)'
  BY <1>1 DEF IInv, RunOK, Traced, Clean
<1>6. Truthful(r)'
  BY <1>1, <1>2 DEF IInv, RunOK, Truthful, Says, stream, request
<1> QED
  BY <1>3, <1>4, <1>5, <1>6 DEF RunOK

\* A run that has no receipt yet says nothing.
LEMMA Silent ==
    ASSUME NEW r \in Runs, effect'[r] = NoEffect, outcome'[r] = "none"
    PROVE  Truthful(r)'
BY DEF Truthful, Says, NoEffect

\* A run on the way to its effect has no receipt and has not written.
LEMMA Before ==
    ASSUME IInv, NEW r \in Runs, pc[r] \in Clean \cup Locked
    PROVE  /\ effect[r] = NoEffect /\ outcome[r] = "none"
           /\ pc[r] \in Clean => wrote[r] = "nothing" /\ Says(r, "rejected")
BY DEF IInv, RunOK, Ordered, Traced, Says, Clean, Locked

\* A step of a run keeps what holds of it: the steps that fail.
LEMMA OwnFailures ==
    ASSUME IInv, NEW r \in Runs, Failure(r)
    PROVE  RunOK(r)'
<1>1. RunOK(r) /\ TypeOK /\ Act(r)
  BY DEF IInv, Act
<1>2. ASSUME pc[r] \in Steps, Go(r, "crashed"),
             UNCHANGED <<stream, request, memory, wrote>>
      PROVE  RunOK(r)'
  <2>1. pc'[r] = "crashed" /\ pc[r] # "done" /\ pc[r] # "start"
    BY <1>1, <1>2 DEF Go, TypeOK, Steps
  <2>2. Base(r)' = Base(r) /\ InPlace(r)' = InPlace(r)
    BY <1>2 DEF Base, InPlace, Record, stream, request, memory
  <2>3. Ordered(r)' /\ Asked(r)' /\ Planned(r)' /\ InHand(r)' /\ Traced(r)'
    BY <1>1, <1>2, <2>1
    DEF RunOK, Ordered, Asked, Planned, InHand, Traced, Clean, Locked, memory, request
  <2>4. Truthful(r)'
    BY <1>1, <1>2, <2>2 DEF RunOK, Truthful, Says, stream, request, memory
  <2> QED
    BY <2>3, <2>4 DEF RunOK
<1>3. CASE Raise(r)
  <2>1. pc[r] \in Clean /\ pc[r] \in Steps /\ pc[r] # "start"
    BY <1>3 DEF Raise, Clean, Steps
  <2>2. CASE Decide(r, "rejected")
    BY <1>3, <2>1, <2>2, Before, Decided DEF Raise
  <2>3. CASE Go(r, "crashed") /\ UNCHANGED outcome
    BY <1>2, <1>3, <2>1, <2>3 DEF Raise, memory
  <2> QED
    BY <1>3, <2>2, <2>3 DEF Raise
<1>4. CASE CooperativeFails(r)
  <2>1. wrote[r] = "nothing" /\ pc[r] \in Locked
    BY <1>4, Before DEF CooperativeFails, Clean, Locked
  <2>2. CASE Finish(r, "failed_no_effect", TRUE)
    BY <1>4, <2>1, <2>2, Finished DEF CooperativeFails, EffectStatuses
  <2>3. CASE Finish(r, "indeterminate", FALSE)
    BY <1>4, <2>1, <2>3, Finished DEF CooperativeFails, EffectStatuses
  <2> QED
    BY <1>4, <2>2, <2>3 DEF CooperativeFails
<1>5. CASE WriteFails(r)
  <2>1. wrote[r] \in {"nothing", "file"} /\ pc[r] \in Locked
    BY <1>1, <1>5, Before DEF WriteFails, RunOK, Traced, Clean, Locked
  <2>2. PICK known \in BOOLEAN : Finish(r, StatusUnwritten(r, known), known)
    BY <1>5 DEF WriteFails
  <2>3. CASE known
    <3>1. \/ wrote[r] = "file" /\ Finish(r, "failed_partial", known)
          \/ wrote[r] = "nothing" /\ Finish(r, "failed_no_effect", known)
      BY <2>1, <2>2, <2>3 DEF StatusUnwritten
    <3>2. CASE wrote[r] = "file" /\ Finish(r, "failed_partial", known)
      BY <1>5, <2>1, <3>2, Finished DEF WriteFails, EffectStatuses
    <3>3. CASE wrote[r] = "nothing" /\ Finish(r, "failed_no_effect", known)
      BY <1>5, <2>1, <3>3, Finished DEF WriteFails, EffectStatuses
    <3> QED
      BY <3>1, <3>2, <3>3
  <2>4. CASE ~known
    <3>1. StatusUnwritten(r, known) \in {"failed_partial", "failed_no_effect"}
      BY DEF StatusUnwritten
    <3> QED
      BY <1>5, <2>1, <2>2, <2>4, <3>1, Finished DEF WriteFails, EffectStatuses
  <2> QED
    BY <2>3, <2>4
<1>6. CASE FillFails(r)
  <2>1. wrote[r] \in {"part", "record"} /\ pc[r] \in Locked
    BY <1>1, <1>6 DEF FillFails, RunOK, Traced, Locked
  <2>2. PICK known \in BOOLEAN : Finish(r, "failed_partial", known)
    BY <1>6 DEF FillFails
  <2> QED
    BY <1>6, <2>1, <2>2, Finished DEF FillFails, EffectStatuses
<1>7. CASE ReadBackFails(r)
  <2>1. wrote[r] = "record" /\ pc[r] \in Locked
    BY <1>1, <1>7 DEF ReadBackFails, RunOK, Traced, Locked
  <2> QED
    BY <1>7, <2>1, Finished DEF ReadBackFails, EffectStatuses
<1>8. CASE FinalizationFails(r)
  <2>1. /\ effect[r].status \in EffectStatuses /\ Says(r, effect[r].status)
        /\ pc[r] # "start"
    BY <1>1, <1>8, EffectStatus DEF FinalizationFails, RunOK, Truthful
  <2>2. Says(r, TerminalStatus(effect[r].status, FALSE))
    BY <2>1, StatusSays
  <2> QED
    BY <1>8, <2>1, <2>2, Decided DEF FinalizationFails
<1>9. CASE Crash(r)
  BY <1>2, <1>9 DEF Crash
<1> QED
  BY <1>3, <1>4, <1>5, <1>6, <1>7, <1>8, <1>9 DEF Failure

\* What is reused is what was asked for: the record of the prior comes right
\* after the head that both name.
LEMMA Reused ==
    ASSUME TypeOK, NEW r \in Runs, Judge(r) = "reuse"
    PROVE  Says(r, "reused")
<1>1. PICK q \in Runs : SameRequest(q, r) /\ Inspected(q)
  BY DEF Judge, Priors
<1>2. ask[q] = ask[r] /\ Base(q) = Base(r)
  BY <1>1 DEF SameRequest, Base
<1>3. /\ Len(journal) > offset[q]
      /\ SubSeq(Token(journal), 1, offset[q] + 1) = Append(Base(r), ask[r])
  BY <1>1, <1>2 DEF Inspected
<1>4. /\ offset[q] \in Nat /\ Len(journal) \in Nat
      /\ Token(journal) \in Seq(Bodies) /\ Len(Token(journal)) = Len(journal)
      /\ Base(r) \in Seq(Bodies) /\ Len(Base(r)) \in Nat /\ ask[r] \in Bodies
  BY Ranges
<1>5. Len(SubSeq(Token(journal), 1, offset[q] + 1)) = offset[q] + 1
  <2>1. offset[q] + 1 \in 0..Len(Token(journal))
    BY <1>3, <1>4
  <2> QED
    BY <1>4, <2>1, Prefix
<1>6. Len(Append(Base(r), ask[r])) = Len(Base(r)) + 1
  BY <1>4, AppendProperties
<1>7. offset[q] = Len(Base(r))
  BY <1>3, <1>4, <1>5, <1>6
<1>8. Len(journal) >= Len(Base(r)) + 1
  BY <1>3, <1>4, <1>7
<1> QED
  BY <1>3, <1>7, <1>8 DEF Says

\* A step of a run keeps what holds of it: up to the plan.
LEMMA OwnPreparation ==
    ASSUME IInv, NEW r \in Runs,
           Submit(r) \/ CheckIdempotency(r) \/ Validate(r) \/ Plan(r) \/ TakeLock(r)
    PROVE  RunOK(r)'
<1>1. /\ RunOK(r) /\ TypeOK /\ Len(journal) \in Nat /\ Len(Token(journal)) = Len(journal)
      /\ Token(journal) \in Seq(Bodies) /\ Len(Base(r)) \in Nat
  BY Ranges DEF IInv
<1>2. /\ pc[r] \in Clean /\ effect[r] = NoEffect /\ outcome[r] = "none"
      /\ wrote[r] = "nothing" /\ Says(r, "rejected")
  BY Before DEF Submit, CheckIdempotency, Validate, Plan, TakeLock, Clean
<1>3. ASSUME NEW step \in Clean, pc'[r] = step, UNCHANGED <<effect, outcome, wrote>>
      PROVE  Ordered(r)' /\ Traced(r)' /\ Truthful(r)'
  <2>1. Ordered(r)' /\ Traced(r)'
    BY <1>2, <1>3 DEF Ordered, Traced, Clean
  <2> QED
    BY <1>2, <1>3, <2>1, Silent
<1>4. CASE Submit(r)
  <2>1. /\ pc'[r] = "check" /\ pc[r] = "start" /\ UNCHANGED <<effect, outcome, wrote, ask>>
        /\ ask[r].action = "open" => head'[r] = head[r]
        /\ ask[r].action # "open" => \E n \in 0..Len(journal) :
                                        head'[r] = SubSeq(Token(journal), 1, n)
    BY <1>1, <1>4 DEF Submit, Go, TypeOK, memory
  <2>2. ask[r].action # "open" => head'[r] # NoHead
    <3>1. NoHead \notin Seq(Bodies)
      BY JournalConstants
    <3>2. \A n \in 0..Len(journal) : SubSeq(Token(journal), 1, n) \in Seq(Bodies)
      BY <1>1, Prefix
    <3> QED
      BY <2>1, <3>1, <3>2
  <2>3. Asked(r)' /\ Planned(r)' /\ InHand(r)'
    BY <1>1, <2>1, <2>2 DEF RunOK, Asked, Planned, InHand, Locked
  <2> QED
    BY <1>3, <2>1, <2>3 DEF RunOK, Clean
<1>5. CASE CheckIdempotency(r)
  <2>1. CASE Judge(r) = "proceed" /\ Go(r, "validate") /\ UNCHANGED outcome
    <3>1. pc'[r] = "validate" /\ pc[r] = "check" /\ UNCHANGED <<effect, wrote, request>>
      BY <1>1, <1>5, <2>1 DEF CheckIdempotency, Go, TypeOK
    <3>2. Asked(r)' /\ Planned(r)' /\ InHand(r)'
      BY <1>1, <3>1 DEF RunOK, Asked, Planned, InHand, Locked, request
    <3> QED
      BY <1>3, <2>1, <3>1, <3>2 DEF RunOK, Clean
  <2>2. CASE Judge(r) = "reuse" /\ Decide(r, "reused")
    BY <1>1, <1>5, <2>2, Reused, Decided DEF CheckIdempotency
  <2>3. CASE Decide(r, "rejected")
    BY <1>2, <1>5, <2>3, Decided DEF CheckIdempotency
  <2> QED
    BY <1>5, <2>1, <2>2, <2>3, Verdicts
<1>6. CASE Validate(r)
  <2>1. CASE Valid(r)
    <3>1. /\ pc'[r] = "plan" /\ pc[r] = "validate"
          /\ UNCHANGED <<effect, outcome, wrote, request, stream>>
      BY <1>1, <1>6, <2>1 DEF Validate, Go, TypeOK
    <3>2. Base(r)' = Base(r)
      BY <3>1 DEF Base, request
    <3>3. /\ May(ask[r], Base(r))
          /\ ask[r].action = "correction" => TargetIn(ask[r], Base(r))
          /\ Len(Base(r)) <= Len(journal)
      <4>1. CASE head[r] = NoHead
        <5>1. ask[r].action = "open" /\ Base(r) = <<>>
          BY <1>1, <3>1, <4>1 DEF RunOK, Asked, Base
        <5> QED
          BY <1>1, <5>1, EmptySeq DEF May
      <4>2. CASE head[r] # NoHead
        BY <1>1, <2>1, <4>2 DEF Valid, Base
      <4> QED
        BY <4>1, <4>2
    <3>4. Asked(r)' /\ Planned(r)' /\ InHand(r)'
      BY <1>1, <3>1, <3>2, <3>3
      DEF RunOK, Asked, Planned, InHand, Locked, request, stream
    <3> QED
      BY <1>3, <3>1, <3>4 DEF RunOK, Clean
  <2>2. CASE ~Valid(r)
    BY <1>2, <1>6, <2>2, Decided DEF Validate
  <2> QED
    BY <2>1, <2>2
<1>7. CASE Plan(r)
  <2>1. CASE Decide(r, "rejected") /\ UNCHANGED sequence
    BY <1>2, <1>7, <2>1, Decided DEF Plan
  <2>2. CASE /\ sequence' = [sequence EXCEPT ![r] = Len(Existing(r)) + 1]
             /\ Go(r, "lock") /\ UNCHANGED outcome
    <3>1. /\ pc'[r] = "lock" /\ pc[r] = "plan" /\ sequence'[r] = Len(Existing(r)) + 1
          /\ UNCHANGED <<effect, wrote, request, stream>>
      BY <1>1, <1>7, <2>2 DEF Plan, Go, TypeOK
    <3>2. Base(r)' = Base(r)
      BY <3>1 DEF Base, request
    <3>3. /\ May(ask[r], Base(r))
          /\ ask[r].action = "correction" => TargetIn(ask[r], Base(r))
          /\ Len(Base(r)) <= Len(journal)
      BY <1>1, <3>1 DEF RunOK, Planned
    <3>4. Len(Base(r)) + 1 <= sequence'[r] /\ sequence'[r] <= Len(journal) + 1
      <4>1. Len(Existing(r)) \in Nat
            /\ Len(Base(r)) <= Len(Existing(r)) /\ Len(Existing(r)) <= Len(journal)
        BY <1>1, <3>3, EmptySeq DEF Existing, Base
      <4> QED
        BY <1>1, <3>1, <4>1
    <3>5. Asked(r)' /\ Planned(r)' /\ InHand(r)'
      BY <1>1, <3>1, <3>2, <3>3, <3>4
      DEF RunOK, Asked, Planned, InHand, Locked, request, stream
    <3> QED
      BY <1>3, <2>2, <3>1, <3>5 DEF RunOK, Clean
  <2> QED
    BY <1>7, <2>1, <2>2 DEF Plan
<1>8. CASE TakeLock(r)
  <2>1. /\ pc'[r] = "observe" /\ pc[r] = "lock" /\ lock' = r
        /\ UNCHANGED <<effect, outcome, sequence, wrote, request, stream>>
    BY <1>1, <1>8 DEF TakeLock, Go, TypeOK, memory
  <2>2. Base(r)' = Base(r)
    BY <2>1 DEF Base, request
  <2>3. Asked(r)' /\ Planned(r)' /\ InHand(r)'
    BY <1>1, <2>1, <2>2 DEF RunOK, Asked, Planned, InHand, Locked, request, stream
  <2> QED
    BY <1>3, <2>1, <2>3 DEF RunOK, Clean
<1> QED
  BY <1>4, <1>5, <1>6, <1>7, <1>8

\* A step of a run keeps what holds of it: under the root lock, and after.
LEMMA OwnEffect ==
    ASSUME IInv, NEW r \in Runs,
           \/ Observe(r) \/ Open(r) \/ Write(r) \/ Fill(r) \/ ReadBack(r)
           \/ PostOperation(r)
    PROVE  RunOK(r)'
<1>1. /\ RunOK(r) /\ TypeOK /\ JournalIsSound /\ Len(journal) \in Nat
      /\ Len(Token(journal)) = Len(journal) /\ Token(journal) \in Seq(Bodies)
      /\ journal \in Seq(Records) /\ Len(Base(r)) \in Nat /\ sequence[r] \in Nat
      /\ Record(r) \in Records /\ Token(journal) = <<>> <=> journal = <<>>
  BY Ranges, TokenFacts DEF IInv
<1>2. pc[r] \in Locked => effect[r] = NoEffect /\ outcome[r] = "none"
  BY Before
<1>3. CASE Observe(r)
  <2>0. wrote[r] = "nothing" /\ pc[r] \in Locked /\ pc[r] = "observe"
    BY <1>1, <1>3 DEF Observe, RunOK, Traced, Clean, Locked
  <2>1. CASE Matches(r)
    <3>1. /\ pc'[r] = "open" /\ offset'[r] = Len(journal)
          /\ UNCHANGED <<lock, effect, outcome, sequence, wrote, request, stream>>
      BY <1>1, <1>3, <2>1 DEF Observe, Go, TypeOK
    <3>2. /\ Token(journal) = Base(r) /\ ~torn /\ (head[r] = NoHead => ~present)
          /\ lock = r
      BY <1>1, <2>0, <2>1 DEF Matches, Base, JournalIsSound, RunOK, InHand
    <3>3. Base(r)' = Base(r)
      BY <3>1 DEF Base, request
    <3>4. Asked(r)' /\ Planned(r)'
      BY <1>1, <2>0, <3>1, <3>3 DEF RunOK, Asked, Planned, request, stream
    <3>5. InHand(r)'
      BY <3>1, <3>2, <3>3 DEF InHand, request, stream
    <3>6. Ordered(r)' /\ Traced(r)' /\ Truthful(r)'
      BY <1>2, <2>0, <3>1, Silent DEF Ordered, Traced, Clean
    <3> QED
      BY <3>4, <3>5, <3>6 DEF RunOK
  <2>2. CASE ~Matches(r)
    <3>1. Finish(r, "failed_no_effect", ~torn)
      BY <1>3, <2>2, Zenon DEF Observe
    <3> QED
      BY <1>3, <2>0, <2>2, <3>1, Finished DEF Observe, EffectStatuses
  <2> QED
    BY <2>1, <2>2
<1>4. CASE Open(r)
  <2>1. /\ pc[r] = "open" /\ pc'[r] = "write" /\ present' = TRUE
        /\ wrote'[r] \in {"nothing", "file"}
        /\ UNCHANGED <<journal, torn, lock, effect, outcome, sequence, offset, request>>
    BY <1>1, <1>4 DEF Open, Go, TypeOK, memory, RunOK, Traced, Clean
  <2>2. Base(r)' = Base(r)
    BY <2>1 DEF Base, request
  <2>3. Asked(r)' /\ Planned(r)'
    BY <1>1, <2>1, <2>2 DEF RunOK, Asked, Planned, request
  <2>4. InHand(r)'
    BY <1>1, <2>1, <2>2 DEF RunOK, InHand, Locked
  <2>5. sequence[r] # 0
    <3>1. Len(Base(r)) + 1 <= sequence[r]
      BY <1>1, <2>1 DEF RunOK, Planned
    <3> QED
      BY <1>1, <3>1
  <2>6. Ordered(r)' /\ Traced(r)' /\ Truthful(r)'
    BY <1>2, <2>1, <2>5, Silent DEF Ordered, Traced, Clean, Locked
  <2> QED
    BY <2>3, <2>4, <2>6 DEF RunOK
<1>5. CASE Write(r)
  <2>1. /\ pc[r] = "write" /\ pc'[r] = "fill" /\ wrote'[r] = "part"
        /\ UNCHANGED <<present, journal, lock, effect, outcome, sequence, offset, request>>
    BY <1>1, <1>5 DEF Write, Go, TypeOK, memory
  <2>2. Base(r)' = Base(r)
    BY <2>1 DEF Base, request
  <2>3. Asked(r)' /\ Planned(r)'
    BY <1>1, <2>1, <2>2 DEF RunOK, Asked, Planned, request
  <2>4. InHand(r)'
    BY <1>1, <2>1, <2>2 DEF RunOK, InHand, Locked
  <2>5. sequence[r] # 0
    <3>1. Len(Base(r)) + 1 <= sequence[r]
      BY <1>1, <2>1 DEF RunOK, Planned
    <3> QED
      BY <1>1, <3>1
  <2>6. Ordered(r)' /\ Traced(r)' /\ Truthful(r)'
    BY <1>2, <2>1, <2>5, Silent DEF Ordered, Traced, Clean, Locked
  <2> QED
    BY <2>3, <2>4, <2>6 DEF RunOK
<1>6. CASE Fill(r)
  <2>1. /\ pc[r] = "fill" /\ pc'[r] = "readback" /\ wrote'[r] = "record"
        /\ journal' = Append(journal, Record(r))
        /\ UNCHANGED <<present, lock, effect, outcome, sequence, offset, request>>
    BY <1>1, <1>6 DEF Fill, Go, TypeOK, memory
  <2>2. Base(r)' = Base(r) /\ Record(r)' = Record(r)
    BY <2>1 DEF Base, Record, request
  <2>3. Token(journal) = Base(r) /\ offset[r] = Len(journal) /\ lock = r
    BY <1>1, <2>1 DEF RunOK, InHand, Locked
  <2>4. InPlace(r)'
    <3>1. /\ Len(journal') = Len(journal) + 1 /\ journal'[Len(journal) + 1] = Record(r)
      BY <1>1, <2>1, AppendProperties
    <3>2. Len(journal) \in 0..Len(journal)
      BY <1>1
    <3>3. SubSeq(Token(journal)', 1, Len(journal)) = SubSeq(Token(journal), 1, Len(journal))
      BY <1>1, <1>6, <3>2, Growth DEF Act, Step
    <3>4. SubSeq(Token(journal), 1, Len(journal)) = Token(journal)
      BY <1>1, SubSeqFull
    <3>5. Len(journal)' > offset[r]
      BY <1>1, <2>3, <3>1
    <3> QED
      BY <2>1, <2>2, <2>3, <3>1, <3>3, <3>4, <3>5 DEF InPlace
  <2>5. Asked(r)' /\ Planned(r)' /\ InHand(r)'
    BY <1>1, <2>1, <2>3, <2>4 DEF RunOK, Asked, Planned, InHand, request
  <2>6. sequence[r] # 0
    <3>1. Len(Base(r)) + 1 <= sequence[r]
      BY <1>1, <2>1 DEF RunOK, Planned
    <3> QED
      BY <1>1, <3>1
  <2>7. Ordered(r)' /\ Traced(r)' /\ Truthful(r)'
    BY <1>2, <2>1, <2>6, Silent DEF Ordered, Traced, Clean, Locked
  <2> QED
    BY <2>5, <2>7 DEF RunOK
<1>7. CASE ReadBack(r)
  <2>1. wrote[r] = "record" /\ InPlace(r) /\ pc[r] \in Locked
    BY <1>1, <1>7 DEF ReadBack, RunOK, Traced, InHand, Locked
  <2> QED
    BY <1>7, <2>1, Finished DEF ReadBack, EffectStatuses
<1>8. CASE PostOperation(r)
  <2>1. /\ effect[r].status \in EffectStatuses /\ Says(r, effect[r].status)
        /\ pc[r] # "start"
    BY <1>1, <1>8, EffectStatus DEF PostOperation, RunOK, Truthful
  <2>2. PICK verified \in BOOLEAN : Decide(r, TerminalStatus(effect[r].status, verified))
    BY <1>8 DEF PostOperation
  <2>3. Says(r, TerminalStatus(effect[r].status, verified))
    BY <2>1, StatusSays
  <2> QED
    BY <1>8, <2>1, <2>2, <2>3, Decided DEF PostOperation
<1> QED
  BY <1>3, <1>4, <1>5, <1>6, <1>7, <1>8

-----------------------------------------------------------------------------
(* The journal                                                              *)

\* Replayable, for one record.
Fits(s, i) ==
    LET before == SubSeq(Token(s), 1, i - 1) IN
    /\ s[i].sequence = i
    /\ s[i].previous = HeadAfter(Token(s), i - 1)
    /\ s[i].body.action = "open" <=> i = 1
    /\ s[i].body.action \in {"event", "close"} => StateOf(before) = "open"

\* A record that is about to be written is the next one of the stream that is
\* there now, whatever stream it was planned on.
LEMMA NextRecord ==
    ASSUME IInv, NEW r \in Runs, pc[r] \in {"open", "write", "fill"}
    PROVE  /\ Token(journal) = Base(r) /\ sequence[r] = Len(journal) + 1
           /\ head[r] = HeadAfter(Base(r), Len(journal))
           /\ ask[r].action = "open" <=> journal = <<>>
           /\ ask[r].action \in {"event", "close"} => StateOf(Base(r)) = "open"
           /\ ask[r].action = "correction" => TargetIn(ask[r], Base(r))
<1>1. /\ RunOK(r) /\ Len(journal) \in Nat /\ Len(Token(journal)) = Len(journal)
      /\ Token(journal) \in Seq(Bodies) /\ sequence[r] \in Nat /\ ask[r] \in Bodies
      /\ Token(journal) = <<>> <=> journal = <<>> /\ journal \in Seq(Records)
  BY Ranges, TokenFacts DEF IInv
<1>2. /\ Token(journal) = Base(r) /\ May(ask[r], Base(r))
      /\ ask[r].action = "correction" => TargetIn(ask[r], Base(r))
      /\ Len(Base(r)) + 1 <= sequence[r] /\ sequence[r] <= Len(journal) + 1
      /\ ask[r].action = "open" <=> head[r] = NoHead
  BY <1>1 DEF RunOK, Asked, Planned, InHand
<1>3. sequence[r] = Len(journal) + 1
  BY <1>1, <1>2
<1>4. ask[r].action \in Actions
  BY <1>1, JournalConstants
<1>5. CASE head[r] = NoHead
  <2>1. Base(r) = <<>> /\ Len(journal) = 0 /\ journal = <<>>
    BY <1>1, <1>2, <1>5, EmptySeq DEF Base
  <2> QED
    BY <1>2, <1>3, <1>5, <2>1 DEF HeadAfter
<1>6. CASE head[r] # NoHead
  <2>1. ask[r].action \in {"event", "close", "correction"}
    BY <1>2, <1>4, <1>6 DEF Actions
  <2>2. StateOf(Base(r)) # "absent"
    BY <1>2, <2>1 DEF May
  <2>3. Base(r) # <<>>
    BY <2>2 DEF StateOf
  <2>4. Len(journal) # 0
    BY <1>1, <1>2, <2>3, EmptySeq
  <2>5. SubSeq(Base(r), 1, Len(journal)) = Base(r)
    BY <1>1, <1>2, SubSeqFull
  <2>6. head[r] = HeadAfter(Base(r), Len(journal))
    BY <1>6, <2>4, <2>5 DEF HeadAfter, Base
  <2>7. ask[r].action \in {"event", "close"} => StateOf(Base(r)) = "open"
    BY <1>2 DEF May
  <2> QED
    BY <1>1, <1>2, <1>3, <1>6, <2>3, <2>6, <2>7
<1> QED
  BY <1>5, <1>6

LEMMA SoundKept ==
    ASSUME IInv, NEW r \in Runs, Act(r)
    PROVE  JournalIsSound'
<1>1. TypeOK /\ Replayable(journal) /\ (journal # <<>> => present)
  BY DEF IInv, JournalIsSound
<1>2. CASE UNCHANGED stream \/ Open(r) \/ Write(r)
  <2>1. journal' = journal /\ (present => present')
    BY <1>2 DEF stream, Open, Write
  <2> QED
    BY <1>1, <2>1 DEF JournalIsSound, Replayable
<1>3. CASE Fill(r)
  <2> DEFINE n == Len(journal)
  <2>1. /\ n \in Nat /\ journal \in Seq(Records) /\ Record(r) \in Records
        /\ Token(journal) \in Seq(Bodies) /\ Len(Token(journal)) = n
        /\ journal' = Append(journal, Record(r)) /\ pc[r] = "fill" /\ present' = present
    BY <1>1, <1>3, Ranges DEF Fill
  <2>2. /\ journal' \in Seq(Records) /\ Len(journal') = n + 1
        /\ journal'[n + 1] = Record(r)
        /\ \A i \in 1..n : journal'[i] = journal[i]
    BY <2>1, AppendProperties
  <2>3. DOMAIN journal' = 1..(n + 1) /\ DOMAIN journal = 1..n
    BY <2>1, <2>2, LenProperties
  <2>4. \A i \in 0..n : /\ SubSeq(Token(journal'), 1, i) = SubSeq(Token(journal), 1, i)
                        /\ HeadAfter(Token(journal'), i) = HeadAfter(Token(journal), i)
    <3>1. \A i \in 0..n : SubSeq(Token(journal'), 1, i) = SubSeq(Token(journal), 1, i)
      BY <1>1, <1>3, Growth DEF Act, Step
    <3> QED
      BY <3>1 DEF HeadAfter
  <2>5. SubSeq(Token(journal), 1, n) = Token(journal)
    BY <2>1, SubSeqFull
  <2>6. ASSUME NEW i \in 1..n
        PROVE  Fits(journal', i)
    <3>1. i - 1 \in 0..n
      BY <2>1
    <3>2. Fits(journal, i)
      BY <1>1, <2>3 DEF Replayable, Fits
    <3> QED
      BY <2>2, <2>4, <3>1, <3>2 DEF Fits
  <2>7. Fits(journal', n + 1)
    <3>1. n \in 0..n /\ (n = 0 <=> journal = <<>>)
      BY <2>1, EmptySeq
    <3>2. PICK m \in Nat : m = n + 1
      BY <2>1
    <3>3. m - 1 = n /\ (m = 1 <=> n = 0)
      BY <2>1, <3>2
    <3>4. /\ SubSeq(Token(journal'), 1, m - 1) = Token(journal)
          /\ HeadAfter(Token(journal'), m - 1) = HeadAfter(Token(journal), n)
      BY <2>4, <2>5, <3>1, <3>3
    <3>5. /\ Record(r).sequence = m /\ Record(r).body = ask[r]
          /\ Record(r).previous = HeadAfter(Token(journal), n)
          /\ ask[r].action = "open" <=> m = 1
          /\ ask[r].action \in {"event", "close"} => StateOf(Token(journal)) = "open"
      BY <2>1, <3>1, <3>2, <3>3, NextRecord DEF Record
    <3>6. journal'[m] = Record(r)
      BY <2>2, <3>2
    <3>7. Fits(journal', m)
      BY <3>4, <3>5, <3>6, Zenon DEF Fits
    <3> QED
      BY <3>2, <3>7
  <2>8. \A i \in DOMAIN journal' : Fits(journal', i)
    <3>1. \A i \in 1..(n + 1) : i \in 1..n \/ i = n + 1
      BY <2>1
    <3> QED
      BY <2>3, <2>6, <2>7, <3>1
  <2>9. Replayable(journal)'
    BY <2>8 DEF Replayable, Fits
  <2>10. present
    BY <2>1 DEF IInv, RunOK, InHand
  <2> QED
    BY <2>1, <2>9, <2>10 DEF JournalIsSound
<1> QED
  BY <1>2, <1>3, StreamFrame

-----------------------------------------------------------------------------
(* The runs of a key                                                        *)

\* A run gets the lock of its key from the others, and plans and writes under it.
LEMMA KeyFrame ==
    ASSUME TypeOK, NEW r \in Runs, Act(r)
    PROVE  /\ pc'[r] \in Holding =>
                 \/ pc[r] \in Holding
                 \/ CheckIdempotency(r) /\ Judge(r) = "proceed"
           /\ sequence' = sequence \/ pc[r] = "plan"
           /\ wrote' = wrote \/ pc[r] \in {"open", "write", "fill"}
<1> USE DEF TypeOK, request, memory, Go
<1>1. ASSUME NEW status, Decide(r, status)
      PROVE  pc'[r] = "done"
  BY <1>1 DEF Decide
<1>2. CASE Submit(r)
  BY <1>2 DEF Submit, Holding, Locked
<1>3. CASE Failure(r)
  <2>1. sequence' = sequence /\ wrote' = wrote
    BY <1>3 DEF Failure, Raise, CooperativeFails, WriteFails, FillFails, ReadBackFails,
                FinalizationFails, Crash
  <2>2. pc'[r] \in Holding => pc[r] \in Holding
    <3>1. pc[r] \in {"start", "check"} \cup Ended \/ pc[r] \in Holding
      BY DEF Steps, Holding, Locked
    <3>2. CASE Raise(r)
      BY <1>1, <3>2 DEF Raise, Holding, Locked
    <3>3. CASE Crash(r)
      BY <3>3 DEF Crash, Holding, Locked
    <3>4. CASE ~Raise(r) /\ ~Crash(r)
      BY <1>3, <3>4 DEF Failure, CooperativeFails, WriteFails, FillFails, ReadBackFails,
                        FinalizationFails, Holding, Locked
    <3> QED
      BY <3>2, <3>3, <3>4
  <2> QED
    BY <2>1, <2>2
<1>4. CASE Step(r)
  <2>1. CASE CheckIdempotency(r)
    <3>1. sequence' = sequence /\ wrote' = wrote
      BY <2>1 DEF CheckIdempotency
    <3>2. Judge(r) = "proceed" \/ pc'[r] = "done"
      BY <1>1, <2>1, Verdicts
    <3> QED
      BY <2>1, <3>1, <3>2 DEF Holding, Locked
  <2>2. CASE ~CheckIdempotency(r)
    <3>1. pc[r] \in Holding
      BY <1>4, <2>2 DEF Step, Validate, Plan, TakeLock, Observe, Open, Write, Fill,
                        ReadBack, PostOperation, Holding, Locked
    <3>2. sequence' = sequence \/ pc[r] = "plan"
      BY <1>4, <2>2 DEF Step, Validate, Plan, TakeLock, Observe, Open, Write, Fill,
                        ReadBack, PostOperation
    <3>3. wrote' = wrote \/ pc[r] \in {"open", "write", "fill"}
      BY <1>4, <2>2 DEF Step, Validate, Plan, TakeLock, Observe, Open, Write, Fill,
                        ReadBack, PostOperation
    <3> QED
      BY <3>1, <3>2, <3>3
  <2> QED
    BY <2>1, <2>2
<1> QED
  BY <1>2, <1>3, <1>4 DEF Act

LEMMA KeysKept ==
    ASSUME IInv, NEW r \in Runs, Act(r)
    PROVE  Exclusive' /\ AppendsOnce'
<1>1. /\ TypeOK /\ Exclusive /\ AppendsOnce
      /\ \A s \in Runs : SameKey(s, r)' = SameKey(s, r) /\ SameKey(r, s)' = SameKey(r, s)
      /\ \A s \in Runs \ {r} : /\ pc'[s] = pc[s] /\ sequence'[s] = sequence[s]
                               /\ wrote'[s] = wrote[s]
  BY Frame DEF IInv, SameKey
<1>2. ask' = ask /\ home' = home
  BY <1>1, Frame
<1>3. ASSUME NEW s \in Runs \ {r}, SameKey(s, r), pc'[r] \in Holding
      PROVE  pc[s] \notin Holding /\ sequence[s] = 0
  <2>1. CASE pc[r] \in Holding
    BY <1>1, <1>3, <2>1 DEF Exclusive
  <2>2. CASE CheckIdempotency(r) /\ Judge(r) = "proceed"
    <3>1. pc[s] \in {"start", "check"} \cup Ended
      BY <1>3, <2>2 DEF CheckIdempotency
    <3>2. Priors(r) = {}
      BY <2>2 DEF Judge
    <3>3. sequence[s] \in Nat /\ ~(sequence[s] > 0)
      BY <1>1, <1>3, <3>2 DEF Priors, TypeOK
    <3> QED
      BY <3>1, <3>3 DEF Holding, Locked, Ended
  <2> QED
    BY <1>1, <1>3, <2>1, <2>2, KeyFrame
<1>4. ASSUME NEW s \in Runs \ {r}, SameKey(r, s), pc[s] \in Holding
      PROVE  pc'[r] \notin Holding /\ sequence'[r] = 0
  <2>1. pc[r] \notin Holding /\ sequence[r] = 0
    BY <1>1, <1>4 DEF Exclusive
  <2>2. sequence' = sequence
    BY <1>1, <2>1, KeyFrame DEF Holding
  <2>3. SameKey(s, r)
    BY <1>4 DEF SameKey
  <2>4. pc'[r] \notin Holding
    BY <1>3, <1>4, <2>3
  <2> QED
    BY <2>1, <2>2, <2>4
<1>5. Exclusive'
  <2> SUFFICES ASSUME NEW q \in Runs, NEW s \in Runs, q # s, SameKey(q, s), pc'[s] \in Holding
               PROVE  pc'[q] \notin Holding /\ sequence'[q] = 0
    BY <1>2 DEF Exclusive, SameKey
  <2>1. CASE s = r
    BY <1>1, <1>3, <2>1
  <2>2. CASE q = r
    BY <1>1, <1>4, <2>2
  <2>3. CASE s # r /\ q # r
    BY <1>1, <2>3 DEF Exclusive
  <2> QED
    BY <2>1, <2>2, <2>3
<1>6. ASSUME NEW s \in Runs \ {r}, SameKey(s, r), wrote' # wrote
      PROVE  wrote[s] = "nothing"
  <2>1. pc[r] \in Holding
    BY <1>1, <1>6, KeyFrame DEF Holding, Locked
  <2>2. sequence[s] = 0
    BY <1>1, <1>6, <2>1 DEF Exclusive
  <2> QED
    BY <2>2 DEF IInv, RunOK, Traced
<1>7. AppendsOnce'
  <2> SUFFICES ASSUME NEW q \in Runs, NEW s \in Runs, q # s, SameKey(q, s),
                      wrote'[q] = "record", wrote'[s] = "record"
               PROVE  FALSE
    BY <1>2 DEF AppendsOnce, SameKey
  <2>1. wrote' # wrote
    BY <1>1 DEF AppendsOnce
  <2>2. CASE s = r
    BY <1>1, <1>6, <2>1, <2>2
  <2>3. CASE q = r
    <3>1. SameKey(s, r)
      BY <2>3 DEF SameKey
    <3> QED
      BY <1>1, <1>6, <2>1, <2>3, <3>1
  <2>4. CASE s # r /\ q # r
    BY <1>1, <2>4 DEF AppendsOnce
  <2> QED
    BY <2>2, <2>3, <2>4
<1> QED
  BY <1>5, <1>7

-----------------------------------------------------------------------------
(* The log                                                                  *)

\* Only a run that opens the stream begins to write, and only a stream that is
\* whole and not empty, or that does not exist, is opened.
LEMMA WritingFrame ==
    ASSUME TypeOK, NEW r \in Runs, Act(r), pc'[r] \in {"write", "fill"}
    PROVE  Open(r) \/ Write(r)
<1> USE DEF TypeOK, Go
<1>1. ASSUME NEW status, Decide(r, status)
      PROVE  pc'[r] = "done"
  BY <1>1 DEF Decide
<1>2. ASSUME NEW status, NEW known, Finish(r, status, known)
      PROVE  pc'[r] = "post"
  BY <1>2 DEF Finish
<1>3. ~Submit(r)
  BY DEF Submit
<1>4. ~Failure(r)
  <2>1. ~Raise(r) /\ ~FinalizationFails(r) /\ ~Crash(r)
    BY <1>1 DEF Raise, FinalizationFails, Crash
  <2>2. ~CooperativeFails(r) /\ ~WriteFails(r) /\ ~FillFails(r) /\ ~ReadBackFails(r)
    BY <1>2 DEF CooperativeFails, WriteFails, FillFails, ReadBackFails
  <2> QED
    BY <2>1, <2>2 DEF Failure
<1>5. ~CheckIdempotency(r)
  BY <1>1, Verdicts
<1>6. ~Validate(r) /\ ~Plan(r) /\ ~TakeLock(r) /\ ~PostOperation(r) /\ ~Fill(r)
  BY <1>1 DEF Validate, Plan, TakeLock, PostOperation, Fill
<1>7. ~Observe(r) /\ ~ReadBack(r)
  BY <1>2 DEF Observe, ReadBack
<1> QED
  BY <1>3, <1>4, <1>5, <1>6, <1>7 DEF Act, Step

LEMMA SealedStays ==
    ASSUME IInv, NEW r \in Runs, Act(r), ~Fill(r), Sealed
    PROVE  Sealed'
<1>1. TypeOK /\ RunOK(r) /\ ~Writing
  BY DEF IInv, Sealed
<1>2. journal' = journal /\ (torn => torn') /\ (present => present')
  BY StreamFrame DEF stream, Open, Write
<1>3. SUFFICES ASSUME Writing'
               PROVE  FALSE
  BY <1>2 DEF Sealed
<1>4. PICK s \in Runs : pc'[s] \in {"write", "fill"}
  BY <1>3 DEF Writing
<1>5. CASE s # r
  BY <1>1, <1>4, <1>5, Frame DEF Writing
<1>6. CASE s = r
  <2>1. Open(r)
    <3>1. ~Write(r)
      BY <1>1 DEF Write, Writing
    <3> QED
      BY <1>1, <1>4, <1>6, <3>1, WritingFrame
  <2>2. pc[r] = "open" /\ ~torn /\ (head[r] = NoHead => ~present)
    BY <1>1, <2>1 DEF Open, RunOK, InHand
  <2>3. present /\ journal = <<>>
    BY <2>2 DEF Sealed
  <2>4. ask[r].action = "open"
    BY <2>2, <2>3, NextRecord
  <2> QED
    BY <1>1, <2>2, <2>3, <2>4 DEF RunOK, Asked
<1> QED
  BY <1>5, <1>6

\* A record that is completed is one that the log takes.
LEMMA FillAppends ==
    ASSUME IInv, NEW r \in Runs, Fill(r)
    PROVE  Log!Next
<1> DEFINE t == Token(journal)
           b == ask[r]
<1>1. /\ pc[r] = "fill" /\ TypeOK /\ journal' = Append(journal, Record(r)) /\ torn' = FALSE
      /\ journal \in Seq(Records) /\ Record(r) \in Records /\ b \in Bodies
      /\ t \in Seq(Bodies) /\ Len(t) = Len(journal) /\ Len(journal) \in Nat
      /\ DOMAIN t = 1..Len(journal) /\ (t = <<>> <=> journal = <<>>)
      /\ \A i \in 1..Len(journal) : t[i] = journal[i].body
  BY Ranges, TokenFacts DEF Fill, IInv
<1>2. /\ t = Base(r) /\ (b.action = "open" <=> journal = <<>>)
      /\ b.action \in {"event", "close"} => StateOf(t) = "open"
      /\ b.action = "correction" => TargetIn(b, t)
  BY <1>1, NextRecord
<1>3. Log!Append1(b)
  <2>1. Token(journal)' = Append(t, b)
    BY <1>1, TokenOfAppend DEF Record
  <2>2. Sealed = FALSE
    BY <1>1 DEF Sealed, Writing
  <2>3. Sealed' = FALSE
    BY <1>1, AppendProperties DEF Sealed
  <2> QED
    BY <2>1, <2>2, <2>3 DEF Log!Append1
<1>4. journal # <<>> => Log!Did("open")
  <2> SUFFICES ASSUME journal # <<>>
               PROVE  Log!Did("open")
    OBVIOUS
  <2>1. 1 \in 1..Len(journal)
    BY <1>1, EmptySeq
  <2>2. journal[1].body.action = "open"
    BY <1>1, <2>1, LenProperties DEF IInv, JournalIsSound, Replayable
  <2> QED
    BY <1>1, <2>1, <2>2 DEF Log!Did
<1>5. StateOf(t) = "open" => ~Log!Did("close")
  BY DEF StateOf, Log!Did
<1>6. CASE b.action = "open"
  <2>1. ~Log!Did("open")
    BY <1>1, <1>2, <1>6, EmptySeq DEF Log!Did
  <2>2. Log!Open(b)
    BY <1>3, <1>6, <2>1 DEF Log!Open
  <2> QED
    BY <1>1, <2>2 DEF Log!Next
<1>7. CASE b.action \in {"event", "close"}
  <2>1. Log!Event(b) \/ Log!Close(b)
    BY <1>2, <1>3, <1>4, <1>5, <1>7 DEF Log!Event, Log!Close
  <2> QED
    BY <1>1, <2>1 DEF Log!Next
<1>8. CASE b.action = "correction"
  <2>1. Log!Correct(b)
    BY <1>2, <1>3, <1>8 DEF TargetIn, Log!Correct
  <2> QED
    BY <1>1, <2>1 DEF Log!Next
<1> QED
  BY <1>1, <1>6, <1>7, <1>8, JournalConstants DEF Actions

-----------------------------------------------------------------------------
(* Theorems                                                                 *)

\* The stream of an earlier journal can be replayed, and its token is the
\* journal.
LEMMA RecordedFacts ==
    ASSUME NEW bs \in Journals
    PROVE  /\ Recorded(bs) \in Seq(Records) /\ Token(Recorded(bs)) = bs
           /\ Replayable(Recorded(bs))
<1> DEFINE s == Recorded(bs)
<1>1. bs \in Seq(Bodies)
  BY JournalConstants
<1>2. /\ Len(bs) \in Nat /\ DOMAIN bs = 1..Len(bs) /\ bs \in [1..Len(bs) -> Bodies]
      /\ \A i \in 1..Len(bs) : bs[i] \in Bodies
  BY <1>1, LenProperties
<1>3. \A i \in 1..Len(bs) : HeadAfter(bs, i - 1) \in Heads
  <2>1. ASSUME NEW i \in 1..Len(bs)
        PROVE  SubSeq(bs, 1, i - 1) \in Seq(Bodies)
    <3>1. i - 1 \in 0..Len(bs)
      BY <1>2
    <3> QED
      BY <1>1, <3>1, Prefix
  <2> QED
    BY <2>1 DEF HeadAfter, Heads
<1>4. \A i \in 1..Len(bs) : s[i] = [body |-> bs[i], sequence |-> i,
                                     previous |-> HeadAfter(bs, i - 1)]
  BY <1>2 DEF Recorded
<1>5. \A i \in 1..Len(bs) : s[i] \in Records
  <2> HIDE DEF s
  <2> SUFFICES ASSUME NEW i \in 1..Len(bs)
               PROVE  s[i] \in Records
    OBVIOUS
  <2>1. i \in Nat /\ bs[i] \in Bodies /\ HeadAfter(bs, i - 1) \in Heads
    BY <1>2, <1>3
  <2>2. [body |-> bs[i], sequence |-> i, previous |-> HeadAfter(bs, i - 1)] \in Records
    BY <2>1 DEF Records
  <2> QED
    BY <1>4, <2>2
<1>6. s \in [1..Len(bs) -> Records]
  BY <1>2, <1>5 DEF Recorded
<1>7. s \in Seq(Records) /\ DOMAIN s = 1..Len(bs)
  BY <1>2, <1>6, SeqDef
<1>8. Token(s) = bs
  <2>1. Token(s) = [i \in 1..Len(bs) |-> bs[i]]
    BY <1>4, <1>7 DEF Token
  <2> QED
    BY <1>2, <2>1
<1>9. \A i \in 1..Len(bs) :
         /\ bs[i].action = "open" <=> i = 1
         /\ May(bs[i], SubSeq(bs, 1, i - 1))
  BY <1>2, JournalConstants
<1>10. Replayable(s)
  <2> HIDE DEF s
  <2> SUFFICES ASSUME NEW i \in 1..Len(bs)
               PROVE  Fits(s, i)
    BY <1>7 DEF Replayable, Fits
  <2>1. /\ s[i].sequence = i /\ s[i].previous = HeadAfter(bs, i - 1) /\ s[i].body = bs[i]
        /\ bs[i].action = "open" <=> i = 1
        /\ bs[i].action \in {"event", "close"} => StateOf(SubSeq(bs, 1, i - 1)) = "open"
    <3>1. s[i] = [body |-> bs[i], sequence |-> i, previous |-> HeadAfter(bs, i - 1)]
      BY <1>4
    <3>2. /\ bs[i].action = "open" <=> i = 1
          /\ bs[i].action \in {"event", "close"} => StateOf(SubSeq(bs, 1, i - 1)) = "open"
      BY <1>9 DEF May
    <3> QED
      BY <3>1, <3>2
  <2> QED
    BY <1>8, <2>1 DEF Fits
<1> QED
  BY <1>7, <1>8, <1>10

LEMMA InitIInv == Init => IInv
<1> SUFFICES ASSUME Init
             PROVE  IInv
  OBVIOUS
<1>1. journal \in Seq(Records) /\ JournalIsSound
  BY RecordedFacts DEF Init, JournalIsSound
<1>2. TypeOK
  <2>1. /\ "start" \in Steps \cup Ended \cup {"start"} /\ NoHead \in Heads
        /\ NoEffect \in EffectReceipts /\ "none" \in Outcomes /\ "nothing" \in Traces
        /\ 0 \in 0..MaxFaults
    BY JournalConstants DEF Heads, EffectReceipts, Outcomes, Traces
  <2> QED
    BY <1>1, <2>1 DEF Init, TypeOK
<1>3. Exclusive /\ AppendsOnce
  BY DEF Init, Exclusive, AppendsOnce, Holding, Locked
<1>4. ASSUME NEW r \in Runs
      PROVE  RunOK(r)
  <2>1. /\ pc[r] = "start" /\ effect[r] = NoEffect /\ outcome[r] = "none"
        /\ head[r] = NoHead /\ wrote[r] = "nothing"
    BY <1>2 DEF Init
  <2> QED
    BY <2>1 DEF RunOK, Ordered, Asked, Planned, InHand, Traced, Truthful, Says, Locked,
                NoEffect
<1> QED
  BY <1>1, <1>2, <1>3, <1>4 DEF IInv

LEMMA NextIInv == IInv /\ [Next]_vars => IInv'
<1> SUFFICES ASSUME IInv, [Next]_vars
             PROVE  IInv'
  OBVIOUS
<1>1. CASE UNCHANGED vars
  <2> USE <1>1 DEF vars, stream, request, memory, IInv
  <2>1. TypeOK' /\ JournalIsSound' /\ Exclusive' /\ AppendsOnce'
    BY DEF TypeOK, JournalIsSound, Replayable, Exclusive, AppendsOnce, SameKey
  <2>2. ASSUME NEW r \in Runs
        PROVE  RunOK(r)'
    <3>1. Base(r)' = Base(r) /\ InPlace(r)' = InPlace(r)
      BY DEF Base, InPlace, Record
    <3>2. Ordered(r)' /\ Asked(r)' /\ Planned(r)' /\ InHand(r)' /\ Traced(r)'
      BY <3>1 DEF RunOK, Ordered, Asked, Planned, InHand, Traced
    <3>3. Truthful(r)'
      BY <3>1 DEF RunOK, Truthful, Says
    <3> QED
      BY <3>2, <3>3 DEF RunOK
  <2> QED
    BY <2>1, <2>2
<1>2. CASE Next
  <2>1. PICK r \in Runs : Act(r)
    BY <1>2 DEF Next, Act
  <2>2. RunOK(r)'
    BY <2>1, OwnPreparation, OwnEffect, OwnFailures DEF Act, Step
  <2>3. \A s \in Runs : RunOK(s)'
    BY <2>1, <2>2, OthersKept
  <2> QED
    BY <2>1, <2>3, TypeStep, SoundKept, KeysKept DEF IInv
<1> QED
  BY <1>1, <1>2

LEMMA Invariance == Spec => []IInv
BY InitIInv, NextIInv, PTL DEF Spec

\* Every variable keeps its type, whatever fails.
THEOREM JournalTypeCorrect == Spec => []TypeOK
<1>1. IInv => TypeOK
  BY DEF IInv
<1> QED
  BY <1>1, Invariance, PTL

\* However many appends are planned on one head, race, fail and die: the stream
\* can be replayed, its numbers and heads without a gap and its life cycle kept.
THEOREM JournalStaysSound == Spec => []JournalIsSound
<1>1. IInv => JournalIsSound
  BY DEF IInv
<1> QED
  BY <1>1, Invariance, PTL

\* What the Phase receipt of a run says of the stream is so, and stays so.
THEOREM JournalReceiptsTrue == Spec => []ReceiptsAreTrue
<1>1. IInv => ReceiptsAreTrue
  BY DEF IInv, RunOK, Truthful, Says, ReceiptsAreTrue
<1> QED
  BY <1>1, Invariance, PTL

\* Under one evidence root, the runs of a key never append two records.
THEOREM JournalAppendsOnce == Spec => []AppendsOnce
<1>1. IInv => AppendsOnce
  BY DEF IInv
<1> QED
  BY <1>1, Invariance, PTL

\* Every step appends a record that the life cycle of the log takes, or seals
\* the log, or changes nothing of it; and nothing is appended to a sealed log.
THEOREM JournalImplementsTaskLog == Spec => ImplementsTaskLog
<1>1. Init => Log!Init
  <2> SUFFICES ASSUME Init
               PROVE  Log!Init
    OBVIOUS
  <2>1. Token(journal) \in Journals
    BY RecordedFacts DEF Init
  <2>2. Sealed = FALSE
    BY DEF Init, Sealed
  <2> QED
    BY <2>1, <2>2 DEF Log!Init
<1>2. ASSUME IInv, [Next]_vars
      PROVE  [Log!Next]_(Log!vars)
  <2>1. CASE UNCHANGED vars
    <3>1. Token(journal)' = Token(journal) /\ Sealed' = Sealed
      BY <2>1 DEF vars, stream, Sealed, Writing
    <3> QED
      BY <3>1 DEF Log!vars
  <2>2. CASE Next
    <3>1. PICK r \in Runs : Act(r)
      BY <2>2 DEF Next, Act
    <3>2. CASE Fill(r)
      BY <1>2, <3>2, FillAppends
    <3>3. CASE ~Fill(r)
      <4>1. Token(journal)' = Token(journal)
        BY <3>1, <3>3, StreamFrame DEF stream, Open, Write
      <4>2. Sealed => Sealed'
        BY <1>2, <3>1, <3>3, SealedStays
      <4>3. CASE Sealed' /\ ~Sealed
        <5>1. Sealed' = TRUE
          BY <4>3
        <5> QED
          BY <4>1, <5>1 DEF Log!Next, Log!Seal
      <4>4. CASE Sealed' <=> Sealed
        <5>1. Sealed' = Sealed
          BY <4>4 DEF Sealed
        <5> QED
          BY <4>1, <5>1 DEF Log!vars
      <4> QED
        BY <4>2, <4>3, <4>4
    <3> QED
      BY <3>2, <3>3
  <2> QED
    BY <1>2, <2>1, <2>2
<1> QED
  BY <1>1, <1>2, Invariance, PTL DEF Spec, ImplementsTaskLog, Log!Spec

-----------------------------------------------------------------------------
(* One record for a head                                                    *)

\* A record that was left is in its place, whatever became of its run.
Landed == \A r \in Runs : wrote[r] = "record" => InPlace(r)

\* No two runs have left their records in one place.
Apart ==
    \A q, r \in Runs :
        q # r /\ wrote[q] = "record" /\ wrote[r] = "record" => offset[q] # offset[r]

\* Whoever appends to a head is the only one that ever does, under whatever
\* evidence root, key and receipts the others run.
OneSuccessorPerHead ==
    \A q, r \in Runs :
        q # r /\ wrote[q] = "record" /\ wrote[r] = "record" => head[q] # head[r]

\* A record is new, or its run knew of it before.
LEMMA Landing ==
    ASSUME IInv, NEW r \in Runs, Act(r), NEW s \in Runs, wrote'[s] = "record"
    PROVE  \/ wrote[s] = "record" /\ Remembers(s)
           \/ s = r /\ Fill(r)
<1>1. CASE s # r
  BY <1>1, Frame DEF IInv, Remembers
<1>2. CASE s = r /\ ~Fill(r)
  <2>1. RunOK(r) /\ TypeOK /\ pc[r] \in Clean => wrote[r] = "nothing"
    BY DEF IInv, RunOK, Traced
  <2>2. CASE Submit(r) \/ CheckIdempotency(r) \/ Validate(r) \/ Plan(r)
             \/ TakeLock(r) \/ Observe(r)
    <3>1. pc[r] \in Clean /\ wrote' = wrote
      BY <2>2 DEF Submit, CheckIdempotency, Validate, Plan, TakeLock, Observe, Clean
    <3> QED
      BY <1>2, <2>1, <3>1 DEF IInv, RunOK, Traced
  <2>3. CASE Open(r) \/ Write(r)
    BY <1>2, <2>1, <2>3 DEF Open, Write, TypeOK, IInv, RunOK, Traced, Clean
  <2>4. CASE ReadBack(r) \/ PostOperation(r) \/ Failure(r)
    <3>1. wrote' = wrote /\ UNCHANGED <<request, sequence, offset>>
      BY <2>4 DEF ReadBack, PostOperation, Failure, Raise, CooperativeFails,
                  WriteFails, FillFails, ReadBackFails, FinalizationFails, Crash, memory
    <3> QED
      BY <1>2, <3>1 DEF Remembers, request
  <2> QED
    BY <1>2, <2>2, <2>3, <2>4 DEF Act, Step
<1> QED
  BY <1>1, <1>2

LEMMA LandedKept ==
    ASSUME IInv, Landed, Apart, NEW r \in Runs, Act(r), IInv'
    PROVE  Landed' /\ Apart'
<1>1. TypeOK /\ RunOK(r) /\ RunOK(r)'
  BY DEF IInv
<1>2. ASSUME Fill(r)
      PROVE  InPlace(r)' /\ offset'[r] = Len(journal) /\ offset' = offset
  <2>1. pc'[r] = "readback" /\ offset' = offset /\ pc[r] = "fill"
    BY <1>1, <1>2 DEF Fill, Go, TypeOK, memory
  <2> QED
    BY <1>1, <2>1 DEF RunOK, InHand
<1>3. Landed'
  <2> SUFFICES ASSUME NEW s \in Runs, wrote'[s] = "record"
               PROVE  InPlace(s)'
    BY DEF Landed
  <2>1. CASE wrote[s] = "record" /\ Remembers(s)
    BY <1>1, <2>1, Remembered DEF Landed
  <2> QED
    BY <1>2, <2>1, Landing
<1>4. ASSUME NEW q \in Runs, NEW s \in Runs, q # s, wrote'[q] = "record",
             wrote'[s] = "record", s # r \/ ~Fill(r)
      PROVE  offset'[q] # offset'[s]
  <2>1. wrote[s] = "record" /\ Remembers(s)
    BY <1>4, Landing
  <2>2. CASE q = r /\ Fill(r)
    <3>1. InPlace(s) /\ offset[s] \in Nat /\ Len(journal) \in Nat
      BY <1>1, <2>1, Ranges DEF Landed
    <3>2. offset[s] # Len(journal)
      BY <3>1 DEF InPlace
    <3> QED
      BY <1>2, <2>1, <2>2, <3>2 DEF Remembers
  <2>3. CASE wrote[q] = "record" /\ Remembers(q)
    BY <1>4, <2>1, <2>3 DEF Apart, Remembers
  <2> QED
    BY <1>4, <2>2, <2>3, Landing
<1>5. Apart'
  <2> SUFFICES ASSUME NEW q \in Runs, NEW s \in Runs, q # s,
                      wrote'[q] = "record", wrote'[s] = "record"
               PROVE  offset'[q] # offset'[s]
    BY DEF Apart
  <2> QED
    BY <1>4
<1> QED
  BY <1>3, <1>5

LEMMA LandedInvariance == Spec => [](IInv /\ Landed /\ Apart)
<1>1. Init => Landed /\ Apart
  BY DEF Init, Landed, Apart
<1>2. IInv /\ IInv' /\ Landed /\ Apart /\ [Next]_vars => Landed' /\ Apart'
  <2> SUFFICES ASSUME IInv, IInv', Landed, Apart, [Next]_vars
               PROVE  Landed' /\ Apart'
    OBVIOUS
  <2>1. CASE UNCHANGED vars
    BY <2>1 DEF vars, stream, request, memory, Landed, Apart, InPlace, Record, Base, Token
  <2>2. CASE Next
    BY <2>2, LandedKept DEF Next, Act
  <2> QED
    BY <2>1, <2>2
<1> QED
  BY <1>1, <1>2, Invariance, PTL DEF Spec

\* Two records never follow one head: the comparison under the root lock lets a
\* single run through, even among runs that share neither keys nor receipts.
THEOREM JournalOneSuccessor == Spec => []OneSuccessorPerHead
<1>1. IInv /\ Landed /\ Apart => OneSuccessorPerHead
  <2> SUFFICES ASSUME IInv, Landed, Apart, NEW q \in Runs, NEW r \in Runs, q # r,
                      wrote[q] = "record", wrote[r] = "record", head[q] = head[r]
               PROVE  FALSE
    BY DEF OneSuccessorPerHead
  <2>1. ASSUME NEW s \in Runs, InPlace(s)
        PROVE  Len(Base(s)) = offset[s]
    <3>1. /\ Token(journal) \in Seq(Bodies) /\ Len(Token(journal)) = Len(journal)
          /\ Len(journal) \in Nat /\ offset[s] \in Nat
      BY Ranges DEF IInv
    <3>2. offset[s] \in 0..Len(Token(journal))
      BY <2>1, <3>1 DEF InPlace
    <3> QED
      BY <2>1, <3>1, <3>2, Prefix DEF InPlace
  <2>2. Len(Base(q)) = offset[q] /\ Len(Base(r)) = offset[r]
    BY <2>1 DEF Landed
  <2>3. Base(q) = Base(r)
    BY DEF Base
  <2> QED
    BY <2>2, <2>3 DEF Apart
<1> QED
  BY <1>1, LandedInvariance, PTL

-----------------------------------------------------------------------------
(* That runs end: what does not need fairness                               *)

\* A lock that is held is held by a run that is past every lock.
HolderLives == lock # NoRun => lock \in Runs /\ pc[lock] \in Locked

\* The locks that the next step of a run waits for are free.
Ready(r) ==
    /\ pc[r] \in Steps
    /\ pc[r] = "check" => \A q \in Runs \ {r} :
                             SameKey(q, r) => pc[q] \in {"start", "check"} \cup Ended
    /\ pc[r] = "lock" => lock = NoRun

\* While there is a run that has not ended, there is one that waits for nobody:
\* no circle of waiting runs, and no lock left behind by a dead one.
NoCircularWait == (\E r \in Runs : pc[r] \in Steps) => \E r \in Runs : Ready(r)

\* The steps that a run has before it, at most.
Remaining(step) ==
    CASE step = "start" -> 11   [] step = "check" -> 10    [] step = "validate" -> 9
      [] step = "plan" -> 8     [] step = "lock" -> 7      [] step = "observe" -> 6
      [] step = "open" -> 5     [] step = "write" -> 4     [] step = "fill" -> 3
      [] step = "readback" -> 2 [] step = "post" -> 1      [] OTHER -> 0

\* No step, failure or retry leads a run back: whatever a run does takes it
\* nearer to its end, and nothing another run does takes it further away.
RunsOut ==
    \A r \in Runs :
        /\ Act(r) => Remaining(pc'[r]) < Remaining(pc[r])
        /\ ~Act(r) => pc'[r] = pc[r]

\* A run that has ended is not heard of again.
EndIsFinal ==
    \A r \in Runs :
        pc[r] \in Ended => /\ pc'[r] = pc[r] /\ outcome'[r] = outcome[r]
                           /\ effect'[r] = effect[r] /\ wrote'[r] = wrote[r]

\* Where a step leads.
LEMMA Course ==
    ASSUME TypeOK, NEW r \in Runs, Act(r)
    PROVE  /\ pc[r] \notin Ended
           /\ pc[r] = "start" => pc'[r] = "check"
           /\ pc[r] = "check" => pc'[r] \in {"validate"} \cup Ended
           /\ pc[r] = "validate" => pc'[r] \in {"plan"} \cup Ended
           /\ pc[r] = "plan" => pc'[r] \in {"lock"} \cup Ended
           /\ pc[r] = "lock" => pc'[r] \in {"observe"} \cup Ended
           /\ pc[r] = "observe" => pc'[r] \in {"open", "post"} \cup Ended
           /\ pc[r] = "open" => pc'[r] \in {"write", "post"} \cup Ended
           /\ pc[r] = "write" => pc'[r] \in {"fill", "post"} \cup Ended
           /\ pc[r] = "fill" => pc'[r] \in {"readback", "post"} \cup Ended
           /\ pc[r] = "readback" => pc'[r] \in {"post"} \cup Ended
           /\ pc[r] = "post" => pc'[r] \in Ended
<1>1. ASSUME NEW step, Go(r, step)
      PROVE  pc'[r] = step
  BY <1>1 DEF Go, TypeOK
<1>2. CASE Submit(r) \/ Validate(r) \/ Plan(r) \/ TakeLock(r) \/ PostOperation(r)
  BY <1>1, <1>2 DEF Submit, Validate, Plan, TakeLock, PostOperation, Decide, Ended
<1>3. CASE CheckIdempotency(r)
  BY <1>1, <1>3, Verdicts DEF CheckIdempotency, Decide, Ended
<1>4. CASE Observe(r) \/ Open(r) \/ Write(r) \/ Fill(r) \/ ReadBack(r)
  BY <1>1, <1>4 DEF Observe, Open, Write, Fill, ReadBack, Finish, Ended
<1>5. CASE Failure(r)
  <2>1. CASE Raise(r) \/ Crash(r) \/ FinalizationFails(r)
    BY <1>1, <2>1 DEF Raise, Crash, FinalizationFails, Decide, Steps, Ended
  <2>2. CASE CooperativeFails(r) \/ WriteFails(r) \/ FillFails(r) \/ ReadBackFails(r)
    BY <1>1, <2>2 DEF CooperativeFails, WriteFails, FillFails, ReadBackFails, Finish,
                      Ended
  <2> QED
    BY <1>5, <2>1, <2>2 DEF Failure
<1> QED
  BY <1>2, <1>3, <1>4, <1>5 DEF Act, Step

\* The root lock is taken by a run that passes it, and given back by whoever
\* leaves what it protects.
LEMMA Handing ==
    ASSUME TypeOK, HolderLives, NEW r \in Runs, Act(r)
    PROVE  /\ lock' \in {lock, NoRun, r}
           /\ lock' = r => pc'[r] \in Locked
<1>1. ASSUME NEW step, Go(r, step)
      PROVE  pc'[r] = step
  BY <1>1 DEF Go, TypeOK
<1>2. NoRun # r
  BY JournalConstants
<1>3. Release(r) => lock' \in {lock, NoRun} /\ lock' # r
  BY <1>2 DEF Release
<1>4. lock = r => pc[r] \in Locked
  BY <1>2 DEF HolderLives
<1>5. CASE Submit(r) \/ CheckIdempotency(r) \/ Validate(r) \/ Plan(r)
           \/ PostOperation(r)
  BY <1>4, <1>5 DEF Submit, CheckIdempotency, Validate, Plan, PostOperation, Locked
<1>6. CASE TakeLock(r)
  BY <1>1, <1>6 DEF TakeLock, Locked
<1>7. CASE Observe(r) \/ Open(r) \/ Write(r) \/ Fill(r) \/ ReadBack(r)
  BY <1>1, <1>3, <1>7 DEF Observe, Open, Write, Fill, ReadBack, Finish, Locked
<1>8. CASE Failure(r)
  <2>1. CASE FinalizationFails(r)
    BY <1>4, <2>1 DEF FinalizationFails, Locked
  <2>2. CASE ~FinalizationFails(r)
    <3>1. Release(r)
      BY <1>8, <2>2 DEF Failure, Raise, Crash, CooperativeFails, WriteFails, FillFails,
                        ReadBackFails, Finish
    <3> QED
      BY <1>3, <3>1
  <2> QED
    BY <2>1, <2>2
<1> QED
  BY <1>5, <1>6, <1>7, <1>8 DEF Act, Step

LEMMA HolderInvariance == Spec => [](IInv /\ HolderLives)
<1>1. Init => HolderLives
  BY DEF Init, HolderLives
<1>2. IInv /\ HolderLives /\ [Next]_vars => HolderLives'
  <2> SUFFICES ASSUME TypeOK, HolderLives, [Next]_vars, lock' # NoRun
               PROVE  lock' \in Runs /\ pc'[lock'] \in Locked
    BY DEF IInv, HolderLives
  <2>1. CASE UNCHANGED vars
    BY <2>1 DEF vars, HolderLives
  <2>2. CASE Next
    <3>1. PICK r \in Runs : Act(r)
      BY <2>2 DEF Next, Act
    <3>2. CASE lock' = r
      BY <3>1, <3>2, Handing
    <3>3. CASE lock' # r
      <4>1. lock' = lock /\ lock \in Runs \ {r} /\ pc[lock] \in Locked
        BY <3>1, <3>3, Handing DEF HolderLives
      <4> QED
        BY <3>1, <4>1, Frame
    <3> QED
      BY <3>2, <3>3
  <2> QED
    BY <2>1, <2>2
<1> QED
  BY <1>1, <1>2, Invariance, PTL DEF Spec

\* Runs of the task journal never wait for each other in a circle, for a dead
\* run or for one that has returned: at any time one of those that have not
\* ended is free to go on.
THEOREM JournalNoCircularWait == Spec => []NoCircularWait
<1>1. IInv /\ HolderLives => NoCircularWait
  <2> SUFFICES ASSUME TypeOK, HolderLives, NEW r \in Runs, pc[r] \in Steps
               PROVE  \E s \in Runs : Ready(s)
    BY DEF IInv, NoCircularWait
  <2>1. CASE lock # NoRun
    BY <2>1 DEF HolderLives, Ready, Locked, Steps
  <2>2. CASE lock = NoRun /\ \E s \in Runs : pc[s] \in Steps \ {"check"}
    BY <2>2 DEF Ready
  <2>3. CASE \A s \in Runs : pc[s] \notin Steps \ {"check"}
    <3>1. \A s \in Runs : pc[s] \in {"start", "check"} \cup Ended
      BY <2>3 DEF TypeOK
    <3>2. pc[r] = "check"
      BY <2>3
    <3> QED
      BY <3>1, <3>2 DEF Ready
  <2> QED
    BY <2>1, <2>2, <2>3
<1> QED
  BY <1>1, HolderInvariance, PTL

\* A run of the task journal takes at most eleven steps, however it goes, and no
\* other run adds to them.
THEOREM JournalRunsOut == Spec => [][RunsOut]_vars
<1>1. IInv /\ [Next]_vars => [RunsOut]_vars
  <2> SUFFICES ASSUME IInv, Next, NEW r \in Runs
               PROVE  /\ Act(r) => Remaining(pc'[r]) < Remaining(pc[r])
                      /\ ~Act(r) => pc'[r] = pc[r]
    BY DEF RunsOut
  <2>1. TypeOK
    BY DEF IInv
  <2>2. ASSUME Act(r)
        PROVE  Remaining(pc'[r]) < Remaining(pc[r])
    <3>1. pc[r] \in Steps \cup Ended \cup {"start"}
      BY <2>1 DEF TypeOK
    <3> QED
      BY <2>1, <2>2, <3>1, Course DEF Remaining, Steps, Ended
  <2>3. ASSUME ~Act(r)
        PROVE  pc'[r] = pc[r]
    <3>1. PICK s \in Runs : Act(s)
      BY DEF Next, Act
    <3> QED
      BY <2>1, <2>3, <3>1, Frame
  <2> QED
    BY <2>2, <2>3
<1> QED
  BY <1>1, Invariance, PTL DEF Spec

\* The receipts of a run that has returned or died are those it has for ever: no
\* retry, recovery or failure changes them.
THEOREM JournalEndIsFinal == Spec => [][EndIsFinal]_vars
<1>1. IInv /\ [Next]_vars => [EndIsFinal]_vars
  <2> SUFFICES ASSUME IInv, Next, NEW r \in Runs, pc[r] \in Ended
               PROVE  /\ pc'[r] = pc[r] /\ outcome'[r] = outcome[r]
                      /\ effect'[r] = effect[r] /\ wrote'[r] = wrote[r]
    BY DEF EndIsFinal
  <2>1. TypeOK
    BY DEF IInv
  <2>2. PICK s \in Runs : Act(s)
    BY DEF Next, Act
  <2>3. s # r
    BY <2>1, <2>2, Course
  <2> QED
    BY <2>1, <2>2, <2>3, Frame
<1> QED
  BY <1>1, Invariance, PTL DEF Spec
=============================================================================
