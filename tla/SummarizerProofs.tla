--------------------------- MODULE SummarizerProofs ---------------------------
(***************************************************************************)
(* Proofs about Summarizer for any numbers of workers, readers, requests   *)
(* and clears, any threshold, any retry bound and either backend.          *)
(*                                                                         *)
(* SummaryFoldsPrefix is not inductive: a worker's upsert replaces the     *)
(* summary by what the worker read some time ago.  WorkersHoldPrefix says  *)
(* what those reads are worth: as long as the version a worker read is     *)
(* still the stored one, the summary it read is still the stored one and   *)
(* its turns start right after it.                                         *)
(***************************************************************************)
EXTENDS Summarizer, TLAPS

Reading == {"since", "turns", "summarize"}

\* A worker about to call the model holds a slice of the log of the threshold's size.
WorkersHoldSlice ==
    \A w \in Workers : worker[w].pc = "summarize" =>
      worker[w].upto <= Len(turns) /\ worker[w].upto >= worker[w].after + Threshold

\* While no clear has happened, versions tell summaries apart.
VersionsTellSummaries ==
    clears = 0 => \A w \in Workers : worker[w].pc \in Reading =>
      /\ worker[w].current.version <= summary.version
      /\ worker[w].current.version = summary.version => worker[w].current = summary

\* What a worker holds is a summary of a prefix, and turns that follow it.
WorkersHoldPrefix ==
    \A w \in Workers : worker[w].pc \in Reading =>
      /\ Sound => worker[w].current.text = 1..worker[w].current.hw
      /\ worker[w].pc # "since"
           /\ (backend = "in_memory"
                 \/ (clears = 0 /\ worker[w].current.version = summary.version))
           => worker[w].after = worker[w].current.hw

\* In memory a worker is only ever seen waiting for the model.
NoTornReads ==
    backend = "in_memory" => \A w \in Workers : worker[w].pc \in {"idle", "summarize"}

IInv ==
    /\ TypeOK
    /\ HighWaterInLog
    /\ SummaryFoldsPrefix
    /\ WorkersHoldSlice
    /\ VersionsTellSummaries
    /\ WorkersHoldPrefix
    /\ NoTornReads

-----------------------------------------------------------------------------
(* Types *)

\* A missing summary reads as version 0 and covers nothing.
LEMMA NoSummaryType == NoSummary \in Summary
  BY DEF NoSummary, Summary

\* A run_once that has not begun, or has returned, holds nothing.
LEMMA IdleWorkerType == IdleWorker \in WorkerState
  BY NoSummaryType DEF IdleWorker, WorkerState

\* An assemble_context that has not begun holds nothing.
LEMMA IdleReaderType == IdleReader \in ReaderState
  BY NoSummaryType DEF IdleReader, ReaderState

\* Both outcomes of the reads of run_once are worker states.
LEMMA FetchedType ==
  ASSUME NEW a \in Nat, NEW s \in Summary, NEW after \in Nat, NEW upto \in Nat
  PROVE  Fetched(a, s, after, upto) \in WorkerState
  BY IdleWorkerType DEF Fetched, WorkerState

\* assemble_context's cap keeps the slice a slice.
LEMMA AssembledType ==
  ASSUME NEW s \in Summary, NEW after \in Nat, NEW upto \in Nat
  PROVE  Assembled(s, after, upto) \in ReaderState
  BY SummarizerAssumption DEF Assembled, Capped, ReaderState

\* The sequences record() appends: one turn, or the two of an exchange.
LEMMA ShortSequences ==
  ASSUME NEW S, NEW a \in S, NEW b \in S
  PROVE  /\ <<a>> \in Seq(S) /\ Len(<<a>>) = 1
         /\ <<a, b>> \in Seq(S) /\ Len(<<a, b>>) = 2
  OBVIOUS

\* record() writes turns with the roles the log knows.
LEMMA TurnTypes ==
  ASSUME NEW r \in Requests
  PROVE  UserTurn(r) \in Turn /\ AssistantTurn(r) \in Turn
  BY DEF UserTurn, AssistantTurn, Turn

\* What run_once writes back is a summary.
LEMMA NewSummaryType ==
  ASSUME TypeOK, NEW w \in Workers
  PROVE  NewSummary(w) \in Summary
<1> DEFINE wk == worker[w]
<1>1. wk \in WorkerState /\ summary \in Summary
  BY DEF TypeOK
<1>2. wk.after \in Nat /\ wk.upto \in Nat /\ wk.current.text \subseteq Nat \ {0}
        /\ summary.version + 1 \in Nat
  BY <1>1 DEF WorkerState, Summary
<1>3. (wk.after + 1)..wk.upto \subseteq Nat \ {0}
  BY <1>2
<1>4. wk.current.text \cup (wk.after + 1)..wk.upto \in SUBSET (Nat \ {0})
  BY <1>2, <1>3
<1> QED
  BY <1>2, <1>4 DEF NewSummary, Summary

\* Every store call, and every step between two of them, keeps the types.
LEMMA TypeStep == TypeOK /\ [Next]_vars => TypeOK'
<1> SUFFICES ASSUME TypeOK, [Next]_vars PROVE TypeOK'
  OBVIOUS
<1> USE SummarizerAssumption
<1>0. summary \in Summary /\ summary.hw \in Nat /\ Len(turns) \in Nat /\ turns \in Seq(Turn)
  BY DEF TypeOK, Summary
<1>1. ASSUME NEW r \in Requests, RecordStep(r) PROVE TypeOK'
  <2>1. CASE RecordInMemory(r)
    <3>1. PICK exchange \in {<<UserTurn(r), AssistantTurn(r)>>, <<AssistantTurn(r)>>} :
            turns' = turns \o exchange
      BY <2>1 DEF RecordInMemory
    <3>2. exchange \in Seq(Turn)
      <4>1. UserTurn(r) \in Turn /\ AssistantTurn(r) \in Turn
        BY TurnTypes
      <4>2. <<UserTurn(r), AssistantTurn(r)>> \in Seq(Turn) /\ <<AssistantTurn(r)>> \in Seq(Turn)
        BY <4>1, ShortSequences
      <4> QED
        BY <4>2
    <3>3. turns' \in Seq(Turn)
      BY <1>0, <3>1, <3>2
    <3> QED
      BY <2>1, <3>3 DEF RecordInMemory, TypeOK
  <2>2. CASE OpenSession(r)
    BY <2>2 DEF OpenSession, TypeOK
  <2>3. CASE AppendUser(r)
    BY <2>3, <1>0, TurnTypes DEF AppendUser, TypeOK
  <2>4. CASE AppendAssistant(r)
    BY <2>4, <1>0, TurnTypes DEF AppendAssistant, TypeOK
  <2>5. CASE RecordFails(r)
    BY <2>5 DEF RecordFails, TypeOK
  <2> QED
    BY <1>1, <2>1, <2>2, <2>3, <2>4, <2>5 DEF RecordStep
<1>2. ASSUME NEW w \in Workers, WorkerStep(w) PROVE TypeOK'
  <2>0. worker[w] \in WorkerState
    BY DEF TypeOK
  <2>1. CASE FetchInMemory(w)
    <3>1. Fetched(1, summary, summary.hw, Len(turns)) \in WorkerState
      BY <1>0, FetchedType
    <3> QED
      BY <2>1, <3>1 DEF FetchInMemory, TypeOK
  <2>2. ASSUME NEW a \in Nat, ReadCurrent(w, a) PROVE TypeOK'
    <3>1. [IdleWorker EXCEPT !.pc = "since", !.attempt = a, !.current = summary] \in WorkerState
      BY <1>0, IdleWorkerType DEF WorkerState
    <3> QED
      BY <2>2, <3>1 DEF ReadCurrent, TypeOK
  <2>3. CASE StartRun(w)
    BY <2>2, <2>3 DEF StartRun
  <2>4. CASE Refetch(w)
    BY <2>0, <2>2, <2>4 DEF Refetch, WorkerState
  <2>5. CASE GetSummaryAgain(w)
    BY <2>5, <1>0, <2>0 DEF GetSummaryAgain, WorkerState, TypeOK
  <2>6. CASE ListTurns(w)
    <3>1. Fetched(worker[w].attempt, worker[w].current, worker[w].after,
          Len(turns)) \in WorkerState
      BY <1>0, <2>0, FetchedType DEF WorkerState
    <3> QED
      BY <2>6, <3>1 DEF ListTurns, TypeOK
  <2>7. CASE RunFails(w)
    BY <2>7, IdleWorkerType DEF RunFails, TypeOK
  <2>8. CASE Upsert(w)
    BY <2>8, IdleWorkerType, NewSummaryType DEF Upsert, TypeOK
  <2>9. CASE LoseRace(w)
    <3>1. worker[w].attempt + 1 \in Nat
      BY <2>0 DEF WorkerState
    <3>2. Fetched(worker[w].attempt + 1, summary, summary.hw, Len(turns)) \in WorkerState
      BY <1>0, <3>1, FetchedType
    <3>3. [IdleWorker EXCEPT !.pc = "refetch", !.attempt = worker[w].attempt + 1] \in WorkerState
      BY <3>1, IdleWorkerType DEF WorkerState
    <3> QED
      BY <2>9, <3>2, <3>3 DEF LoseRace, TypeOK
  <2> QED
    BY <1>2, <2>1, <2>3, <2>4, <2>5, <2>6, <2>7, <2>8, <2>9 DEF WorkerStep, RunStep
<1>3. ASSUME NEW x \in Readers, ReaderStep(x) PROVE TypeOK'
  <2>0. reader[x] \in ReaderState
    BY DEF TypeOK
  <2>1. CASE AssembleInMemory(x)
    <3>1. Assembled(summary, summary.hw, Len(turns)) \in ReaderState
      BY <1>0, AssembledType
    <3> QED
      BY <2>1, <3>1 DEF AssembleInMemory, TypeOK
  <2>2. CASE ReadSummary(x)
    BY <2>2, <1>0, <2>0 DEF ReadSummary, ReaderState, TypeOK
  <2>3. CASE ReadSummaryAgain(x)
    BY <2>3, <1>0, <2>0 DEF ReadSummaryAgain, ReaderState, TypeOK
  <2>4. CASE ReadTurns(x)
    <3>1. Assembled(reader[x].summary, reader[x].after, Len(turns)) \in ReaderState
      BY <1>0, <2>0, AssembledType DEF ReaderState
    <3> QED
      BY <2>4, <3>1 DEF ReadTurns, TypeOK
  <2>5. CASE ReadFails(x)
    <3>1. [IdleReader EXCEPT !.pc = "failed"] \in ReaderState
      BY IdleReaderType DEF ReaderState
    <3> QED
      BY <2>5, <3>1 DEF ReadFails, TypeOK
  <2> QED
    BY <1>3, <2>1, <2>2, <2>3, <2>4, <2>5 DEF ReaderStep
<1>4. CASE ClearSummary
  BY <1>4, NoSummaryType DEF ClearSummary, TypeOK
<1>5. CASE UNCHANGED vars
  BY <1>5 DEF vars, TypeOK
<1> QED
  BY <1>1, <1>2, <1>3, <1>4, <1>5 DEF Next

\* A new session has neither turns nor a summary.
LEMMA TypeInit == Init => TypeOK
  BY NoSummaryType, IdleWorkerType, IdleReaderType DEF Init, TypeOK

\* Every state has values of the declared types.
THEOREM TypeCorrect == Spec => []TypeOK
  BY TypeInit, TypeStep, PTL DEF Spec

-----------------------------------------------------------------------------
(* What a step can change *)

\* A request only ever makes the log longer.
LEMMA RecordOnlyAppends ==
  ASSUME TypeOK, NEW r \in Requests, RecordStep(r)
  PROVE  /\ UNCHANGED <<backend, summary, clears, worker, reader>>
         /\ Len(turns') \in {Len(turns), Len(turns) + 1, Len(turns) + 2}
<1>0. turns \in Seq(Turn) /\ UserTurn(r) \in Turn /\ AssistantTurn(r) \in Turn
  BY TurnTypes DEF TypeOK
<1>1. CASE RecordInMemory(r)
  <2>1. PICK exchange \in {<<UserTurn(r), AssistantTurn(r)>>, <<AssistantTurn(r)>>} :
          turns' = turns \o exchange
    BY <1>1 DEF RecordInMemory
  <2>2. exchange \in Seq(Turn) /\ Len(exchange) \in {1, 2}
    <3>1. /\ <<UserTurn(r), AssistantTurn(r)>> \in Seq(Turn)
          /\ <<AssistantTurn(r)>> \in Seq(Turn)
          /\ Len(<<UserTurn(r), AssistantTurn(r)>>) = 2
          /\ Len(<<AssistantTurn(r)>>) = 1
      BY <1>0, ShortSequences
    <3> QED
      BY <3>1
  <2>3. Len(turns') = Len(turns) + Len(exchange)
    BY <1>0, <2>1, <2>2
  <2> QED
    BY <1>0, <1>1, <2>2, <2>3 DEF RecordInMemory
<1>2. CASE OpenSession(r) \/ RecordFails(r)
  BY <1>2 DEF OpenSession, RecordFails
<1>3. CASE AppendUser(r)
  BY <1>0, <1>3 DEF AppendUser
<1>4. CASE AppendAssistant(r)
  BY <1>0, <1>4 DEF AppendAssistant
<1> QED
  BY <1>1, <1>2, <1>3, <1>4 DEF RecordStep

\* assemble_context writes nothing.
LEMMA ReaderOnlyReads ==
  ASSUME NEW x \in Readers, ReaderStep(x)
  PROVE  UNCHANGED <<backend, turns, summary, clears, request, worker>>
  BY DEF ReaderStep, AssembleInMemory, ReadSummary, ReadSummaryAgain, ReadTurns, ReadFails

-----------------------------------------------------------------------------
(* The inductive invariant *)

\* The invariant holds in a new session.
LEMMA IInvInit == Init => IInv
<1> SUFFICES ASSUME Init PROVE IInv
  OBVIOUS
<1>1. TypeOK
  BY TypeInit
<1>2. HighWaterInLog /\ SummaryFoldsPrefix
  BY DEF Init, NoSummary, HighWaterInLog, SummaryFoldsPrefix, SummaryNeverSkips
<1>3. WorkersHoldSlice /\ VersionsTellSummaries /\ WorkersHoldPrefix /\ NoTornReads
  BY DEF Init, IdleWorker, WorkersHoldSlice, VersionsTellSummaries, WorkersHoldPrefix,
         NoTornReads, Reading
<1> QED
  BY <1>1, <1>2, <1>3 DEF IInv

\* The parts of IInv that speak of the workers, one worker at a time.
WorkerGood(wk) ==
    /\ wk.pc = "summarize" => wk.upto <= Len(turns) /\ wk.upto >= wk.after + Threshold
    /\ wk.pc \in Reading =>
         /\ clears = 0 =>
              /\ wk.current.version <= summary.version
              /\ wk.current.version = summary.version => wk.current = summary
         /\ Sound => wk.current.text = 1..wk.current.hw
         /\ wk.pc # "since"
              /\ (backend = "in_memory" \/ (clears = 0 /\ wk.current.version = summary.version))
              => wk.after = wk.current.hw
    /\ backend = "in_memory" => wk.pc \in {"idle", "summarize"}

\* What the invariant says of the workers, one worker at a time.
LEMMA WorkersGood ==
  (WorkersHoldSlice /\ VersionsTellSummaries /\ WorkersHoldPrefix /\ NoTornReads)
    <=> \A w \in Workers : WorkerGood(worker[w])
  BY DEF WorkersHoldSlice, VersionsTellSummaries, WorkersHoldPrefix, NoTornReads, WorkerGood

\* What the reads of run_once leave in a worker is good.
LEMMA FetchedGood ==
  ASSUME TypeOK, SummaryFoldsPrefix,
         NEW a \in Nat, NEW current \in Summary, NEW after \in Nat,
         clears = 0 => /\ current.version <= summary.version
                       /\ current.version = summary.version => current = summary,
         Sound => current.text = 1..current.hw,
         (backend = "in_memory" \/ (clears = 0 /\ current.version = summary.version))
           => after = current.hw
  PROVE  WorkerGood(Fetched(a, current, after, Len(turns)))
<1>1. Len(turns) \in Nat /\ Threshold \in Nat
  BY SummarizerAssumption DEF TypeOK
<1>2. CASE Len(turns) - after >= Threshold /\ a <= MaxRetries
  BY <1>1, <1>2 DEF Fetched, WorkerGood, Reading
<1>3. CASE ~(Len(turns) - after >= Threshold /\ a <= MaxRetries)
  BY <1>3 DEF Fetched, WorkerGood, Reading, IdleWorker
<1> QED
  BY <1>2, <1>3

\* A successful upsert gives a summary of a longer prefix.
LEMMA UpsertGood ==
  ASSUME IInv, NEW w \in Workers, Upsert(w)
  PROVE  /\ summary'.version = summary.version + 1
         /\ summary'.hw \in Threshold..Len(turns)
         /\ clears = 0 => summary'.hw >= summary.hw + Threshold
         /\ Sound => summary'.text = 1..summary'.hw
<1> DEFINE wk == worker[w]
<1>1. /\ wk \in WorkerState /\ summary \in Summary
      /\ wk.current \in Summary /\ wk.after \in Nat /\ wk.upto \in Nat
      /\ wk.current.hw \in Nat /\ Len(turns) \in Nat /\ Threshold \in Nat \ {0}
  BY SummarizerAssumption DEF IInv, TypeOK, WorkerState, Summary
<1>2. /\ wk.pc = "summarize" /\ wk.current.version = summary.version
      /\ summary' = NewSummary(w)
  BY DEF Upsert
<1>3. /\ summary'.version = summary.version + 1
      /\ summary'.hw = wk.upto
      /\ summary'.text = wk.current.text \cup (wk.after + 1)..wk.upto
  BY <1>2 DEF NewSummary
<1>4. WorkerGood(wk)
  BY WorkersGood DEF IInv
<1>5. wk.upto <= Len(turns) /\ wk.upto >= wk.after + Threshold
  BY <1>2, <1>4 DEF WorkerGood
<1>6. clears = 0 => wk.current = summary
  BY <1>2, <1>4 DEF WorkerGood, Reading
<1>7. Sound => wk.current.text = 1..wk.current.hw /\ wk.after = wk.current.hw
  BY <1>2, <1>4 DEF WorkerGood, Reading, Sound
<1>8. Sound => summary'.text = 1..summary'.hw
  BY <1>1, <1>3, <1>5, <1>7
<1>9. clears = 0 => summary'.hw >= summary.hw + Threshold
  BY <1>1, <1>3, <1>5, <1>6, <1>7 DEF Sound
<1> QED
  BY <1>1, <1>3, <1>5, <1>8, <1>9

\* No append, read, race, write-back or clear breaks the invariant.
LEMMA IInvStep == IInv /\ [Next]_vars => IInv'
<1> SUFFICES ASSUME IInv, [Next]_vars PROVE IInv'
  OBVIOUS
<1>0. /\ TypeOK /\ TypeOK' /\ HighWaterInLog /\ SummaryFoldsPrefix
      /\ \A w \in Workers : WorkerGood(worker[w])
  BY TypeStep, WorkersGood DEF IInv
<1>a. /\ Len(turns) \in Nat /\ Threshold \in Nat \ {0} /\ summary \in Summary
      /\ summary.hw \in Nat /\ summary.version \in Nat /\ clears \in Nat
      /\ \A w \in Workers : worker[w] \in WorkerState
  BY <1>0, SummarizerAssumption DEF TypeOK, Summary
<1>b. SUFFICES /\ HighWaterInLog' /\ SummaryFoldsPrefix'
               /\ \A w \in Workers : WorkerGood(worker[w])'
  <2>1. (WorkersHoldSlice /\ VersionsTellSummaries /\ WorkersHoldPrefix /\ NoTornReads)'
          <=> (\A w \in Workers : WorkerGood(worker[w]))'
    BY WorkersGood, PTL
  <2> QED
    BY <1>0, <1>b, <2>1 DEF IInv
<1> USE DEF Sound
\* A longer log disturbs nothing.
<1>1. ASSUME NEW r \in Requests, RecordStep(r)
      PROVE  /\ HighWaterInLog' /\ SummaryFoldsPrefix'
             /\ \A w \in Workers : WorkerGood(worker[w])'
  <2>1. /\ UNCHANGED <<backend, summary, clears, worker, reader>>
        /\ Len(turns') \in Nat /\ Len(turns) <= Len(turns')
    BY <1>0, <1>1, <1>a, RecordOnlyAppends
  <2>2. HighWaterInLog' /\ SummaryFoldsPrefix'
    BY <1>0, <1>a, <2>1 DEF HighWaterInLog, SummaryFoldsPrefix, SummaryNeverSkips
  <2>3. ASSUME NEW w \in Workers PROVE WorkerGood(worker[w])'
    <3>1. WorkerGood(worker[w]) /\ worker[w].upto \in Nat
      BY <1>0, <1>a DEF WorkerState
    <3> QED
      BY <1>a, <2>1, <3>1 DEF WorkerGood
  <2> QED
    BY <2>2, <2>3
\* Of a worker's steps only Upsert touches what the others see.
<1>2. ASSUME NEW w \in Workers, WorkerStep(w)
      PROVE  /\ HighWaterInLog' /\ SummaryFoldsPrefix'
             /\ \A v \in Workers : WorkerGood(worker[v])'
  <2>0. worker[w] \in WorkerState /\ WorkerGood(worker[w])
    BY <1>0, <1>a
  <2>1. ASSUME UNCHANGED <<backend, turns, summary, clears>>,
               NEW wk, WorkerGood(wk),
               worker' = [worker EXCEPT ![w] = wk]
        PROVE  /\ HighWaterInLog' /\ SummaryFoldsPrefix'
               /\ \A v \in Workers : WorkerGood(worker[v])'
    <3>1. HighWaterInLog' /\ SummaryFoldsPrefix'
      BY <1>0, <2>1 DEF HighWaterInLog, SummaryFoldsPrefix, SummaryNeverSkips
    <3>2. ASSUME NEW v \in Workers PROVE WorkerGood(worker[v])'
      <4>1. worker'[v] = IF v = w THEN wk ELSE worker[v]
        BY <1>0, <2>1 DEF TypeOK
      <4>2. WorkerGood(worker'[v])
        BY <1>0, <2>1, <4>1
      <4> QED
        BY <2>1, <4>2 DEF WorkerGood
    <3> QED
      BY <3>1, <3>2
  <2>2. WorkerGood(IdleWorker)
    BY DEF WorkerGood, IdleWorker, Reading
  <2>3. ASSUME NEW a \in Nat PROVE WorkerGood(Fetched(a, summary, summary.hw, Len(turns)))
    <3>1. /\ summary.version <= summary.version
          /\ Sound => summary.text = 1..summary.hw
      BY <1>0, <1>a DEF SummaryFoldsPrefix, SummaryNeverSkips
    <3> QED
      BY <1>0, <1>a, <3>1, FetchedGood
  <2>4. CASE FetchInMemory(w)
    BY <2>1, <2>3, <2>4 DEF FetchInMemory
  <2>5. ASSUME NEW a \in Nat, backend = "postgres", ReadCurrent(w, a)
        PROVE  /\ HighWaterInLog' /\ SummaryFoldsPrefix'
               /\ \A v \in Workers : WorkerGood(worker[v])'
    <3> DEFINE wk == [IdleWorker EXCEPT !.pc = "since", !.attempt = a, !.current = summary]
    <3>1. WorkerGood(wk)
      BY <1>0, <1>a, <2>5 DEF WorkerGood, IdleWorker, Reading, SummaryFoldsPrefix,
         SummaryNeverSkips
    <3> QED
      BY <2>1, <2>5, <3>1 DEF ReadCurrent
  <2>6. CASE StartRun(w)
    BY <2>5, <2>6 DEF StartRun
  <2>7. CASE Refetch(w)
    <3>1. backend = "postgres"
      BY <1>0, <2>0, <2>7, SummarizerAssumption DEF Refetch, WorkerGood, TypeOK
    <3> QED
      BY <2>0, <2>5, <2>7, <3>1 DEF Refetch, WorkerState
  <2>8. CASE GetSummaryAgain(w)
    <3> DEFINE wk == [worker[w] EXCEPT !.pc = "turns", !.after = summary.hw]
    <3>1. /\ worker[w].pc = "since" /\ worker' = [worker EXCEPT ![w] = wk]
          /\ UNCHANGED <<backend, turns, summary, clears>>
      BY <1>0, <2>8 DEF GetSummaryAgain, TypeOK
    <3>2. wk.pc = "turns" /\ wk.current = worker[w].current /\ wk.after = summary.hw
      BY <2>0 DEF WorkerState
    <3>3. backend = "postgres"
      BY <1>0, <2>0, <3>1, SummarizerAssumption DEF WorkerGood, TypeOK
    <3>4. WorkerGood(wk)
      BY <2>0, <3>1, <3>2, <3>3 DEF WorkerGood, Reading
    <3> QED
      BY <2>1, <3>1, <3>4
  <2>9. CASE ListTurns(w)
    <3> DEFINE wk == worker[w]
    <3>1. /\ wk.pc = "turns"
          /\ worker' = [worker EXCEPT
               ![w] = Fetched(wk.attempt, wk.current, wk.after, Len(turns))]
          /\ UNCHANGED <<backend, turns, summary, clears>>
      BY <2>9 DEF ListTurns
    <3>2. wk.attempt \in Nat /\ wk.current \in Summary /\ wk.after \in Nat
      BY <2>0 DEF WorkerState
    <3>3. /\ clears = 0 => /\ wk.current.version <= summary.version
                           /\ wk.current.version = summary.version => wk.current = summary
          /\ Sound => wk.current.text = 1..wk.current.hw
          /\ (backend = "in_memory" \/ (clears = 0 /\ wk.current.version = summary.version))
               => wk.after = wk.current.hw
      BY <2>0, <3>1 DEF WorkerGood, Reading
    <3>4. WorkerGood(Fetched(wk.attempt, wk.current, wk.after, Len(turns)))
      BY <1>0, <3>2, <3>3, FetchedGood
    <3> QED
      BY <2>1, <3>1, <3>4
  <2>10. CASE RunFails(w)
    BY <2>1, <2>2, <2>10 DEF RunFails
  <2>11. CASE Upsert(w)
    <3>1. /\ summary'.version = summary.version + 1
          /\ summary'.hw \in Threshold..Len(turns)
          /\ Sound => summary'.text = 1..summary'.hw
      BY <2>11, UpsertGood
    <3>2. /\ UNCHANGED <<backend, turns, clears>>
          /\ worker' = [worker EXCEPT ![w] = IdleWorker]
      BY <2>11 DEF Upsert
    <3>3. HighWaterInLog' /\ SummaryFoldsPrefix'
      BY <3>1, <3>2 DEF HighWaterInLog, SummaryFoldsPrefix, SummaryNeverSkips
    <3>4. ASSUME NEW v \in Workers PROVE WorkerGood(worker[v])'
      <4>1. worker'[v] = IF v = w THEN IdleWorker ELSE worker[v]
        BY <1>0, <3>2 DEF TypeOK
      <4>2. CASE v = w
        BY <4>1, <4>2 DEF WorkerGood, IdleWorker, Reading
      <4>3. CASE v # w
        <5>1. WorkerGood(worker[v]) /\ worker[v].current.version \in Nat
          BY <1>0, <1>a DEF WorkerState, Summary
        <5>2. clears = 0 /\ worker[v].pc \in Reading =>
                worker[v].current.version < summary'.version
          BY <1>a, <3>1, <5>1 DEF WorkerGood
        <5> QED
          BY <1>a, <3>1, <3>2, <4>1, <4>3, <5>1, <5>2 DEF WorkerGood
      <4> QED
        BY <4>2, <4>3
    <3> QED
      BY <3>3, <3>4
  <2>12. CASE LoseRace(w)
    <3> DEFINE again == Fetched(worker[w].attempt + 1, summary, summary.hw, Len(turns))
               refetch == [IdleWorker EXCEPT !.pc = "refetch",
               !.attempt = worker[w].attempt + 1]
    <3>1. worker[w].attempt + 1 \in Nat
      BY <2>0 DEF WorkerState
    <3>2. WorkerGood(again)
      BY <2>3, <3>1
    <3>3. backend # "in_memory" => WorkerGood(refetch)
      BY DEF WorkerGood, IdleWorker, Reading
    <3>4. /\ UNCHANGED <<backend, turns, summary, clears>>
          /\ worker' = [worker EXCEPT ![w] = IF backend = "in_memory" THEN again ELSE refetch]
      BY <2>12 DEF LoseRace
    <3> QED
      BY <2>1, <3>2, <3>3, <3>4
  <2> QED
    BY <1>2, <2>4, <2>6, <2>7, <2>8, <2>9, <2>10, <2>11, <2>12 DEF WorkerStep, RunStep
<1>3. ASSUME NEW x \in Readers, ReaderStep(x)
      PROVE  /\ HighWaterInLog' /\ SummaryFoldsPrefix'
             /\ \A w \in Workers : WorkerGood(worker[w])'
  BY <1>0, <1>3, ReaderOnlyReads DEF HighWaterInLog, SummaryFoldsPrefix,
     SummaryNeverSkips, WorkerGood
\* A clear restarts the version numbers: in memory the workers' slices stand, with
\* Postgres nothing is claimed any more.
<1>4. CASE ClearSummary
  <2>1. /\ summary' = NoSummary /\ clears' = clears + 1 /\ clears' # 0
        /\ UNCHANGED <<backend, turns, worker>>
    BY <1>a, <1>4 DEF ClearSummary
  <2>2. HighWaterInLog' /\ SummaryFoldsPrefix'
    BY <2>1 DEF HighWaterInLog, SummaryFoldsPrefix, SummaryNeverSkips, NoSummary
  <2>3. ASSUME NEW w \in Workers PROVE WorkerGood(worker[w])'
    <3>1. WorkerGood(worker[w])
      BY <1>0
    <3> QED
      BY <2>1, <3>1 DEF WorkerGood
  <2> QED
    BY <2>2, <2>3
<1>5. CASE UNCHANGED vars
  BY <1>0, <1>5 DEF vars, HighWaterInLog, SummaryFoldsPrefix, SummaryNeverSkips, WorkerGood
<1> QED
  BY <1>1, <1>2, <1>3, <1>4, <1>5 DEF Next

\* Through every race of run_once calls, a worker that may still write holds a summary
\* that stands for a prefix, and the slice of the log that follows it.
THEOREM InvariantHolds == Spec => []IInv
  BY IInvInit, IInvStep, PTL DEF Spec

\* Whatever the workers' races, the stored summary stands for exactly the turns up to
\* its high-water mark (in memory always, with Postgres until a clear).
THEOREM SummaryIsPrefix == Spec => []SummaryFoldsPrefix
  BY InvariantHolds, PTL DEF IInv

\* The stored high-water mark names a turn of the log.
THEOREM HighWaterExists == Spec => []HighWaterInLog
  BY InvariantHolds, PTL DEF IInv

-----------------------------------------------------------------------------
(* Refinement *)

\* A new session is an empty summary log.
LEMMA LogInit == Init => Log!Init
  BY DEF Init, NoSummary, Log!Init

\* Each step of requests, workers and readers is a step of the summary log, or none.
LEMMA LogStep == IInv /\ [Next]_vars => [Log!Next]_(Log!vars)
<1> SUFFICES ASSUME IInv, [Next]_vars PROVE [Log!Next]_(Log!vars)
  OBVIOUS
<1>0. TypeOK /\ Len(turns) \in Nat /\ clears \in Nat /\ Threshold \in Nat
  BY SummarizerAssumption DEF IInv, TypeOK
<1>1. ASSUME NEW r \in Requests, RecordStep(r) PROVE [Log!Next]_(Log!vars)
  BY <1>0, <1>1, RecordOnlyAppends DEF Log!Next, Log!Record, Log!vars
<1>2. ASSUME NEW w \in Workers, WorkerStep(w) PROVE [Log!Next]_(Log!vars)
  <2>1. CASE Upsert(w)
    <3>1. UNCHANGED <<turns, clears>>
      BY <2>1 DEF Upsert
    <3>2. Log!Fold
      BY <1>0, <2>1, <3>1, UpsertGood DEF Log!Fold
    <3> QED
      BY <3>2 DEF Log!Next
  <2>2. CASE ~Upsert(w)
    <3>1. UNCHANGED <<turns, summary, clears>>
      BY <1>2, <2>2 DEF WorkerStep, RunStep, FetchInMemory, StartRun, Refetch, ReadCurrent,
         GetSummaryAgain, ListTurns, RunFails, LoseRace
    <3> QED
      BY <3>1 DEF Log!vars
  <2> QED
    BY <2>1, <2>2
<1>3. ASSUME NEW x \in Readers, ReaderStep(x) PROVE [Log!Next]_(Log!vars)
  BY <1>3, ReaderOnlyReads DEF Log!vars
<1>4. CASE ClearSummary
  BY <1>0, <1>4 DEF ClearSummary, NoSummary, Log!Next, Log!Clear
<1>5. CASE UNCHANGED vars
  BY <1>5 DEF vars, Log!vars
<1> QED
  BY <1>1, <1>2, <1>3, <1>4, <1>5 DEF Next

\* The memory is a SummaryLog: an upsert moves the high-water mark forward by at least a
\* threshold's worth of turns, so no stale worker overwrites a newer summary.
THEOREM MemoryIsSummaryLog == Spec => ImplementsSummaryLog
<1>1. Log!Spec <=> Log!Init /\ [][Log!Next]_(Log!vars)
  BY DEF Log!Spec
<1> QED
  BY <1>1, InvariantHolds, LogInit, LogStep, PTL DEF Spec, ImplementsSummaryLog

-----------------------------------------------------------------------------
(* What requests are given *)

\* A context's summary stands for a prefix that is no longer than where its turns start;
\* in memory just as long, with Postgres the stored summary reaches at least as far.
ReaderGood(c) ==
    /\ Sound =>
         /\ c.pc \in {"since", "turns", "done"} => c.summary.text = 1..c.summary.hw
         /\ c.pc = "since" => c.summary.hw <= summary.hw
         /\ c.pc \in {"turns", "done"} =>
              /\ c.summary.hw <= c.after
              /\ backend = "postgres" => c.after <= summary.hw
              /\ backend = "in_memory" => c.after = c.summary.hw
         /\ c.pc = "done" => c.from >= c.after
    /\ backend = "in_memory" => c.pc \notin {"since", "turns"}

\* Until a clear, the high-water mark never moves back.
LEMMA SummaryGrows ==
  ASSUME IInv, [Next]_vars, clears' = 0
  PROVE  summary.hw <= summary'.hw
<1>1. /\ summary.hw \in Nat /\ clears \in Nat /\ Threshold \in Nat /\ Len(turns) \in Nat
  BY SummarizerAssumption DEF IInv, TypeOK, Summary
<1>2. [Log!Next]_(Log!vars) BY LogStep
<1> QED
  BY <1>1, <1>2 DEF Log!Next, Log!Record, Log!Fold, Log!Clear, Log!vars

\* A clear is never taken back, and the backend stays.
LEMMA SoundBefore ==
  ASSUME IInv, [Next]_vars
  PROVE  /\ backend' = backend /\ backend \in {"in_memory", "postgres"}
         /\ Sound' => Sound
         /\ Sound' /\ backend = "postgres" => clears' = 0
<1>1. backend \in {"in_memory", "postgres"} /\ clears \in Nat
  BY SummarizerAssumption DEF IInv, TypeOK
<1>2. backend' = backend /\ (clears' = clears \/ clears' = clears + 1)
  <2>1. ASSUME NEW r \in Requests, RecordStep(r) PROVE UNCHANGED <<backend, clears>>
    BY <2>1, RecordOnlyAppends DEF IInv
  <2>2. ASSUME NEW w \in Workers, WorkerStep(w) PROVE UNCHANGED <<backend, clears>>
    BY <2>2 DEF WorkerStep, RunStep, FetchInMemory, StartRun, Refetch, ReadCurrent,
                GetSummaryAgain, ListTurns, Upsert, RunFails, LoseRace
  <2>3. ASSUME NEW x \in Readers, ReaderStep(x) PROVE UNCHANGED <<backend, clears>>
    BY <2>3, ReaderOnlyReads
  <2> QED BY <2>1, <2>2, <2>3 DEF Next, ClearSummary, vars
<1> QED BY <1>1, <1>2 DEF Sound

\* While other coroutines write, a context that is being assembled stays good.
LEMMA ReaderStaysGood ==
  ASSUME IInv, [Next]_vars, NEW x \in Readers, ReaderGood(reader[x]),
         reader'[x] = reader[x]
  PROVE  ReaderGood(reader[x])'
<1>1. reader[x] \in ReaderState /\ reader[x].summary \in Summary
  BY DEF IInv, TypeOK, ReaderState
<1>2. /\ reader[x].summary.hw \in Nat /\ reader[x].after \in Nat
      /\ summary.hw \in Nat /\ summary'.hw \in Nat
  <2>1. TypeOK' BY IInvStep DEF IInv
  <2> QED BY <1>1, <2>1 DEF IInv, TypeOK, ReaderState, Summary
<1>3. Sound' /\ backend = "postgres" => summary.hw <= summary'.hw
  BY SoundBefore, SummaryGrows
<1>4. Sound' /\ reader[x].pc = "since" => reader[x].summary.hw <= summary'.hw
  BY <1>2, <1>3, SoundBefore DEF ReaderGood
<1>5. Sound' /\ reader[x].pc \in {"turns", "done"} /\ backend = "postgres" =>
         reader[x].after <= summary'.hw
  BY <1>2, <1>3, SoundBefore DEF ReaderGood
<1>6. backend' = backend /\ (Sound' => Sound) BY SoundBefore
<1> QED BY <1>4, <1>5, <1>6 DEF ReaderGood

\* assemble_context's cap only drops turns from the front.
LEMMA AssembledGood ==
  ASSUME TypeOK, NEW s \in Summary, NEW after \in Nat,
         Sound => /\ s.text = 1..s.hw /\ s.hw <= after
                  /\ backend = "postgres" => after <= summary.hw
                  /\ backend = "in_memory" => after = s.hw
  PROVE  ReaderGood(Assembled(s, after, Len(turns)))
<1>1. Len(turns) \in Nat /\ HotZoneCap \in Nat BY SummarizerAssumption DEF TypeOK
<1>2. Capped(after, Len(turns)) >= after BY <1>1 DEF Capped
<1> QED BY <1>2 DEF Assembled, ReaderGood

\* Each read of assemble_context leaves its context good.
LEMMA ReaderMakesGood ==
  ASSUME IInv, NEW x \in Readers, ReaderGood(reader[x]), ReaderStep(x)
  PROVE  ReaderGood(reader[x])'
<1>1. /\ TypeOK /\ reader \in [Readers -> ReaderState] /\ reader[x] \in ReaderState
      /\ summary \in Summary /\ reader[x].summary \in Summary /\ reader[x].after \in Nat
      /\ summary.hw \in Nat /\ reader[x].summary.hw \in Nat
  BY DEF IInv, TypeOK, ReaderState, Summary
<1>2. UNCHANGED <<backend, turns, summary, clears>> BY ReaderOnlyReads
<1>3. Sound => summary.text = 1..summary.hw
  BY DEF IInv, SummaryFoldsPrefix, SummaryNeverSkips
<1>4. SUFFICES ReaderGood(reader'[x]) BY <1>2 DEF ReaderGood, Sound
<1>5. backend \in {"in_memory", "postgres"} BY <1>1, SummarizerAssumption DEF TypeOK
<1>6. CASE AssembleInMemory(x)
  <2>1. reader'[x] = Assembled(summary, summary.hw, Len(turns))
    BY <1>1, <1>6 DEF AssembleInMemory
  <2> QED BY <1>1, <1>3, <1>6, <2>1, AssembledGood DEF AssembleInMemory
<1>7. CASE ReadSummary(x)
  <2>1. reader'[x].pc = "since" /\ reader'[x].summary = summary
    BY <1>1, <1>7 DEF ReadSummary, ReaderState
  <2> QED BY <1>1, <1>3, <1>7, <2>1 DEF ReadSummary, ReaderGood
<1>8. CASE ReadSummaryAgain(x)
  <2>1. /\ reader'[x].pc = "turns" /\ reader'[x].summary = reader[x].summary
        /\ reader'[x].after = summary.hw
    BY <1>1, <1>8 DEF ReadSummaryAgain, ReaderState
  <2>2. reader[x].pc = "since" BY <1>8 DEF ReadSummaryAgain
  <2> QED BY <1>1, <2>1, <2>2 DEF ReaderGood
<1>9. CASE ReadTurns(x)
  <2>1. reader[x].pc = "turns" BY <1>9 DEF ReadTurns
  <2>2. reader'[x] = Assembled(reader[x].summary, reader[x].after, Len(turns))
    BY <1>1, <1>9 DEF ReadTurns
  <2> QED BY <1>1, <2>1, <2>2, AssembledGood DEF ReaderGood
<1>10. CASE ReadFails(x)
  <2>1. reader'[x].pc = "failed" BY <1>1, <1>10 DEF ReadFails, IdleReader
  <2> QED BY <2>1 DEF ReaderGood
<1> QED BY <1>6, <1>7, <1>8, <1>9, <1>10 DEF ReaderStep

\* Every context that is being assembled, or was, is good.
LEMMA ReadersAreGood == Spec => []\A x \in Readers : ReaderGood(reader[x])
<1> DEFINE Good == \A x \in Readers : ReaderGood(reader[x])
<1>1. Init => Good BY DEF Init, IdleReader, ReaderGood
<1>2. IInv /\ Good /\ [Next]_vars => Good'
  <2> SUFFICES ASSUME IInv, Good, [Next]_vars, NEW x \in Readers PROVE ReaderGood(reader[x])'
    OBVIOUS
  <2>1. CASE reader'[x] = reader[x] BY <2>1, ReaderStaysGood
  <2>2. CASE ReaderStep(x) BY <2>2, ReaderMakesGood
  <2>3. reader'[x] = reader[x] \/ ReaderStep(x)
    <3>1. ASSUME NEW r \in Requests, RecordStep(r) PROVE reader' = reader
      BY <3>1, RecordOnlyAppends DEF IInv
    <3>2. ASSUME NEW w \in Workers, WorkerStep(w) PROVE reader' = reader
      BY <3>2 DEF WorkerStep, RunStep, FetchInMemory, StartRun, Refetch, ReadCurrent,
                  GetSummaryAgain, ListTurns, Upsert, RunFails, LoseRace
    <3>3. ASSUME NEW y \in Readers, ReaderStep(y), y # x PROVE reader'[x] = reader[x]
      BY <3>3 DEF IInv, TypeOK, ReaderStep, AssembleInMemory, ReadSummary, ReadSummaryAgain,
                  ReadTurns, ReadFails
    <3> QED BY <3>1, <3>2, <3>3 DEF Next, ClearSummary, vars
  <2> QED BY <2>1, <2>2, <2>3
<1> HIDE DEF Good
<1>3. Spec => []Good BY <1>1, <1>2, InvariantHolds, PTL DEF Spec
<1> QED BY <1>3, PTL DEF Good

\* Whatever runs between the reads of assemble_context, no turn is given to the model both
\* in the summary and verbatim.
THEOREM NothingIsRepeated == Spec => []ContextRepeatsNothing
<1>1. TypeOK /\ (\A x \in Readers : ReaderGood(reader[x])) => ContextRepeatsNothing
  <2> SUFFICES ASSUME TypeOK, NEW x \in Readers, ReaderGood(reader[x]),
                      reader[x].pc = "done", Sound
               PROVE  reader[x].summary.text \cap (reader[x].from + 1)..reader[x].upto = {}
    BY DEF ContextRepeatsNothing
  <2>1. /\ reader[x].summary.hw \in Nat /\ reader[x].after \in Nat
        /\ reader[x].from \in Nat /\ reader[x].upto \in Nat
    BY DEF TypeOK, ReaderState, Summary
  <2>2. /\ reader[x].summary.text = 1..reader[x].summary.hw
        /\ reader[x].summary.hw <= reader[x].after /\ reader[x].from >= reader[x].after
    BY DEF ReaderGood
  <2> QED BY <2>1, <2>2
<1> QED BY <1>1, TypeCorrect, ReadersAreGood, PTL

\* What a context leaves out besides the capped turns stands in the summary the store holds
\* by then.
THEOREM GapIsSummarized == Spec => []ContextGapIsSummarized
<1>1. IInv /\ (\A x \in Readers : ReaderGood(reader[x])) => ContextGapIsSummarized
  <2> SUFFICES ASSUME IInv, NEW x \in Readers, ReaderGood(reader[x]),
                      reader[x].pc = "done", Sound,
                      NEW i \in 1..reader[x].upto,
                      i \notin reader[x].summary.text,
                      i \notin (reader[x].after + 1)..reader[x].upto
               PROVE  i \in (IF backend = "in_memory" THEN {} ELSE summary.text)
    BY DEF ContextGapIsSummarized
  <2>1. /\ reader[x].summary.hw \in Nat /\ reader[x].after \in Nat
        /\ reader[x].upto \in Nat /\ summary.hw \in Nat
        /\ backend \in {"in_memory", "postgres"}
    BY SummarizerAssumption DEF IInv, TypeOK, ReaderState, Summary
  <2>2. i > reader[x].summary.hw /\ i <= reader[x].after
    BY <2>1 DEF ReaderGood
  <2>3. backend = "postgres" /\ reader[x].after <= summary.hw
    BY <2>1, <2>2 DEF ReaderGood
  <2>4. summary.text = 1..summary.hw
    BY DEF IInv, SummaryFoldsPrefix, SummaryNeverSkips
  <2> QED BY <2>1, <2>2, <2>3, <2>4
<1> QED BY <1>1, InvariantHolds, ReadersAreGood, PTL

-----------------------------------------------------------------------------
(* What requests record *)

\* What the log holds of an exchange, as far as record() has got with it.
LogGood ==
    /\ \A r \in Requests, i \in 1..Len(turns) : turns[i].by = r =>
         /\ request[r] \in {"assistant", "done"}
         /\ request[r] = "assistant" => turns[i].role = "user"
    /\ backend = "in_memory" => \A r \in Requests : request[r] \in {"new", "done"}
    /\ ExchangesInOrder

\* A step that appends nothing, and lets a request only get further.
LEMMA LogUntouched ==
  ASSUME LogGood, UNCHANGED <<backend, turns>>,
         \A q \in Requests : \/ request'[q] = request[q]
                             \/ request'[q] = "done"
                             \/ backend # "in_memory" /\ request[q] = "new"
  PROVE  LogGood'
<1>1. ExchangesInOrder' BY DEF LogGood, ExchangesInOrder
<1>2. \A q \in Requests, i \in 1..Len(turns) : turns[i].by = q =>
         /\ request'[q] \in {"assistant", "done"}
         /\ request'[q] = "assistant" => turns[i].role = "user"
  BY DEF LogGood
<1>3. backend = "in_memory" => \A q \in Requests : request'[q] \in {"new", "done"}
  BY DEF LogGood
<1> QED BY <1>1, <1>2, <1>3 DEF LogGood

\* Appending a request's next turn.
LEMMA LogAppended ==
  ASSUME TypeOK, LogGood, NEW r \in Requests, NEW next, NEW t \in Turn, t.by = r,
         turns' = Append(turns, t),
         request' = [request EXCEPT ![r] = next],
         backend' = backend, backend # "in_memory",
         \/ request[r] = "user" /\ t.role = "user" /\ next = "assistant"
         \/ request[r] = "assistant" /\ t.role = "assistant" /\ next = "done"
  PROVE  LogGood'
<1>1. /\ turns \in Seq(Turn) /\ Len(turns) \in Nat
      /\ Len(turns') = Len(turns) + 1 /\ turns'[Len(turns) + 1] = t
      /\ \A i \in 1..Len(turns) : turns'[i] = turns[i]
  BY DEF TypeOK
<1>2. \A q \in Requests : request'[q] = (IF q = r THEN next ELSE request[q])
  BY DEF TypeOK
<1>3. \A i \in 1..Len(turns) : turns[i].by = r =>
        request[r] = "assistant" /\ turns[i].role = "user"
  BY DEF LogGood
<1>4. ASSUME NEW q \in Requests, NEW i \in 1..Len(turns'), turns'[i].by = q
      PROVE  /\ request'[q] \in {"assistant", "done"}
             /\ request'[q] = "assistant" => turns'[i].role = "user"
  <2>1. CASE i = Len(turns) + 1 BY <1>1, <1>2, <1>4, <2>1
  <2>2. CASE i \in 1..Len(turns) BY <1>1, <1>2, <1>3, <1>4, <2>2 DEF LogGood
  <2> QED BY <1>1, <2>1, <2>2
<1>5. ExchangesInOrder'
  <2> SUFFICES ASSUME NEW i \in 1..Len(turns'), NEW j \in 1..Len(turns'),
                      turns'[i].by = turns'[j].by, i < j
               PROVE  turns'[i].role = "user" /\ turns'[j].role = "assistant"
    BY DEF ExchangesInOrder
  <2>1. i \in 1..Len(turns) BY <1>1
  <2>2. CASE j = Len(turns) + 1 BY <1>1, <1>3, <2>1, <2>2
  <2>3. CASE j \in 1..Len(turns) BY <1>1, <2>1, <2>3 DEF LogGood, ExchangesInOrder
  <2> QED BY <1>1, <2>2, <2>3
<1> QED BY <1>4, <1>5 DEF LogGood

\* The in-memory record() appends the whole exchange.
LEMMA LogRecorded ==
  ASSUME TypeOK, LogGood, NEW r \in Requests, RecordInMemory(r)
  PROVE  LogGood'
<1>1. PICK exchange \in {<<UserTurn(r), AssistantTurn(r)>>, <<AssistantTurn(r)>>} :
        turns' = turns \o exchange
  BY DEF RecordInMemory
<1>2. /\ turns \in Seq(Turn) /\ Len(turns) \in Nat
      /\ UserTurn(r) \in Turn /\ AssistantTurn(r) \in Turn
  BY TurnTypes DEF TypeOK
<1>3. /\ backend' = backend /\ backend = "in_memory" /\ request[r] = "new"
      /\ request' = [request EXCEPT ![r] = "done"]
  BY DEF RecordInMemory
<1>4. \A q \in Requests : request'[q] = (IF q = r THEN "done" ELSE request[q])
  BY <1>3 DEF TypeOK
<1>5. \A i \in 1..Len(turns) : turns[i].by # r BY <1>3 DEF LogGood
<1>6. UserTurn(r).by = r /\ UserTurn(r).role = "user"
      /\ AssistantTurn(r).by = r /\ AssistantTurn(r).role = "assistant"
  BY DEF UserTurn, AssistantTurn
<1>7. /\ \A i \in 1..Len(turns) : turns'[i] = turns[i]
      /\ Len(turns') \in Nat
      /\ \A i \in 1..Len(turns') : i \in 1..Len(turns) \/ turns'[i].by = r
      /\ \A i, j \in 1..Len(turns') :
           i \notin 1..Len(turns) /\ j \notin 1..Len(turns) /\ i < j =>
             j = i + 1 /\ turns'[i].role = "user"
                       /\ turns'[j].role = "assistant"
      /\ Len(turns') >= Len(turns)
  <2> HIDE DEF Turn
  <2>1. CASE exchange = <<AssistantTurn(r)>>
    <3>1. /\ turns' = Append(turns, AssistantTurn(r)) BY <1>1, <1>2, <2>1
    <3>2. /\ Len(turns') = Len(turns) + 1 /\ turns'[Len(turns) + 1] = AssistantTurn(r)
          /\ \A i \in 1..Len(turns) : turns'[i] = turns[i]
      BY <1>2, <3>1
    <3> QED BY <1>2, <1>6, <3>2
  <2>2. CASE exchange = <<UserTurn(r), AssistantTurn(r)>>
    <3>1. turns' = Append(Append(turns, UserTurn(r)), AssistantTurn(r)) BY <1>1, <1>2, <2>2
    <3>2. /\ Len(turns') = Len(turns) + 2
          /\ turns'[Len(turns) + 1] = UserTurn(r) /\ turns'[Len(turns) + 2] = AssistantTurn(r)
          /\ \A i \in 1..Len(turns) : turns'[i] = turns[i]
      BY <1>2, <3>1
    <3> QED BY <1>2, <1>6, <3>2
  <2> QED BY <1>1, <2>1, <2>2
<1>8. ASSUME NEW q \in Requests, NEW i \in 1..Len(turns'), turns'[i].by = q
      PROVE  /\ request'[q] \in {"assistant", "done"}
             /\ request'[q] = "assistant" => turns'[i].role = "user"
  <2>1. CASE i \in 1..Len(turns) BY <1>4, <1>7, <1>8, <2>1 DEF LogGood
  <2>2. CASE i \notin 1..Len(turns) BY <1>4, <1>7, <1>8, <2>2
  <2> QED BY <2>1, <2>2
<1>9. ExchangesInOrder'
  <2> SUFFICES ASSUME NEW i \in 1..Len(turns'), NEW j \in 1..Len(turns'),
                      turns'[i].by = turns'[j].by, i < j
               PROVE  /\ turns'[i].role = "user" /\ turns'[j].role = "assistant"
                      /\ j = i + 1
    BY <1>3 DEF ExchangesInOrder
  <2>1. CASE j \in 1..Len(turns)
    <3>1. i \in 1..Len(turns) BY <1>2, <2>1
    <3> QED BY <1>3, <1>7, <2>1, <3>1 DEF LogGood, ExchangesInOrder
  <2>2. CASE i \in 1..Len(turns) /\ j \notin 1..Len(turns)
    BY <1>5, <1>7, <2>2
  <2>3. CASE i \notin 1..Len(turns) /\ j \notin 1..Len(turns) BY <1>7, <2>3
  <2>4. CASE i \notin 1..Len(turns) /\ j \in 1..Len(turns) BY <1>2, <2>4
  <2> QED BY <2>1, <2>2, <2>3, <2>4
<1>10. \A q \in Requests : request'[q] \in {"new", "done"} BY <1>3, <1>4 DEF LogGood
<1> QED BY <1>8, <1>9, <1>10 DEF LogGood

\* Whichever requests record at the same time and wherever a store call fails, the log holds
\* of an exchange at most its question and then its answer.
THEOREM ExchangesAreInOrder == Spec => []ExchangesInOrder
<1>1. Init => LogGood BY DEF Init, LogGood, ExchangesInOrder
<1>2. TypeOK /\ LogGood /\ [Next]_vars => LogGood'
  <2> SUFFICES ASSUME TypeOK, LogGood, [Next]_vars PROVE LogGood' OBVIOUS
  <2>0. request \in [Requests -> {"new", "user", "assistant", "done"}] BY DEF TypeOK
  <2>1. ASSUME NEW r \in Requests, RecordStep(r) PROVE LogGood'
    <3>1. CASE RecordInMemory(r) BY <3>1, LogRecorded
    <3>2. CASE OpenSession(r) \/ RecordFails(r)
      <4>1. /\ UNCHANGED <<backend, turns>>
            /\ \E next : request' = [request EXCEPT ![r] = next]
            /\ RecordFails(r) => request' = [request EXCEPT ![r] = "done"]
            /\ OpenSession(r) => backend # "in_memory" /\ request[r] = "new"
        BY <3>2 DEF OpenSession, RecordFails
      <4>2. \A q \in Requests : \/ request'[q] = request[q]
                                \/ request'[q] = "done"
                                \/ backend # "in_memory" /\ request[q] = "new"
        BY <2>0, <3>2, <4>1
      <4> QED BY <4>1, <4>2, LogUntouched
    <3>3. CASE AppendUser(r)
      <4>1. UserTurn(r) \in Turn /\ UserTurn(r).by = r /\ UserTurn(r).role = "user"
        BY TurnTypes DEF UserTurn
      <4>2. backend # "in_memory" BY <3>3 DEF AppendUser, LogGood
      <4> QED BY <3>3, <4>1, <4>2, LogAppended DEF AppendUser
    <3>4. CASE AppendAssistant(r)
      <4>1. /\ AssistantTurn(r) \in Turn /\ AssistantTurn(r).by = r
            /\ AssistantTurn(r).role = "assistant"
        BY TurnTypes DEF AssistantTurn
      <4>2. backend # "in_memory" BY <3>4 DEF AppendAssistant, LogGood
      <4> QED BY <3>4, <4>1, <4>2, LogAppended DEF AppendAssistant
    <3> QED BY <2>1, <3>1, <3>2, <3>3, <3>4 DEF RecordStep
  <2>2. CASE UNCHANGED <<backend, turns, request>> BY <2>2 DEF LogGood, ExchangesInOrder
  <2>3. ASSUME NEW w \in Workers, WorkerStep(w) PROVE UNCHANGED <<backend, turns, request>>
    BY <2>3 DEF WorkerStep, RunStep, FetchInMemory, StartRun, Refetch, ReadCurrent,
                GetSummaryAgain, ListTurns, Upsert, RunFails, LoseRace
  <2>4. ASSUME NEW x \in Readers, ReaderStep(x) PROVE UNCHANGED <<backend, turns, request>>
    BY <2>4, ReaderOnlyReads
  <2>5. CASE ClearSummary \/ UNCHANGED vars BY <2>2, <2>5 DEF ClearSummary, vars
  <2> QED BY <2>1, <2>2, <2>3, <2>4, <2>5 DEF Next
<1>3. LogGood => ExchangesInOrder BY DEF LogGood
<1> QED BY <1>1, <1>2, <1>3, TypeCorrect, PTL DEF Spec
=============================================================================
