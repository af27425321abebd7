----------------------------- MODULE Summarizer -----------------------------
(***************************************************************************)
(* The tiered memory of one session, (tenant_id, session_id): L0 turns, L2 *)
(* summary, and the three kinds of coroutine that share them.              *)
(*                                                                         *)
(*   requests   MemoryProvider.record: append the user turn, then the      *)
(*              assistant turn;                                            *)
(*   workers    SummarizerWorker.run_once: read, call the model, write     *)
(*              back under a version check, refetch and retry on a race;   *)
(*   readers    assemble_context in FULL mode: summary, then the turns the *)
(*              summary does not cover.                                    *)
(*                                                                         *)
(* A step ends where the code can suspend.  The in-memory store never      *)
(* suspends, so a chain of its calls is one step; with Postgres every      *)
(* store call is a step of its own, and the call may raise.  The store's   *)
(* calls are atomic here, as its write lock makes them in one process.     *)
(*                                                                         *)
(* A turn's id is its position in the log.  The text of a summary is the   *)
(* set of turns folded into it, directly or through the summary it was     *)
(* made from.                                                              *)
(***************************************************************************)
EXTENDS Integers, Sequences

CONSTANTS Workers,      \* concurrent run_once calls
          Readers,      \* concurrent assemble_context calls
          Requests,     \* completed chat requests, each recorded once
          Backends,     \* the memory backends to consider
          Threshold,    \* SummarizerConfig.turn_threshold
          MaxRetries,   \* SummarizerConfig.max_retries
          HotZoneCap,   \* DEFAULT_HOT_ZONE_CAP
          MaxClears     \* bound on clear_summary calls

ASSUME SummarizerAssumption ==
    /\ Backends \subseteq {"in_memory", "postgres"}
    /\ Threshold \in Nat \ {0}     \* needs_summary_refresh raises otherwise
    /\ MaxRetries \in Nat \ {0}
    /\ HotZoneCap \in Nat \ {0}
    /\ MaxClears \in Nat

VARIABLES backend,   \* GatewaySettings.memory_backend, fixed at start
          turns,     \* L0
          summary,   \* L2, or NoSummary
          clears,    \* how many times clear_summary removed a row
          request,   \* [Requests -> where its record() stands]
          worker,    \* [Workers -> the locals of its run_once]
          reader     \* [Readers -> the locals of its assemble_context]

vars == <<backend, turns, summary, clears, request, worker, reader>>

-----------------------------------------------------------------------------
(* Values *)

\* None, read as `current.version if current else 0` reads it.
NoSummary == [version |-> 0, hw |-> 0, text |-> {}]

Summary == [version : Nat, hw : Nat, text : SUBSET (Nat \ {0})]

Turn == [by : Requests, role : {"user", "assistant"}]

\* `current` is the first get_summary; (after, upto) is the slice of turns that
\* turns_since_summary returned: those past position `after`, up to `upto`.
WorkerState ==
    [pc : {"idle", "refetch", "since", "turns", "summarize"},
     attempt : Nat, current : Summary, after : Nat, upto : Nat]

IdleWorker ==
    [pc |-> "idle", attempt |-> 0, current |-> NoSummary, after |-> 0, upto |-> 0]

\* `from` is `after` once the cap has dropped the oldest turns.
ReaderState ==
    [pc : {"idle", "since", "turns", "done", "failed"},
     summary : Summary, after : Nat, from : Nat, upto : Nat]

IdleReader ==
    [pc |-> "idle", summary |-> NoSummary, after |-> 0, from |-> 0, upto |-> 0]

TypeOK ==
    /\ backend \in Backends
    /\ turns \in Seq(Turn)
    /\ summary \in Summary
    /\ clears \in Nat
    /\ request \in [Requests -> {"new", "user", "assistant", "done"}]
    /\ worker \in [Workers -> WorkerState]
    /\ reader \in [Readers -> ReaderState]

Init ==
    /\ backend \in Backends
    /\ turns = <<>>
    /\ summary = NoSummary
    /\ clears = 0
    /\ request = [r \in Requests |-> "new"]
    /\ worker = [w \in Workers |-> IdleWorker]
    /\ reader = [x \in Readers |-> IdleReader]

-----------------------------------------------------------------------------
(* record(): the request path appends the exchange *)

\* Mutant: the user's message is stored under another role.
UserTurnAsTool(r) == [by |-> r, role |-> "tool"]

UserTurn(r) == [by |-> r, role |-> "user"]
AssistantTurn(r) == [by |-> r, role |-> "assistant"]

\* Mutant: the answer is appended before the question.
RecordReversed(r) ==
    /\ backend = "in_memory" /\ request[r] = "new"
    /\ turns' = turns \o <<AssistantTurn(r), UserTurn(r)>>
    /\ request' = [request EXCEPT ![r] = "done"]
    /\ UNCHANGED <<backend, summary, clears, worker, reader>>

\* In memory both appends happen without a suspension between them.  A request
\* need not hold a user message; then only the answer is recorded.
RecordInMemory(r) ==
    /\ backend = "in_memory" /\ request[r] = "new"
    /\ \E exchange \in {<<UserTurn(r), AssistantTurn(r)>>, <<AssistantTurn(r)>>} :
         turns' = turns \o exchange
    /\ request' = [request EXCEPT ![r] = "done"]
    /\ UNCHANGED <<backend, summary, clears, worker, reader>>

OpenSession(r) ==
    /\ backend = "postgres" /\ request[r] = "new"
    /\ \E next \in {"user", "assistant"} : request' = [request EXCEPT ![r] = next]
    /\ UNCHANGED <<backend, turns, summary, clears, worker, reader>>

AppendUser(r) ==
    /\ request[r] = "user"
    /\ turns' = Append(turns, UserTurn(r))
    /\ request' = [request EXCEPT ![r] = "assistant"]
    /\ UNCHANGED <<backend, summary, clears, worker, reader>>

AppendAssistant(r) ==
    /\ request[r] = "assistant"
    /\ turns' = Append(turns, AssistantTurn(r))
    /\ request' = [request EXCEPT ![r] = "done"]
    /\ UNCHANGED <<backend, summary, clears, worker, reader>>

\* A store call raises: record() logs it and drops what is left of the exchange.
RecordFails(r) ==
    /\ backend = "postgres" /\ request[r] # "done"
    /\ request' = [request EXCEPT ![r] = "done"]
    /\ UNCHANGED <<backend, turns, summary, clears, worker, reader>>

-----------------------------------------------------------------------------
(* run_once(): the summarizer *)

\* run_once after its reads: go on to the model only with enough new turns and an
\* attempt left.
Fetched(attempt, current, after, upto) ==
    IF upto - after >= Threshold /\ attempt <= MaxRetries
      THEN [pc |-> "summarize", attempt |-> attempt, current |-> current,
            after |-> after, upto |-> upto]
      ELSE IdleWorker

\* get_summary and turns_since_summary against the in-memory store: one step.
FetchInMemory(w) ==
    /\ backend = "in_memory" /\ worker[w].pc = "idle"
    /\ worker' = [worker EXCEPT ![w] = Fetched(1, summary, summary.hw, Len(turns))]
    /\ UNCHANGED <<backend, turns, summary, clears, request, reader>>

ReadCurrent(w, attempt) ==
    /\ worker' = [worker EXCEPT
         ![w] = [IdleWorker EXCEPT !.pc = "since", !.attempt = attempt, !.current = summary]]
    /\ UNCHANGED <<backend, turns, summary, clears, request, reader>>

StartRun(w) == backend = "postgres" /\ worker[w].pc = "idle" /\ ReadCurrent(w, 1)

Refetch(w) == worker[w].pc = "refetch" /\ ReadCurrent(w, worker[w].attempt)

\* turns_since_summary reads the summary again ...
GetSummaryAgain(w) ==
    /\ worker[w].pc = "since"
    /\ worker' = [worker EXCEPT ![w].pc = "turns", ![w].after = summary.hw]
    /\ UNCHANGED <<backend, turns, summary, clears, request, reader>>

\* ... and then the log.
ListTurns(w) ==
    /\ worker[w].pc = "turns"
    /\ worker' = [worker EXCEPT
         ![w] = Fetched(worker[w].attempt, worker[w].current, worker[w].after, Len(turns))]
    /\ UNCHANGED <<backend, turns, summary, clears, request, reader>>

\* The model call raises or yields nothing usable, or a store call raises.
RunFails(w) ==
    /\ worker[w].pc # "idle"
    /\ worker[w].pc = "summarize" \/ backend = "postgres"
    /\ worker' = [worker EXCEPT ![w] = IdleWorker]
    /\ UNCHANGED <<backend, turns, summary, clears, request, reader>>

\* Mutant: the high-water mark is one past the last turn folded.
NewSummaryPastEnd(w) ==
    LET wk == worker[w]
    IN [version |-> summary.version + 1,
        hw      |-> wk.upto + 1,
        text    |-> wk.current.text \cup (wk.after + 1)..(wk.upto + 1)]

\* The summary a worker's model call produced: the previous text with the new turns.
NewSummary(w) ==
    LET wk == worker[w]
    IN [version |-> summary.version + 1,
        hw      |-> wk.upto,
        text    |-> wk.current.text \cup (wk.after + 1)..wk.upto]

\* Mutant: expected_version is not passed, which force-overwrites.
UpsertForced(w) ==
    /\ worker[w].pc = "summarize"
    /\ summary' = NewSummary(w)
    /\ worker' = [worker EXCEPT ![w] = IdleWorker]
    /\ UNCHANGED <<backend, turns, clears, request, reader>>

\* The model has answered and upsert_summary finds the version it expects.
Upsert(w) ==
    /\ worker[w].pc = "summarize"
    /\ worker[w].current.version = summary.version
    /\ summary' = NewSummary(w)
    /\ worker' = [worker EXCEPT ![w] = IdleWorker]
    /\ UNCHANGED <<backend, turns, clears, request, reader>>

\* Mutant: a lost race is retried with what the worker holds, and not counted.
LoseRaceNoRefetch(w) ==
    /\ worker[w].pc = "summarize"
    /\ worker[w].current.version # summary.version
    /\ UNCHANGED vars

\* SummaryVersionMismatch: refetch and go round again.
LoseRace(w) ==
    /\ worker[w].pc = "summarize"
    /\ worker[w].current.version # summary.version
    /\ worker' = [worker EXCEPT ![w] =
         IF backend = "in_memory"
           THEN Fetched(worker[w].attempt + 1, summary, summary.hw, Len(turns))
           ELSE [IdleWorker EXCEPT !.pc = "refetch", !.attempt = worker[w].attempt + 1]]
    /\ UNCHANGED <<backend, turns, summary, clears, request, reader>>

-----------------------------------------------------------------------------
(* assemble_context(): what a request is given *)

\* Mutant: the hot zone is always the last turns of the log.
CappedLastTurns(after, upto) == IF upto > HotZoneCap THEN upto - HotZoneCap ELSE 0

Capped(after, upto) == IF upto - after > HotZoneCap THEN upto - HotZoneCap ELSE after

Assembled(s, after, upto) ==
    [pc |-> "done", summary |-> s, after |-> after, from |-> Capped(after, upto),
     upto |-> upto]

AssembleInMemory(x) ==
    /\ backend = "in_memory" /\ reader[x].pc = "idle"
    /\ reader' = [reader EXCEPT ![x] = Assembled(summary, summary.hw, Len(turns))]
    /\ UNCHANGED <<backend, turns, summary, clears, request, worker>>

ReadSummary(x) ==
    /\ backend = "postgres" /\ reader[x].pc = "idle"
    /\ reader' = [reader EXCEPT ![x].pc = "since", ![x].summary = summary]
    /\ UNCHANGED <<backend, turns, summary, clears, request, worker>>

\* Mutant: the slice starts one turn too late.
ReadSummaryAgainSkipping(x) ==
    /\ reader[x].pc = "since"
    /\ reader' = [reader EXCEPT ![x].pc = "turns", ![x].after = summary.hw + 1]
    /\ UNCHANGED <<backend, turns, summary, clears, request, worker>>

ReadSummaryAgain(x) ==
    /\ reader[x].pc = "since"
    /\ reader' = [reader EXCEPT ![x].pc = "turns", ![x].after = summary.hw]
    /\ UNCHANGED <<backend, turns, summary, clears, request, worker>>

ReadTurns(x) ==
    /\ reader[x].pc = "turns"
    /\ reader' = [reader EXCEPT
         ![x] = Assembled(reader[x].summary, reader[x].after, Len(turns))]
    /\ UNCHANGED <<backend, turns, summary, clears, request, worker>>

\* A read raises: the request goes on with an empty context.
ReadFails(x) ==
    /\ backend = "postgres" /\ reader[x].pc \in {"idle", "since", "turns"}
    /\ reader' = [reader EXCEPT ![x] = [IdleReader EXCEPT !.pc = "failed"]]
    /\ UNCHANGED <<backend, turns, summary, clears, request, worker>>

-----------------------------------------------------------------------------

\* clear_summary: part of the store's interface, called from outside the gateway.
ClearSummary ==
    /\ summary # NoSummary
    /\ clears < MaxClears
    /\ summary' = NoSummary
    /\ clears' = clears + 1
    /\ UNCHANGED <<backend, turns, request, worker, reader>>

RecordStep(r) ==
    \/ RecordInMemory(r) \/ OpenSession(r) \/ AppendUser(r) \/ AppendAssistant(r)
    \/ RecordFails(r)

\* What a run_once goes on to do when nothing raises.
RunStep(w) ==
    \/ Refetch(w) \/ GetSummaryAgain(w) \/ ListTurns(w)
    \/ Upsert(w) \/ LoseRace(w)

WorkerStep(w) == FetchInMemory(w) \/ StartRun(w) \/ RunStep(w) \/ RunFails(w)

ReaderStep(x) ==
    \/ AssembleInMemory(x) \/ ReadSummary(x) \/ ReadSummaryAgain(x) \/ ReadTurns(x)
    \/ ReadFails(x)

Next ==
    \/ \E r \in Requests : RecordStep(r)
    \/ \E w \in Workers : WorkerStep(w)
    \/ \E x \in Readers : ReaderStep(x)
    \/ ClearSummary

Spec == Init /\ [][Next]_vars

\* The event loop runs every ready task: a run_once that has started goes on, and no
\* call it makes need fail.  Nothing in the gateway starts one: starting is not fair.
FairSpec == Spec /\ \A w \in Workers : WF_vars(RunStep(w))

-----------------------------------------------------------------------------
(* Properties *)

\* Version numbers never restart, or reads are never torn.
Sound == backend = "in_memory" \/ clears = 0

\* Whatever races the workers run, the text of the summary stands for exactly the
\* turns up to its high-water mark: none is skipped for good and none is promised
\* that was not folded.  (run_once pairs a `current` read by one call with turns
\* selected against a summary read by another; the version check in upsert_summary
\* has to reject every torn pair.)
SummaryNeverSkips == summary.text = 1..summary.hw

SummaryFoldsPrefix == Sound => SummaryNeverSkips

\* The high-water mark names a turn of the log, and a stored summary was worth it.
HighWaterInLog == summary # NoSummary => summary.hw \in Threshold..Len(turns)

\* The memory is a SummaryLog: while no clear has happened, every upsert moves the
\* high-water mark forward by a threshold's worth of turns, so a worker holding an
\* old summary can never put it back over a newer one.
Log == INSTANCE SummaryLog WITH
         logged <- Len(turns), covered <- summary.hw, cleared <- (clears > 0)

ImplementsSummaryLog == Log!Spec

\* assemble_context never gives the model a turn twice, in the summary and verbatim.
ContextRepeatsNothing ==
    \A x \in Readers :
      reader[x].pc = "done" /\ Sound =>
        reader[x].summary.text \cap (reader[x].from + 1)..reader[x].upto = {}

\* The turns a context shows nowhere were dropped by the hot-zone cap, or stand in
\* the summary the store holds by then: the next context shows them again.
ContextGapIsSummarized ==
    \A x \in Readers :
      LET c == reader[x]
          shown == c.summary.text \cup (c.after + 1)..c.upto
      IN c.pc = "done" /\ Sound =>
           (1..c.upto) \ shown \subseteq (IF backend = "in_memory" THEN {} ELSE summary.text)

\* Each exchange is logged at most once, question before answer, and in memory with
\* nothing between the two.  record() may leave half of one: the question alone if a call
\* fails after it, the answer alone if the request holds no user message.
ExchangesInOrder ==
    \A i, j \in 1..Len(turns) :
      turns[i].by = turns[j].by /\ i < j =>
        /\ turns[i].role = "user" /\ turns[j].role = "assistant"
        /\ backend = "in_memory" => j = i + 1

\* A started run_once ends, even when no call fails: a lost race leads to fresh reads
\* and to one retry fewer.
RunOnceEnds == \A w \in Workers : worker[w].pc # "idle" ~> worker[w].pc = "idle"
=============================================================================
