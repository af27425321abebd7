---------------------------- MODULE SessionStall ----------------------------
(***************************************************************************)
(* Stall detection in shadow mode: SessionStallStore, detect_stall and the *)
(* two hooks that call them for -auto requests.                            *)
(*                                                                         *)
(* A request carries its session's whole history, which the client may     *)
(* have compacted, and what is detected depends on it alone; the store     *)
(* counts the requests it saw and remembers that a session was reported.   *)
(* A hook runs without an await, so a request is one step.  A turn is an   *)
(* assistant's message, with the tool it calls, and the result that comes  *)
(* back.                                                                   *)
(***************************************************************************)
EXTENDS Integers, FiniteSets, Sequences, SequencesExt

CONSTANTS Sessions,
          Tools,           \* the classes of tools that are called
          MaxEntries,      \* the store's cap
          Ttl,             \* its time to live
          Repeats,         \* MODELMELD_STALL_REPEAT_THRESHOLD
          Errored,         \* MODELMELD_STALL_ERROR_THRESHOLD
          TurnFloor,       \* MODELMELD_STALL_MAX_TURNS
          MaxTurns,        \* bound on the turns of a history
          MaxRequests,     \* bound on the requests, of all sessions
          MaxTime          \* bound on the clock

ASSUME SessionStallAssumption ==
    /\ Tools \subseteq {"none", "edit", "read", "other"}
    /\ MaxEntries \in Nat \ {0} /\ Ttl \in Nat
    /\ Repeats \in Nat /\ Errored \in Nat /\ TurnFloor \in Nat
    /\ MaxTurns \in Nat /\ MaxRequests \in Nat /\ MaxTime \in Nat

VARIABLES store,      \* _entries: a function on the sessions it tracks
          clock,
          requests,   \* how many requests came
          history,    \* the turns that the next request carries
          verdict,    \* what was detected in them, if a request came since they changed
          reported,   \* history: how often "would escalate" was logged for a session
          stays       \* history: how often a session was taken into the store

stallVars == <<store, clock, requests, history, verdict, reported, stays>>

-----------------------------------------------------------------------------
\* "none" is an assistant's message without a tool call; it has no result.
Turns == {turn \in [tool : Tools, error : BOOLEAN] : turn.tool = "none" => ~turn.error}

\* The length of the longest end of h whose turns call one of these tools.
TrailingRun(h, tools) ==
    Max({n \in 0..Len(h) : \A i \in (Len(h) - n + 1)..Len(h) : h[i].tool \in tools})

CallsNothing(h) == h = <<>> \/ h[Len(h)].tool = "none"

\* Mutant: any tool call counts as a repetition.
TrailingAnyRun(h) == IF CallsNothing(h) THEN 0 ELSE TrailingRun(h, Tools \ {"none"})

\* _trailing_identical_run
TrailingIdenticalRun(h) == IF CallsNothing(h) THEN 0 ELSE TrailingRun(h, {h[Len(h)].tool})

\* _trailing_error_run: only turns with a result count, and on /v1/chat/completions none
\* is known to be an error.
TrailingErrorRun(h, surface) ==
    LET results == {i \in DOMAIN h : h[i].tool # "none"}
        Failed(i) == surface = "messages" /\ h[i].error
    IN  Cardinality({i \in results : \A j \in results : j >= i => Failed(j)})

\* _patch_before_explore
PatchBeforeExplore(h) ==
    LET edits == {i \in DOMAIN h : h[i].tool = "edit"}
        reads == {i \in DOMAIN h : h[i].tool = "read"}
    IN  edits # {} /\ (reads = {} \/ Min(edits) < Min(reads))

AsInt(signal) == IF signal THEN 1 ELSE 0

\* structural_count
StructuralCount(h, surface) ==
    AsInt(TrailingIdenticalRun(h) >= Repeats) + AsInt(TrailingErrorRun(h, surface) >= Errored)
      + AsInt(PatchBeforeExplore(h))

\* detect_stall names the tool of a loop, the first one that the last turn calls: with a
\* threshold of 0 there is a loop without any, and an IndexError.
LoopRaises(h) == TrailingIdenticalRun(h) >= Repeats /\ CallsNothing(h)

Stalled(h, surface) == Len(h) >= TurnFloor \/ StructuralCount(h, surface) >= 2

NoVerdict == [surface |-> "none", raised |-> FALSE, stalled |-> FALSE]

StallInit ==
    /\ store = [s \in {} |-> 0]
    /\ clock = 0 /\ requests = 0
    /\ history = <<>>
    /\ verdict = NoVerdict
    /\ reported = [s \in Sessions |-> 0]
    /\ stays = [s \in Sessions |-> 0]

-----------------------------------------------------------------------------
(* SessionStallStore.get_or_create *)

Kept(entries, keys) == [s \in keys |-> entries[s]]

Unexpired == {s \in DOMAIN store : store[s].lastSeen >= clock - Ttl}

\* Mutant: the entry is stamped after the cap is enforced.
StampedLate == 0

\* A new entry carries the time of its request before the cap is enforced.
Stamped == clock

\* _enforce_cap: sorting is stable, so which of two equally old entries goes depends on
\* their order in the dictionary, where the new one is last.
Capped(entries, new, kept) ==
    /\ kept \subseteq DOMAIN entries
    /\ Cardinality(kept) = IF Cardinality(DOMAIN entries) > MaxEntries THEN MaxEntries
                           ELSE Cardinality(DOMAIN entries)
    /\ \A s \in kept, t \in DOMAIN entries \ kept :
          entries[t].lastSeen < entries[s].lastSeen + (IF t = new THEN 0 ELSE 1)

\* Mutant: that the session was reported is not remembered.
ServedForgets(entry, stalled) == [entry EXCEPT !.turns = @ + 1, !.lastSeen = clock]

\* The hook: count the turn, detect, report a session's first stall.
Served(entry, stalled) ==
    [entry EXCEPT !.turns = @ + 1, !.lastSeen = clock,
                  !.fired = IF stalled /\ @ = 0 THEN entry.turns + 1 ELSE @]

\* An -auto request of a session on one of the surfaces.  What is raised ends it, after its
\* turn was counted.
StallRequest(s, surface) ==
    LET raised == LoopRaises(history)
        stalled == ~raised /\ Stalled(history, surface)
        known == s \in Unexpired
        entries == [t \in Unexpired \cup {s} |->
                      IF t \in Unexpired THEN store[t]
                      ELSE [turns |-> 0, fired |-> 0, lastSeen |-> Stamped]]
    IN  /\ requests < MaxRequests
        /\ requests' = requests + 1
        /\ \E kept \in SUBSET DOMAIN entries :
             /\ IF known THEN kept = DOMAIN entries ELSE Capped(entries, s, kept)
             /\ store' = Kept([entries EXCEPT ![s] = Served(@, stalled)], kept)
        /\ verdict' = [surface |-> surface, raised |-> raised, stalled |-> stalled]
        /\ reported' = [reported EXCEPT ![s] =
                          IF stalled /\ entries[s].fired = 0 THEN @ + 1 ELSE @]
        /\ stays' = [stays EXCEPT ![s] = IF known THEN @ ELSE @ + 1]
        /\ UNCHANGED <<clock, history>>

\* A conversation goes on, or another one does.
Converse(turn) ==
    /\ Len(history) < MaxTurns
    /\ history' = Append(history, turn)
    /\ verdict' = NoVerdict
    /\ UNCHANGED <<store, clock, requests, reported, stays>>

StartOver ==
    /\ history # <<>>
    /\ history' = <<>>
    /\ verdict' = NoVerdict
    /\ UNCHANGED <<store, clock, requests, reported, stays>>

Tick ==
    /\ clock < MaxTime
    /\ clock' = clock + 1
    /\ UNCHANGED <<store, requests, history, verdict, reported, stays>>

StallNext ==
    \/ \E s \in Sessions, surface \in {"messages", "chat"} : StallRequest(s, surface)
    \/ \E turn \in Turns : Converse(turn)
    \/ StartOver
    \/ Tick

StallSpec == StallInit /\ [][StallNext]_stallVars

-----------------------------------------------------------------------------
(* What must hold *)

\* What counts as stalled, said without runs: a long history, or two of a repeated tool,
\* repeated errors and an edit before anything was read.
Looping(h) ==
    /\ Len(h) >= Repeats /\ h[Len(h)].tool # "none"
    /\ \A i \in (Len(h) - Repeats + 1)..Len(h) : h[i].tool = h[Len(h)].tool
StuckOnErrors(h) ==
    \E last \in SUBSET {i \in DOMAIN h : h[i].error} :
        /\ Cardinality(last) = Errored
        /\ \A i \in DOMAIN h, e \in last : h[i].tool # "none" /\ i > e => i \in last
EditsUnseen(h) ==
    \E i \in DOMAIN h : h[i].tool = "edit" /\ \A j \in 1..i : h[j].tool # "read"

(* What is detected is what the history shows, on each surface: /v1/chat/completions, which
   cannot know a result for an error, finds a stall only where /v1/messages does; unless a
   threshold of 0 asks for none.  And only such a threshold makes it raise. *)
VerdictMatchesHistory ==
    LET loops == Looping(history)
        errors == (verdict.surface = "messages" \/ Errored = 0) /\ StuckOnErrors(history)
        unseen == EditsUnseen(history)
    IN  verdict.surface # "none" =>
          IF verdict.raised THEN Repeats = 0 /\ ~verdict.stalled
          ELSE verdict.stalled =
                (\/ Len(history) >= TurnFloor
                 \/ loops /\ errors
                 \/ loops /\ unseen
                 \/ errors /\ unseen)

(* "Emit telemetry exactly once per session": a session is reported at most once for each
   time it was taken into the store, however its requests, those of others, expiry and the
   cap follow each other. *)
ReportedOncePerStay == \A s \in Sessions : reported[s] <= stays[s]

(* A session leaves the store only because it was idle for longer than the time to live, or
   because at least as many sessions as the cap were seen no earlier; never the one that is
   just being served. *)
EvictedForCause ==
    [][/\ \A s \in DOMAIN store \ DOMAIN store' :
            \/ store[s].lastSeen < clock - Ttl
            \/ Cardinality({t \in DOMAIN store' :
                               store'[t].lastSeen >= store[s].lastSeen}) >= MaxEntries
       /\ \A s \in Sessions : stays'[s] # stays[s] => s \in DOMAIN store'
      ]_stallVars

StallTypeOK ==
    /\ DOMAIN store \subseteq Sessions
    /\ \A s \in DOMAIN store : store[s] \in [turns : 1..MaxRequests, fired : 0..MaxRequests,
                                            lastSeen : 0..MaxTime]
    /\ Cardinality(DOMAIN store) <= MaxEntries
    /\ clock \in 0..MaxTime /\ requests \in 0..MaxRequests
    /\ history \in Seq(Turns)
    /\ verdict \in [surface : {"messages", "chat", "none"}, raised : BOOLEAN, stalled : BOOLEAN]
    /\ reported \in [Sessions -> 0..MaxRequests] /\ stays \in [Sessions -> 0..MaxRequests]
=============================================================================
