--------------------------- MODULE MessagesStream ---------------------------
(***************************************************************************)
(* A streamed /v1/messages answer: the upstream's stream, turned into      *)
(* OpenAI chunks, turned into Anthropic SSE events for the client.         *)
(*                                                                         *)
(*   AnthropicStreamTranslator           Anthropic events -> chunks        *)
(*   OpenAIToAnthropicStreamTranslator   chunks -> Anthropic events        *)
(*                                                                         *)
(* With an Anthropic upstream both are in the path, with an OpenAI one     *)
(* only the second.  _sse_anthropic_stream pulls a chunk, hands on every   *)
(* event it yields and only then pulls the next one; here an event is a    *)
(* step.  A chunk carries one part: translate_chunk treats the content and *)
(* the tool calls of a larger one in turn, as if each had come alone.      *)
(***************************************************************************)
EXTENDS Integers, Sequences

CONSTANTS Upstreams,   \* the kinds of upstream to consider
          MaxBlocks,   \* bound on the content blocks, or tool calls, of a message
          MaxDeltas    \* bound on the pieces the upstream sends

ASSUME MessagesStreamAssumption ==
    /\ Upstreams \subseteq {"anthropic", "openai"}
    /\ MaxBlocks \in Nat /\ MaxDeltas \in Nat

VARIABLES source,      \* the kind of the upstream
          up,          \* how far its stream is
          toolIndex,   \* _block_to_tool_index
          nextTool,    \* _next_tool_index
          chunk,       \* the chunk being translated, or NoChunk
          tr,          \* the OpenAIToAnthropicStreamTranslator
          blockOf,     \* its _openai_tool_idx_to_block
          pc,          \* where _sse_anthropic_stream stands
          client,      \* what the events sent so far amount to
          sent         \* history: what the upstream sent

vars == <<source, up, toolIndex, nextTool, chunk, tr, blockOf, pc, client, sent>>

-----------------------------------------------------------------------------
(* Values *)

AnthropicReasons == {"end_turn", "max_tokens", "stop_sequence", "tool_use", "refusal"}

\* An Anthropic upstream may know more reasons than this code does.
UpstreamReasons == AnthropicReasons \cup {"pause_turn"}

FinishReasons == {"stop", "length", "tool_calls", "content_filter", "function_call"}

\* An upstream's block (for OpenAI: what it began last), how many blocks (for OpenAI: tool
\* calls) it started, how many pieces it sent, which of them were for a call after it had
\* begun something else, and the reason it gave for stopping.
UpState ==
    [phase : {"new", "started", "closing"}, block : {"none", "text", "tool", "other"},
     blocks : 0..MaxBlocks, deltas : 0..MaxDeltas, late : SUBSET (1..MaxDeltas),
     reason : UpstreamReasons \cup FinishReasons \cup {"none"}]

\* Mutant: a reason that is listed nowhere goes through.
FinishOfUnmapped(reason) ==
    CASE reason = "max_tokens" -> "length"
      [] reason = "tool_use" -> "tool_calls"
      [] reason = "refusal" -> "content_filter"
      [] OTHER -> reason

\* _STOP_REASON_MAP, "stop" for what it does not list.
FinishOf(reason) ==
    CASE reason = "max_tokens" -> "length"
      [] reason = "tool_use" -> "tool_calls"
      [] reason = "refusal" -> "content_filter"
      [] OTHER -> "stop"

\* Mutant: the order of the pairs got mixed up.
StopOfSwapped(finish) ==
    CASE finish = "length" -> "tool_use"
      [] finish \in {"tool_calls", "function_call"} -> "max_tokens"
      [] finish = "content_filter" -> "refusal"
      [] OTHER -> "end_turn"

\* _OPENAI_FINISH_TO_ANTHROPIC_STOP, "end_turn" for None.
StopOf(finish) ==
    CASE finish = "length" -> "max_tokens"
      [] finish \in {"tool_calls", "function_call"} -> "tool_use"
      [] finish = "content_filter" -> "refusal"
      [] OTHER -> "end_turn"

\* The delta of a chunk: text, or a tool call by its index, with the id on its first
\* delta only; `piece` is 0 where there is no text and are no arguments.
Delta(kind, index, id, piece) ==
    [kind |-> kind, index |-> index, id |-> id, piece |-> piece]

NoChunk == Delta("none", 0, 0, 0)
EmptyChunk == Delta("empty", 0, 0, 0)

\* What a block or a piece of it brought, as the upstream and as the client see it.
Substance(kind, id, piece) == [kind |-> kind, id |-> id, piece |-> piece]

Substances ==
    [kind : {"text", "tool"}, id : 0..MaxBlocks, piece : 0..MaxDeltas]

NoBlock == -1

Translator ==
    [started : BOOLEAN, next : Nat, current : Nat \cup {NoBlock},
     kind : {"none", "text", "tool"}, finish : FinishReasons \cup {"none"},
     anyOpened : BOOLEAN]

Client ==
    [phase : {"none", "started", "closing", "stopped"},
     blocks : Seq([kind : {"text", "tool"}, id : 0..MaxBlocks]), open : SUBSET Nat,
     content : Seq(Substances), stop : AnthropicReasons \cup {"none"}]

Init ==
    /\ source \in Upstreams
    /\ up = [phase |-> "new", block |-> "none", blocks |-> 0, deltas |-> 0,
             late |-> {}, reason |-> "none"]
    /\ toolIndex = <<>> /\ nextTool = 0
    /\ chunk = NoChunk
    /\ tr = [started |-> FALSE, next |-> 0, current |-> NoBlock, kind |-> "none",
             finish |-> "none", anyOpened |-> FALSE]
    /\ blockOf = <<>>
    /\ pc = "translate"
    /\ client = [phase |-> "none", blocks |-> <<>>, open |-> {}, content |-> <<>>,
                 stop |-> "none"]
    /\ sent = <<>>

\* Function f with f[x] = y besides, or instead.
With(f, x, y) == [z \in DOMAIN f \cup {x} |-> IF z = x THEN y ELSE f[z]]

-----------------------------------------------------------------------------
(* The upstream, and AnthropicStreamTranslator.translate_event *)

\* The next chunk is awaited.
Pulling == pc = "translate" /\ chunk = NoChunk

MessageStart ==
    /\ Pulling /\ source = "anthropic" /\ up.phase = "new"
    /\ up' = [up EXCEPT !.phase = "started"]
    /\ chunk' = EmptyChunk
    /\ UNCHANGED <<source, toolIndex, nextTool, tr, blockOf, pc, client, sent>>

\* Mutant: the tool indexes are not counted on.
ToolStartUncounted ==
    /\ up' = [up EXCEPT !.block = "tool", !.blocks = @ + 1]
    /\ toolIndex' = With(toolIndex, up.blocks, nextTool)
    /\ nextTool' = nextTool
    /\ chunk' = Delta("tool", nextTool, up.blocks + 1, 0)
    /\ sent' = Append(sent, Substance("tool", up.blocks + 1, 0))
    /\ UNCHANGED <<source, tr, blockOf, pc, client>>

\* A tool_use block gets the next tool index; its id is its block's number from 1.
ToolStart ==
    /\ up' = [up EXCEPT !.block = "tool", !.blocks = @ + 1]
    /\ toolIndex' = With(toolIndex, up.blocks, nextTool)
    /\ nextTool' = nextTool + 1
    /\ chunk' = Delta("tool", nextTool, up.blocks + 1, 0)
    /\ sent' = Append(sent, Substance("tool", up.blocks + 1, 0))
    /\ UNCHANGED <<source, tr, blockOf, pc, client>>

\* The start of a text block, or of one of a kind that is not translated, yields nothing.
OtherStart ==
    /\ \E kind \in {"text", "other"} :
         up' = [up EXCEPT !.block = kind, !.blocks = @ + 1]
    /\ UNCHANGED <<source, toolIndex, nextTool, chunk, tr, blockOf, pc, client, sent>>

BlockStart ==
    /\ Pulling /\ source = "anthropic" /\ up.phase = "started"
    /\ up.block = "none" /\ up.blocks < MaxBlocks
    /\ ToolStart \/ OtherStart

\* The delta of a block: text, arguments of the tool call its block stands for, or nothing
\* when the block has no tool call (thinking, or a tool the server runs).
TranslatedDelta(piece) ==
    LET index == up.blocks - 1
    IN CASE up.block = "text" -> Delta("text", 0, 0, piece)
         [] up.block # "text" /\ index \in DOMAIN toolIndex ->
              Delta("tool", toolIndex[index], 0, piece)
         [] OTHER -> NoChunk

BlockDelta ==
    /\ Pulling /\ source = "anthropic" /\ up.block # "none" /\ up.deltas < MaxDeltas
    /\ up' = [up EXCEPT !.deltas = @ + 1]
    /\ chunk' = TranslatedDelta(up.deltas + 1)
    /\ sent' = CASE up.block = "text" -> Append(sent, Substance("text", 0, up.deltas + 1))
                 [] up.block = "tool" ->
                      Append(sent, Substance("tool", up.blocks, up.deltas + 1))
                 [] OTHER -> sent
    /\ UNCHANGED <<source, toolIndex, nextTool, tr, blockOf, pc, client>>

BlockStop ==
    /\ Pulling /\ source = "anthropic" /\ up.block # "none"
    /\ up' = [up EXCEPT !.block = "none"]
    /\ UNCHANGED <<source, toolIndex, nextTool, chunk, tr, blockOf, pc, client, sent>>

\* The chunk with the finish_reason, which translate_chunk keeps for finalize.
Finishes(reason, finish) ==
    /\ up' = [up EXCEPT !.phase = "closing", !.reason = reason]
    /\ chunk' = EmptyChunk
    /\ tr' = [tr EXCEPT !.finish = finish]
    /\ UNCHANGED <<source, toolIndex, nextTool, blockOf, pc, client, sent>>

MessageDelta ==
    /\ Pulling /\ source = "anthropic" /\ up.phase = "started" /\ up.block = "none"
    /\ \E reason \in UpstreamReasons : Finishes(reason, FinishOf(reason))

\* An OpenAI upstream's chunks come as they are.
ChunkOfText ==
    /\ Pulling /\ source = "openai" /\ up.phase # "closing" /\ up.deltas < MaxDeltas
    /\ up' = [up EXCEPT !.phase = "started", !.block = "text", !.deltas = @ + 1]
    /\ chunk' = Delta("text", 0, 0, up.deltas + 1)
    /\ sent' = Append(sent, Substance("text", 0, up.deltas + 1))
    /\ UNCHANGED <<source, toolIndex, nextTool, tr, blockOf, pc, client>>

ChunkOfNewTool ==
    /\ Pulling /\ source = "openai" /\ up.phase # "closing"
    /\ up.blocks < MaxBlocks /\ up.deltas < MaxDeltas
    /\ \E piece \in {0, up.deltas + 1} :
         /\ up' = [up EXCEPT !.phase = "started", !.block = "tool", !.blocks = @ + 1,
                             !.deltas = IF piece = 0 THEN @ ELSE piece]
         /\ chunk' = Delta("tool", up.blocks, up.blocks + 1, piece)
         /\ LET called == Append(sent, Substance("tool", up.blocks + 1, 0))
            IN sent' = IF piece = 0 THEN called
                       ELSE Append(called, Substance("tool", up.blocks + 1, piece))
    /\ UNCHANGED <<source, toolIndex, nextTool, tr, blockOf, pc, client>>

\* A tool call's arguments go on while it is what was begun last.  The code counts on it,
\* but nothing keeps a provider from sending them later, between text or other calls.
InTurn(index) == up.block = "tool" /\ index = up.blocks - 1

ChunkOfArguments(index) ==
    /\ Pulling /\ source = "openai" /\ up.phase # "closing"
    /\ index < up.blocks /\ up.deltas < MaxDeltas
    /\ up' = [up EXCEPT !.deltas = @ + 1,
                        !.late = IF InTurn(index) THEN @ ELSE @ \cup {up.deltas + 1}]
    /\ chunk' = Delta("tool", index, 0, up.deltas + 1)
    /\ sent' = Append(sent, Substance("tool", index + 1, up.deltas + 1))
    /\ UNCHANGED <<source, toolIndex, nextTool, tr, blockOf, pc, client>>

\* A role chunk, or one with the finish reason.
ChunkOfRole ==
    /\ Pulling /\ source = "openai" /\ up.phase = "new"
    /\ up' = [up EXCEPT !.phase = "started"]
    /\ chunk' = EmptyChunk
    /\ UNCHANGED <<source, toolIndex, nextTool, tr, blockOf, pc, client, sent>>

ChunkOfFinish ==
    /\ Pulling /\ source = "openai" /\ up.phase # "closing"
    /\ \E finish \in FinishReasons : Finishes(finish, finish)

\* The iteration ends: after the last event, or early and without an exception (the
\* connection is closed, or an event the OAuth path does not know said why).
StreamEnds ==
    /\ Pulling
    /\ pc' = "finalize"
    /\ UNCHANGED <<source, up, toolIndex, nextTool, chunk, tr, blockOf, client, sent>>

\* The iteration raises: the client's stream just ends.
StreamBreaks ==
    /\ Pulling /\ up.phase # "new"
    /\ pc' = "broken"
    /\ UNCHANGED <<source, up, toolIndex, nextTool, chunk, tr, blockOf, client, sent>>

-----------------------------------------------------------------------------
(* Events, as a client takes them *)

SeesBlockStart(index, kind, id) ==
    client' = [client EXCEPT
      !.blocks = Append(@, [kind |-> kind, id |-> id]),
      !.open = @ \cup {index},
      !.content = IF kind = "tool" THEN Append(@, Substance("tool", id, 0)) ELSE @]

SeesBlockStop(index) == client' = [client EXCEPT !.open = @ \ {index}]

\* A piece belongs to the block of its index, if there is such a block.
SeesDelta(index, piece) ==
    client' = [client EXCEPT !.content =
      IF index + 1 \in DOMAIN client.blocks
        THEN Append(@, Substance(client.blocks[index + 1].kind,
                                 client.blocks[index + 1].id, piece))
        ELSE @]

-----------------------------------------------------------------------------
(* OpenAIToAnthropicStreamTranslator.translate_chunk *)

Translating == pc = "translate" /\ chunk # NoChunk

\* The first chunk, whatever it holds.
EmitMessageStart ==
    /\ Translating /\ ~tr.started
    /\ tr' = [tr EXCEPT !.started = TRUE]
    /\ client' = [client EXCEPT !.phase = "started"]
    /\ UNCHANGED <<source, up, toolIndex, nextTool, chunk, blockOf, pc, sent>>

\* The chunk needs a block of its own: text when no text block is open, a tool call with an
\* index not seen before.
Opens ==
    \/ chunk.kind = "text" /\ tr.kind # "text"
    \/ chunk.kind = "tool" /\ chunk.index \notin DOMAIN blockOf

EmitBlockStop ==
    /\ Translating /\ tr.started /\ Opens /\ tr.current # NoBlock
    /\ tr' = [tr EXCEPT !.current = NoBlock]
    /\ SeesBlockStop(tr.current)
    /\ UNCHANGED <<source, up, toolIndex, nextTool, chunk, blockOf, pc, sent>>

EmitBlockStart ==
    /\ Translating /\ tr.started /\ Opens /\ tr.current = NoBlock
    /\ tr' = [tr EXCEPT !.current = tr.next, !.next = @ + 1, !.kind = chunk.kind,
                        !.anyOpened = TRUE]
    /\ blockOf' = IF chunk.kind = "tool" THEN With(blockOf, chunk.index, tr.next) ELSE blockOf
    /\ SeesBlockStart(tr.next, chunk.kind, chunk.id)
    /\ UNCHANGED <<source, up, toolIndex, nextTool, chunk, pc, sent>>

\* A continuation finds its block by the tool call's index, open or not.
BlockOfChunk == IF chunk.kind = "text" THEN tr.current ELSE blockOf[chunk.index]

EmitDelta ==
    /\ Translating /\ tr.started /\ ~Opens /\ chunk.piece # 0
    /\ SeesDelta(BlockOfChunk, chunk.piece)
    /\ chunk' = NoChunk
    /\ UNCHANGED <<source, up, toolIndex, nextTool, tr, blockOf, pc, sent>>

\* A role, a finish reason or a tool call without arguments: no (more) events.
EmitNothing ==
    /\ Translating /\ tr.started /\ ~Opens /\ chunk.piece = 0
    /\ chunk' = NoChunk
    /\ UNCHANGED <<source, up, toolIndex, nextTool, tr, blockOf, pc, client, sent>>

-----------------------------------------------------------------------------
(* OpenAIToAnthropicStreamTranslator.finalize *)

FinalMessageStart ==
    /\ pc = "finalize" /\ ~tr.started
    /\ tr' = [tr EXCEPT !.started = TRUE]
    /\ client' = [client EXCEPT !.phase = "started"]
    /\ UNCHANGED <<source, up, toolIndex, nextTool, chunk, blockOf, pc, sent>>

FinalBlockStop ==
    /\ pc = "finalize" /\ tr.started /\ tr.current # NoBlock
    /\ tr' = [tr EXCEPT !.current = NoBlock, !.kind = "none"]
    /\ SeesBlockStop(tr.current)
    /\ UNCHANGED <<source, up, toolIndex, nextTool, chunk, blockOf, pc, sent>>

\* A message without any block gets an empty text block, which FinalBlockStop closes.
FinalEmptyBlock ==
    /\ pc = "finalize" /\ tr.started /\ ~tr.anyOpened
    /\ tr' = [tr EXCEPT !.current = 0, !.next = 1, !.kind = "text", !.anyOpened = TRUE]
    /\ SeesBlockStart(0, "text", 0)
    /\ UNCHANGED <<source, up, toolIndex, nextTool, chunk, blockOf, pc, sent>>

\* Mutant: no block is made up for an empty message.
FinalMessageDeltaAnyway ==
    /\ pc = "finalize" /\ tr.started /\ tr.current = NoBlock
    /\ client' = [client EXCEPT !.phase = "closing", !.stop = StopOf(tr.finish)]
    /\ pc' = "stop"
    /\ UNCHANGED <<source, up, toolIndex, nextTool, chunk, tr, blockOf, sent>>

FinalMessageDelta ==
    /\ pc = "finalize" /\ tr.started /\ tr.current = NoBlock /\ tr.anyOpened
    /\ client' = [client EXCEPT !.phase = "closing", !.stop = StopOf(tr.finish)]
    /\ pc' = "stop"
    /\ UNCHANGED <<source, up, toolIndex, nextTool, chunk, tr, blockOf, sent>>

FinalMessageStop ==
    /\ pc = "stop"
    /\ client' = [client EXCEPT !.phase = "stopped"]
    /\ pc' = "done"
    /\ UNCHANGED <<source, up, toolIndex, nextTool, chunk, tr, blockOf, sent>>

-----------------------------------------------------------------------------

UpstreamStep ==
    \/ MessageStart \/ BlockStart \/ BlockDelta \/ BlockStop \/ MessageDelta
    \/ ChunkOfText \/ ChunkOfNewTool \/ \E index \in 0..MaxBlocks : ChunkOfArguments(index)
    \/ ChunkOfRole \/ ChunkOfFinish
    \/ StreamEnds \/ StreamBreaks

TranslatorStep ==
    \/ EmitMessageStart \/ EmitBlockStop \/ EmitBlockStart \/ EmitDelta \/ EmitNothing
    \/ FinalMessageStart \/ FinalBlockStop \/ FinalEmptyBlock
    \/ FinalMessageDelta \/ FinalMessageStop

Next == UpstreamStep \/ TranslatorStep

Spec == Init /\ [][Next]_vars

-----------------------------------------------------------------------------
(* Properties *)

TypeOK ==
    /\ source \in Upstreams
    /\ up \in UpState
    /\ DOMAIN toolIndex \subseteq 0..MaxBlocks
    /\ \A i \in DOMAIN toolIndex : toolIndex[i] \in Nat
    /\ nextTool \in Nat
    /\ chunk \in [kind : {"none", "empty", "text", "tool"}, index : 0..MaxBlocks,
                  id : 0..MaxBlocks, piece : 0..MaxDeltas]
    /\ tr \in Translator
    /\ DOMAIN blockOf \subseteq 0..MaxBlocks
    /\ \A i \in DOMAIN blockOf : blockOf[i] \in Nat
    /\ pc \in {"translate", "finalize", "stop", "done", "broken"}
    /\ client \in Client
    /\ sent \in Seq(Substances)

\* Whatever an Anthropic upstream sends in the order of its protocol, and an OpenAI one in
\* any order, and wherever the stream ends or breaks, the client sees the events in the
\* order Anthropic's protocol has for them: one block at a time, and every delta for the
\* open one, except arguments that come late, which go to their call's block, closed or
\* not (see DeltasOnOpenBlocks).
Wire == INSTANCE AnthropicWire WITH
          Ids <- 1..MaxBlocks, Pieces <- 1..MaxDeltas, Reasons <- AnthropicReasons,
          phase <- client.phase, blocks <- client.blocks, open <- client.open,
          content <- client.content, stop <- client.stop, late <- up.late

ImplementsAnthropicWire == Wire!Spec

\* openai_anthropic.py on a tool call's further arguments: "Continuation delta -- block is
\* already open."
DeltasOnOpenBlocks ==
    Translating /\ tr.started /\ ~Opens /\ chunk.piece # 0 => BlockOfChunk \in client.open

\* Every piece of text and every tool call, with each piece of its arguments, reaches the
\* client in the order the upstream sent it and in the block of the tool call it belongs
\* to, through two renumberings of the blocks.
ContentSurvives == chunk = NoChunk => client.content = sent

\* The client is told why the message ended as the upstream told it, which decides
\* whether the client runs the tools.  OpenAI has no word for two of Anthropic's reasons.
StopReasonSurvives ==
    client.phase = "stopped" =>
      client.stop = CASE up.reason \in {"stop_sequence", "pause_turn", "stop", "none"}
                           -> "end_turn"
                      [] up.reason = "length" -> "max_tokens"
                      [] up.reason \in {"tool_calls", "function_call"} -> "tool_use"
                      [] up.reason = "content_filter" -> "refusal"
                      [] OTHER -> up.reason
=============================================================================
