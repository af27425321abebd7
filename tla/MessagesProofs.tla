--------------------------- MODULE MessagesProofs ---------------------------
(***************************************************************************)
(* Proofs about /v1/messages.                                              *)
(*                                                                         *)
(* A streamed message stays well formed and complete for every upstream,   *)
(* every number of blocks and every number of pieces.  The invariant says  *)
(* what the two translators know of each other: which block each tool call *)
(* has, and that a continuation addresses the open one unless it is late.  *)
(*                                                                         *)
(* A conversation survives its translations for every dialogue, every      *)
(* answer and every choice of upstreams.  What the translations make of a  *)
(* sequence is what they make of its elements, one after the other, so     *)
(* that each fact about a dialogue is proved message by message.           *)
(***************************************************************************)
EXTENDS MessagesStream, MessageTranslation, DataLemmas

\* How many tool calls the chunks have brought so far; the last one's index is one less.
ToolCalls == IF source = "anthropic" THEN nextTool ELSE up.blocks

\* The chunk opens a tool call the second translator has not seen yet.
NewTool == chunk.kind = "tool" /\ chunk.index \notin DOMAIN blockOf

\* AnthropicStreamTranslator: blocks are entered once, as they start, and only tool_use.
UpstreamNumbered ==
    /\ \A i \in DOMAIN toolIndex : i < up.blocks
    /\ source = "anthropic" /\ up.block # "none" => up.blocks > 0
    /\ source = "anthropic" /\ up.block \in {"text", "other"} =>
         up.blocks - 1 \notin DOMAIN toolIndex
    /\ up.block = "tool" => ToolCalls > 0 /\ up.blocks > 0
    /\ source = "anthropic" /\ up.block = "tool" =>
         /\ up.blocks - 1 \in DOMAIN toolIndex
         /\ toolIndex[up.blocks - 1] = nextTool - 1
    /\ source = "anthropic" => nextTool <= up.blocks
    /\ source = "openai" => up.block # "other"

\* OpenAIToAnthropicStreamTranslator and what its events amount to.
BlocksAgree ==
    /\ tr.next = Len(client.blocks)
    /\ tr.anyOpened <=> client.blocks # <<>>
    /\ ~tr.started => client.blocks = <<>>
    /\ client.open = IF tr.current = NoBlock THEN {} ELSE {tr.current}
    /\ tr.current # NoBlock =>
         /\ tr.current = Len(client.blocks) - 1 /\ Len(client.blocks) > 0
         /\ tr.kind = client.blocks[Len(client.blocks)].kind
         /\ tr.kind = "text" => client.blocks[Len(client.blocks)].id = 0
    /\ pc = "translate" /\ tr.current = NoBlock =>
         tr.kind = "none" \/ (chunk # NoChunk /\ Opens)

PhaseAgrees ==
    /\ client.phase = CASE pc = "stop" -> "closing"
                        [] pc = "done" -> "stopped"
                        [] OTHER -> IF tr.started THEN "started" ELSE "none"
    /\ pc \in {"stop", "done"} => tr.started
    /\ pc # "translate" => chunk = NoChunk
    /\ ~tr.started => ~tr.anyOpened

\* What is late: pieces sent so far, and never an Anthropic upstream's.
LateAgrees ==
    /\ source = "anthropic" => up.late = {}
    /\ \A n \in up.late : n <= up.deltas

\* Every tool call an OpenAI upstream began has its block, or the chunk that opens it.
CallsAgree ==
    source = "openai" =>
      /\ \A i \in DOMAIN blockOf :
           /\ blockOf[i] + 1 \in 1..Len(client.blocks)
           /\ client.blocks[blockOf[i] + 1] = [kind |-> "tool", id |-> i + 1]
      /\ pc = "translate" =>
           \A i \in 0..MaxBlocks :
             i < up.blocks => i \in DOMAIN blockOf \/ (NewTool /\ i = chunk.index)

\* What is in a chunk, and the block that takes it: a new tool call is the last one's
\* successor, a delta that is not late is for the last one, whose block is open.
ChunkInOrder ==
    /\ \A i \in DOMAIN blockOf : i < ToolCalls
    /\ chunk.kind = "tool" /\ chunk.piece \notin up.late =>
         up.block = "tool" /\ chunk.index = ToolCalls - 1
    /\ chunk.kind = "tool" /\ chunk.piece \in up.late => chunk.index \in DOMAIN blockOf
    /\ chunk.kind = "text" => up.block = "text" /\ chunk.piece # 0 /\ chunk.id = 0
    /\ chunk.kind \in {"none", "empty"} => chunk = NoChunk \/ chunk = EmptyChunk
    /\ NewTool => chunk.id = up.blocks
    /\ pc = "translate" /\ up.block = "tool" /\ ~NewTool =>
         /\ ToolCalls - 1 \in DOMAIN blockOf
         /\ blockOf[ToolCalls - 1] = tr.current /\ tr.current # NoBlock
         /\ tr.kind = "tool"
         /\ client.blocks[Len(client.blocks)].id = up.blocks

\* What the chunk in hand still has to bring: a new tool call, a piece, both or nothing.
Call == Substance("tool", up.blocks, 0)
CallOfChunk == IF source = "openai" THEN chunk.index + 1 ELSE up.blocks
Piece == Substance(chunk.kind, IF chunk.kind = "tool" THEN CallOfChunk ELSE 0, chunk.piece)

ContentAgrees ==
    /\ ~NewTool /\ chunk.piece = 0 => sent = client.content
    /\ ~NewTool /\ chunk.piece # 0 => sent = Append(client.content, Piece)
    /\ NewTool /\ chunk.piece = 0 => sent = Append(client.content, Call)
    /\ NewTool /\ chunk.piece # 0 => sent = Append(Append(client.content, Call), Piece)

\* The reason on its way: the upstream's, its finish_reason, the client's stop_reason.
ReasonAgrees ==
    /\ tr.finish = IF up.reason \in UpstreamReasons THEN FinishOf(up.reason) ELSE up.reason
    /\ client.stop = IF pc \in {"stop", "done"} THEN StopOf(tr.finish) ELSE "none"

IInv ==
    /\ TypeOK
    /\ UpstreamNumbered
    /\ BlocksAgree
    /\ PhaseAgrees
    /\ LateAgrees
    /\ CallsAgree
    /\ ChunkInOrder
    /\ ContentAgrees
    /\ ReasonAgrees

-----------------------------------------------------------------------------

\* The counters have room for one more where the upstream sends one more.
LEMMA Bounds ==
  ASSUME TypeOK
  PROVE  /\ up.deltas < MaxDeltas => up.deltas + 1 \in 0..MaxDeltas \ {0}
         /\ up.blocks < MaxBlocks => up.blocks + 1 \in 0..MaxBlocks \ {0}
         /\ up.blocks \in 0..MaxBlocks /\ up.deltas \in 0..MaxDeltas
         /\ tr.next + 1 \in Nat
  BY MessagesStreamAssumption DEF MessagesStreamAssumption, TypeOK, UpState, Translator

\* What a block or a piece brings has the type of the history and of the client's content.
LEMMA SubstanceType ==
  ASSUME NEW kind \in {"text", "tool"}, NEW id \in 0..MaxBlocks, NEW piece \in 0..MaxDeltas
  PROVE  Substance(kind, id, piece) \in Substances
  BY DEF Substance, Substances

\* What a client makes of a block's start and of a delta keeps its type.
LEMMA SeesBlockStartType ==
  ASSUME client \in Client, NEW index \in Nat, NEW kind \in {"text", "tool"},
         NEW id \in 0..MaxBlocks, SeesBlockStart(index, kind, id)
  PROVE  client' \in Client
<1>1. [kind |-> kind, id |-> id] \in [kind : {"text", "tool"}, id : 0..MaxBlocks]
  OBVIOUS
<1>2. Substance("tool", id, 0) \in Substances
  BY SubstanceType, MessagesStreamAssumption DEF MessagesStreamAssumption
<1>3. Append(client.blocks, [kind |-> kind, id |-> id])
        \in Seq([kind : {"text", "tool"}, id : 0..MaxBlocks])
  BY <1>1 DEF Client
<1>4. Append(client.content, Substance("tool", id, 0)) \in Seq(Substances)
  BY <1>2 DEF Client
<1> QED
  BY <1>3, <1>4 DEF Client, SeesBlockStart

\* A delta adds one piece to what the client has, or nothing.
LEMMA SeesDeltaType ==
  ASSUME client \in Client, NEW index \in Nat, NEW piece \in 0..MaxDeltas,
         SeesDelta(index, piece)
  PROVE  client' \in Client
<1>1. CASE index + 1 \in DOMAIN client.blocks
  <2> DEFINE block == client.blocks[index + 1]
  <2>1. block \in [kind : {"text", "tool"}, id : 0..MaxBlocks]
    <3>1. client.blocks \in Seq([kind : {"text", "tool"}, id : 0..MaxBlocks])
      BY DEF Client
    <3>2. DOMAIN client.blocks = 1..Len(client.blocks)
      BY <3>1
    <3>3. index + 1 \in 1..Len(client.blocks)
      BY <1>1, <3>2
    <3> QED
      BY <3>1, <3>3, ElementOfSeq
  <2>2. Substance(block.kind, block.id, piece) \in Substances
    BY <2>1, SubstanceType
  <2>3. Append(client.content, Substance(block.kind, block.id, piece)) \in Seq(Substances)
    BY <2>2 DEF Client
  <2> QED
    BY <1>1, <2>3 DEF Client, SeesDelta
<1>2. CASE index + 1 \notin DOMAIN client.blocks
  BY <1>2 DEF Client, SeesDelta
<1> QED
  BY <1>1, <1>2

\* _sse_anthropic_stream starts with both translators empty and no event sent.
LEMMA InitSound == Init => IInv
<1> SUFFICES ASSUME Init PROVE IInv
  OBVIOUS
<1> USE MessagesStreamAssumption DEF Init, NoChunk, Delta, NoBlock
<1>1. TypeOK
  BY DEF TypeOK, UpState, Translator, Client, Substances
<1>2. UpstreamNumbered /\ BlocksAgree /\ PhaseAgrees /\ ChunkInOrder /\ ContentAgrees
      /\ ReasonAgrees
  BY DEF ReasonAgrees, UpstreamReasons, AnthropicReasons, UpstreamNumbered, BlocksAgree,
     PhaseAgrees, ChunkInOrder, ContentAgrees, NewTool,
         ToolCalls, Opens, EmptyChunk
<1>3. LateAgrees /\ CallsAgree
  BY DEF LateAgrees, CallsAgree
<1> QED
  BY <1>1, <1>2, <1>3 DEF IInv

\* The upstream's steps, and AnthropicStreamTranslator's, bring one chunk at a time.
LEMMA UpstreamSound == IInv /\ UpstreamStep => IInv'
<1> SUFFICES ASSUME IInv, UpstreamStep PROVE IInv'
  OBVIOUS
<1> USE MessagesStreamAssumption
    DEF IInv, Pulling, NoChunk, EmptyChunk, Delta, NoBlock
<1>1. CASE MessageStart
  <2> USE <1>1 DEF MessageStart
  <2>1. TypeOK'
    <3>1. up' \in UpState
      BY DEF TypeOK, UpState
    <3>2. chunk' \in [kind : {"none", "empty", "text", "tool"}, index : 0..MaxBlocks,
                       id : 0..MaxBlocks, piece : 0..MaxDeltas]
      BY DEF TypeOK
    <3> QED
      BY <3>1, <3>2 DEF TypeOK
  <2>2. UpstreamNumbered'
    BY DEF TypeOK, UpState, UpstreamNumbered, ToolCalls
  <2>3. BlocksAgree' /\ PhaseAgrees'
    BY DEF TypeOK, UpState, Translator, BlocksAgree, PhaseAgrees, Opens
  <2>4. ChunkInOrder'
    BY DEF TypeOK, UpState, Translator, BlocksAgree, UpstreamNumbered, ChunkInOrder,
       NewTool, ToolCalls
  <2>5. ContentAgrees'
    BY DEF TypeOK, UpState, ChunkInOrder, UpstreamNumbered, ContentAgrees, NewTool,
       ToolCalls, Call, CallOfChunk, Piece,
           Substance
  <2>6. ReasonAgrees'
    BY DEF TypeOK, UpState, Translator, Client, UpstreamReasons, AnthropicReasons,
       FinishReasons, ReasonAgrees
  <2>7. LateAgrees' /\ CallsAgree'
    BY DEF TypeOK, UpState, Client, LateAgrees, CallsAgree, NewTool
  <2> QED
    BY <2>1, <2>2, <2>3, <2>4, <2>5, <2>6, <2>7
<1>2. CASE BlockStart
  <2> USE <1>2 DEF BlockStart
  <2>1. CASE ToolStart
    <3> USE <2>1 DEF ToolStart, With
    <3>1. TypeOK'
      <4>1. up' \in UpState
        BY Bounds DEF TypeOK, UpState, UpstreamReasons
      <4>2. chunk' \in [kind : {"none", "empty", "text", "tool"}, index : 0..MaxBlocks,
                         id : 0..MaxBlocks, piece : 0..MaxDeltas]
        BY DEF TypeOK, UpState, UpstreamNumbered
      <4>3. sent' \in Seq(Substances)
        BY DEF TypeOK, UpState, UpstreamNumbered, Substances, Substance
      <4>4. /\ DOMAIN toolIndex' \subseteq 0..MaxBlocks
             /\ \A i \in DOMAIN toolIndex' : toolIndex'[i] \in Nat
        BY DEF TypeOK, UpState
      <4>5. nextTool' \in Nat
        BY DEF TypeOK
      <4> QED
        BY <4>1, <4>2, <4>3, <4>4, <4>5 DEF TypeOK
    <3>2. UpstreamNumbered'
      BY DEF TypeOK, UpState, UpstreamNumbered, ToolCalls
    <3>3. BlocksAgree' /\ PhaseAgrees'
      BY DEF TypeOK, UpState, Translator, BlocksAgree, PhaseAgrees, Opens
    <3>3a. /\ chunk'.kind = "tool" /\ chunk'.index = nextTool /\ chunk'.piece = 0
           /\ chunk'.id = up.blocks + 1 /\ up'.blocks = up.blocks + 1 /\ up'.block = "tool"
           /\ chunk.kind = "none" /\ chunk.piece = 0
      BY DEF TypeOK, UpState
    <3>3b. /\ ToolCalls = nextTool /\ ToolCalls' = nextTool + 1 /\ nextTool \in Nat
           /\ nextTool \notin DOMAIN blockOf /\ blockOf' = blockOf
      BY DEF TypeOK, ToolCalls, ChunkInOrder
    <3>3c. NewTool' /\ ~NewTool
      BY <3>3a, <3>3b DEF NewTool
    <3>3d. chunk'.piece \notin up'.late
      BY <3>3a DEF TypeOK, UpState
    <3>4. ChunkInOrder'
      BY <3>3a, <3>3b, <3>3c, <3>3d DEF TypeOK, ChunkInOrder
    <3>5. ContentAgrees'
      BY <3>3a, <3>3b, <3>3c DEF ContentAgrees, Call
    <3>6. ReasonAgrees'
      BY DEF TypeOK, UpState, Translator, Client, UpstreamReasons, AnthropicReasons,
         FinishReasons, ReasonAgrees
    <3>7. LateAgrees' /\ CallsAgree'
      BY DEF TypeOK, UpState, Client, LateAgrees, CallsAgree, NewTool
    <3> QED
      BY <3>1, <3>2, <3>3, <3>4, <3>5, <3>6, <3>7
  <2>2. CASE OtherStart
    <3> USE <2>2 DEF OtherStart
    <3>1. TypeOK'
      <4>1. up' \in UpState
        BY Bounds DEF TypeOK, UpState, UpstreamReasons
      <4> QED
        BY <4>1 DEF TypeOK
    <3>2. UpstreamNumbered'
      BY DEF TypeOK, UpState, UpstreamNumbered, ToolCalls
    <3>3. BlocksAgree' /\ PhaseAgrees'
      BY DEF TypeOK, UpState, Translator, BlocksAgree, PhaseAgrees, Opens
    <3>4. ChunkInOrder'
      BY DEF TypeOK, UpState, Translator, BlocksAgree, UpstreamNumbered, ChunkInOrder,
         NewTool, ToolCalls
    <3>5. ContentAgrees'
      BY DEF TypeOK, UpState, ChunkInOrder, UpstreamNumbered, ContentAgrees, NewTool,
         ToolCalls, Call, CallOfChunk, Piece,
             Substance
    <3>6. ReasonAgrees'
      BY DEF TypeOK, UpState, Translator, Client, UpstreamReasons, AnthropicReasons,
         FinishReasons, ReasonAgrees
    <3>7. LateAgrees' /\ CallsAgree'
      BY DEF TypeOK, UpState, Client, LateAgrees, CallsAgree, NewTool
    <3> QED
      BY <3>1, <3>2, <3>3, <3>4, <3>5, <3>6, <3>7
  <2> QED
    BY <2>1, <2>2
<1>3. CASE BlockDelta
  <2> USE <1>3 DEF BlockDelta, TranslatedDelta
  <2>1. TypeOK'
    <3>1. up' \in UpState
      BY Bounds DEF TypeOK, UpState, UpstreamReasons
    <3>2. chunk' \in [kind : {"none", "empty", "text", "tool"}, index : 0..MaxBlocks,
                       id : 0..MaxBlocks, piece : 0..MaxDeltas]
      BY DEF TypeOK, UpState, UpstreamNumbered
    <3>3. sent' \in Seq(Substances)
      <4>1. /\ Substance("text", 0, up.deltas + 1) \in Substances
            /\ Substance("tool", up.blocks, up.deltas + 1) \in Substances
        BY Bounds, SubstanceType, MessagesStreamAssumption DEF MessagesStreamAssumption
      <4> QED
        BY <4>1 DEF TypeOK
    <3> QED
      BY <3>1, <3>2, <3>3 DEF TypeOK
  <2>2. UpstreamNumbered'
    BY DEF TypeOK, UpState, UpstreamNumbered, ToolCalls
  <2>3. BlocksAgree' /\ PhaseAgrees'
    BY DEF TypeOK, UpState, Translator, BlocksAgree, PhaseAgrees, Opens
  <2>4. ChunkInOrder'
    BY DEF TypeOK, UpState, Translator, BlocksAgree, UpstreamNumbered, ChunkInOrder,
       NewTool, ToolCalls
  <2>5. ContentAgrees'
    <3>1. sent = client.content /\ client' = client
      BY DEF ContentAgrees, NewTool
    <3>2. CASE up.block = "text"
      BY <3>1, <3>2, Bounds DEF ContentAgrees, NewTool, CallOfChunk, Piece, Substance
    <3>3. CASE up.block = "tool"
      <4>1. /\ chunk' = Delta("tool", ToolCalls - 1, 0, up.deltas + 1)
            /\ ToolCalls - 1 \in DOMAIN blockOf /\ blockOf' = blockOf
            /\ up'.blocks = up.blocks
        BY <3>3 DEF UpstreamNumbered, ChunkInOrder, NewTool, ToolCalls, TypeOK, UpState
      <4>2. ~NewTool'
        BY <4>1 DEF NewTool
      <4> QED
        BY <3>1, <3>3, <4>1, <4>2, Bounds DEF ContentAgrees, CallOfChunk, Piece, Substance
    <3>4. CASE up.block = "other"
      BY <3>1, <3>4 DEF UpstreamNumbered, ContentAgrees, NewTool
    <3> QED
      BY <3>2, <3>3, <3>4 DEF TypeOK, UpState
  <2>6. ReasonAgrees'
    BY DEF TypeOK, UpState, Translator, Client, UpstreamReasons, AnthropicReasons,
       FinishReasons, ReasonAgrees
  <2>7. LateAgrees' /\ CallsAgree'
    BY DEF TypeOK, UpState, Client, LateAgrees, CallsAgree, NewTool
  <2> QED
    BY <2>1, <2>2, <2>3, <2>4, <2>5, <2>6, <2>7
<1>4. CASE BlockStop
  <2> USE <1>4 DEF BlockStop
  <2>1. TypeOK'
    <3>1. up' \in UpState
      BY DEF TypeOK, UpState
    <3> QED
      BY <3>1 DEF TypeOK
  <2>2. UpstreamNumbered'
    BY DEF TypeOK, UpState, UpstreamNumbered, ToolCalls
  <2>3. BlocksAgree' /\ PhaseAgrees'
    BY DEF TypeOK, UpState, Translator, BlocksAgree, PhaseAgrees, Opens
  <2>4. ChunkInOrder'
    BY DEF TypeOK, UpState, Translator, BlocksAgree, UpstreamNumbered, ChunkInOrder,
       NewTool, ToolCalls
  <2>5. ContentAgrees'
    BY DEF TypeOK, UpState, ChunkInOrder, UpstreamNumbered, ContentAgrees, NewTool,
       ToolCalls, Call, CallOfChunk, Piece,
           Substance
  <2>6. ReasonAgrees'
    BY DEF TypeOK, UpState, Translator, Client, UpstreamReasons, AnthropicReasons,
       FinishReasons, ReasonAgrees
  <2>7. LateAgrees' /\ CallsAgree'
    BY DEF TypeOK, UpState, Client, LateAgrees, CallsAgree, NewTool
  <2> QED
    BY <2>1, <2>2, <2>3, <2>4, <2>5, <2>6, <2>7
<1>5. CASE MessageDelta
  <2> USE <1>5 DEF MessageDelta, Finishes, FinishOf, UpstreamReasons
  <2>1. TypeOK'
    <3>1. up' \in UpState
      BY Bounds DEF TypeOK, UpState, UpstreamReasons
    <3>2. tr' \in Translator
      BY DEF TypeOK, Translator, FinishReasons
    <3> QED
      BY <3>1, <3>2 DEF TypeOK
  <2>2. UpstreamNumbered'
    BY DEF TypeOK, UpState, UpstreamNumbered, ToolCalls
  <2>3. BlocksAgree' /\ PhaseAgrees'
    BY DEF TypeOK, UpState, Translator, BlocksAgree, PhaseAgrees, Opens
  <2>4. ChunkInOrder'
    BY DEF TypeOK, UpState, Translator, BlocksAgree, UpstreamNumbered, ChunkInOrder,
       NewTool, ToolCalls
  <2>5. ContentAgrees'
    BY DEF TypeOK, UpState, ChunkInOrder, UpstreamNumbered, ContentAgrees, NewTool,
       ToolCalls, Call, CallOfChunk, Piece,
           Substance
  <2>6. ReasonAgrees'
    BY DEF TypeOK, UpState, Translator, Client, UpstreamReasons, AnthropicReasons,
       FinishReasons, ReasonAgrees, FinishOf, StopOf
  <2>7. LateAgrees' /\ CallsAgree'
    BY DEF TypeOK, UpState, Client, LateAgrees, CallsAgree, NewTool
  <2> QED
    BY <2>1, <2>2, <2>3, <2>4, <2>5, <2>6, <2>7
<1>6. CASE ChunkOfText
  <2> USE <1>6 DEF ChunkOfText
  <2>1. TypeOK'
    <3>1. up' \in UpState
      BY Bounds DEF TypeOK, UpState, UpstreamReasons
    <3>2. chunk' \in [kind : {"none", "empty", "text", "tool"}, index : 0..MaxBlocks,
                       id : 0..MaxBlocks, piece : 0..MaxDeltas]
      BY DEF TypeOK, UpState, UpstreamNumbered
    <3>3. sent' \in Seq(Substances)
      BY DEF TypeOK, UpState, UpstreamNumbered, Substances, Substance
    <3> QED
      BY <3>1, <3>2, <3>3 DEF TypeOK
  <2>2. UpstreamNumbered'
    BY DEF TypeOK, UpState, UpstreamNumbered, ToolCalls
  <2>3. BlocksAgree' /\ PhaseAgrees'
    BY DEF TypeOK, UpState, Translator, BlocksAgree, PhaseAgrees, Opens
  <2>4. ChunkInOrder'
    BY DEF TypeOK, UpState, Translator, BlocksAgree, UpstreamNumbered, ChunkInOrder,
       NewTool, ToolCalls
  <2>5. ContentAgrees'
    BY DEF TypeOK, UpState, ChunkInOrder, UpstreamNumbered, ContentAgrees, NewTool,
       ToolCalls, Call, CallOfChunk, Piece,
           Substance
  <2>6. ReasonAgrees'
    BY DEF TypeOK, UpState, Translator, Client, UpstreamReasons, AnthropicReasons,
       FinishReasons, ReasonAgrees
  <2>7. LateAgrees' /\ CallsAgree'
    BY DEF TypeOK, UpState, Client, LateAgrees, CallsAgree, NewTool
  <2> QED
    BY <2>1, <2>2, <2>3, <2>4, <2>5, <2>6, <2>7
<1>7. CASE ChunkOfNewTool
  <2> USE <1>7 DEF ChunkOfNewTool
  <2>1. TypeOK'
    <3>1. up' \in UpState
      <4>1. PICK piece \in {0, up.deltas + 1} :
              up' = [up EXCEPT !.phase = "started", !.block = "tool", !.blocks = @ + 1,
                               !.deltas = IF piece = 0 THEN @ ELSE piece]
        OBVIOUS
      <4>2. /\ up.blocks + 1 \in 0..MaxBlocks
            /\ (IF piece = 0 THEN up.deltas ELSE piece) \in 0..MaxDeltas
        BY <4>1, Bounds
      <4> QED
        BY <4>1, <4>2 DEF TypeOK, UpState
    <3>2. chunk' \in [kind : {"none", "empty", "text", "tool"}, index : 0..MaxBlocks,
                       id : 0..MaxBlocks, piece : 0..MaxDeltas]
      BY DEF TypeOK, UpState, UpstreamNumbered
    <3>3. sent' \in Seq(Substances)
      <4> DEFINE call == Substance("tool", up.blocks + 1, 0)
                 first == Substance("tool", up.blocks + 1, up.deltas + 1)
      <4>1. call \in Substances /\ first \in Substances
        BY Bounds, SubstanceType, MessagesStreamAssumption DEF MessagesStreamAssumption
      <4>2. Append(sent, call) \in Seq(Substances)
        BY <4>1 DEF TypeOK
      <4>3. Append(Append(sent, call), first) \in Seq(Substances)
        BY <4>1, <4>2
      <4> QED
        BY <4>2, <4>3
    <3> QED
      BY <3>1, <3>2, <3>3 DEF TypeOK
  <2>2. UpstreamNumbered'
    BY DEF TypeOK, UpState, UpstreamNumbered, ToolCalls
  <2>3. BlocksAgree' /\ PhaseAgrees'
    BY DEF TypeOK, UpState, Translator, BlocksAgree, PhaseAgrees, Opens
  <2>4. ChunkInOrder'
    <3>1. /\ chunk'.kind = "tool" /\ chunk'.index = up.blocks /\ chunk'.id = up.blocks + 1
          /\ up'.blocks = up.blocks + 1 /\ up'.block = "tool" /\ up.blocks \in Nat
          /\ blockOf' = blockOf
      BY DEF TypeOK, UpState
    <3>2. ToolCalls = up.blocks /\ ToolCalls' = up.blocks + 1
      BY <3>1 DEF ToolCalls
    <3>3. \A i \in DOMAIN blockOf : i < up.blocks /\ i \in 0..MaxBlocks
      BY <3>2 DEF ChunkInOrder, TypeOK
    <3>4. NewTool'
      BY <3>1, <3>3 DEF NewTool
    <3>5. /\ \A i \in DOMAIN blockOf' : i < ToolCalls'
          /\ chunk'.index = ToolCalls' - 1 /\ chunk'.id = up'.blocks
      BY <3>1, <3>2, <3>3
    <3>6. chunk'.piece \notin up'.late
      <4>1. chunk'.piece \in {0, up.deltas + 1} /\ up'.late = up.late
        BY DEF TypeOK, UpState
      <4>2. up.late \subseteq 1..MaxDeltas /\ up.deltas \in Nat
        BY DEF TypeOK, UpState
      <4> QED
        BY <4>1, <4>2 DEF LateAgrees
    <3> HIDE DEF IInv, ChunkOfNewTool, Pulling, Delta
    <3> QED
      BY <3>1, <3>4, <3>5, <3>6 DEF ChunkInOrder
  <2>5. ContentAgrees'
    <3>1. /\ chunk'.kind = "tool" /\ chunk'.index = up.blocks
          /\ up'.blocks = up.blocks + 1
          /\ chunk.kind = "none" /\ chunk.piece = 0
      BY DEF TypeOK, UpState
    <3>2. up.blocks \notin DOMAIN blockOf /\ blockOf' = blockOf
      BY DEF TypeOK, UpState, ToolCalls, ChunkInOrder
    <3>3. NewTool' /\ ~NewTool
      BY <3>1, <3>2 DEF NewTool
    <3>4. sent = client.content /\ client' = client
      BY <3>1, <3>3 DEF ContentAgrees
    <3>5. Call' = Substance("tool", up.blocks + 1, 0)
      BY <3>1 DEF Call
    <3>6. Piece' = Substance("tool", up.blocks + 1, chunk'.piece)
      BY <3>1 DEF CallOfChunk, Piece
    <3>7. sent' = IF chunk'.piece = 0 THEN Append(sent, Call')
                  ELSE Append(Append(sent, Call'), Piece')
      BY <3>5, <3>6
    <3> QED
      BY <3>3, <3>4, <3>7 DEF ContentAgrees
  <2>6. ReasonAgrees'
    BY DEF TypeOK, UpState, Translator, Client, UpstreamReasons, AnthropicReasons,
       FinishReasons, ReasonAgrees
  <2>7. LateAgrees' /\ CallsAgree'
    BY DEF TypeOK, UpState, Client, LateAgrees, CallsAgree, NewTool
  <2> QED
    BY <2>1, <2>2, <2>3, <2>4, <2>5, <2>6, <2>7
<1>8. ASSUME NEW index \in 0..MaxBlocks, ChunkOfArguments(index) PROVE IInv'
  <2> USE <1>8 DEF ChunkOfArguments, InTurn
  <2>1. TypeOK'
    <3>1. up' \in UpState
      <4>1. /\ up.deltas + 1 \in 0..MaxDeltas /\ up.deltas + 1 \in 1..MaxDeltas
            /\ up.late \subseteq 1..MaxDeltas
        BY Bounds DEF TypeOK, UpState
      <4>2. (IF InTurn(index) THEN up.late ELSE up.late \cup {up.deltas + 1})
              \in SUBSET (1..MaxDeltas)
        BY <4>1
      <4> QED
        BY <4>1, <4>2 DEF TypeOK, UpState
    <3>2. chunk' \in [kind : {"none", "empty", "text", "tool"}, index : 0..MaxBlocks,
                       id : 0..MaxBlocks, piece : 0..MaxDeltas]
      BY DEF TypeOK, UpState, UpstreamNumbered
    <3>3. sent' \in Seq(Substances)
      BY DEF TypeOK, UpState, UpstreamNumbered, Substances, Substance
    <3> QED
      BY <3>1, <3>2, <3>3 DEF TypeOK
  <2>2. UpstreamNumbered'
    BY DEF TypeOK, UpState, UpstreamNumbered, ToolCalls
  <2>3. BlocksAgree' /\ PhaseAgrees'
    BY DEF TypeOK, UpState, Translator, BlocksAgree, PhaseAgrees, Opens
  <2>4. ChunkInOrder'
    <3>1. /\ chunk'.kind = "tool" /\ chunk'.index = index /\ chunk'.piece = up.deltas + 1
          /\ chunk.kind = "none" /\ pc = "translate" /\ ToolCalls = up.blocks
          /\ ToolCalls' = up.blocks /\ up.blocks \in Nat /\ up.deltas \in Nat
          /\ UNCHANGED <<source, tr, blockOf, client, pc>> /\ index < up.blocks
          /\ up'.block = up.block /\ up'.blocks = up.blocks /\ source = "openai"
      BY DEF TypeOK, UpState, ToolCalls
    <3>2. index \in DOMAIN blockOf /\ ~NewTool
      BY <3>1 DEF NewTool, CallsAgree
    <3>3. ~NewTool'
      BY <3>1, <3>2 DEF NewTool
    <3>4. chunk'.piece \notin up'.late <=> InTurn(index)
      <4>1. up.deltas + 1 \notin up.late
        BY <3>1 DEF LateAgrees, TypeOK, UpState
      <4> QED
        BY <3>1, <4>1 DEF TypeOK, UpState
    <3> QED
      BY <3>1, <3>2, <3>3, <3>4 DEF ChunkInOrder
  <2>5. ContentAgrees'
    <3>1. /\ chunk'.kind = "tool" /\ chunk'.index = index /\ chunk'.piece = up.deltas + 1
          /\ chunk.kind = "none" /\ chunk.piece = 0 /\ pc = "translate"
          /\ index < up.blocks /\ source = "openai" /\ source' = source
      BY DEF TypeOK, UpState
    <3>2. ~NewTool /\ sent = client.content /\ client' = client /\ blockOf' = blockOf
      BY <3>1 DEF NewTool, ContentAgrees
    <3>3. index \in DOMAIN blockOf
      BY <3>1, <3>2 DEF CallsAgree
    <3>4. ~NewTool' /\ chunk'.piece # 0
      BY <3>1, <3>2, <3>3, Bounds DEF NewTool
    <3>5. sent' = Append(sent, Piece')
      BY <3>1 DEF CallOfChunk, Piece
    <3> QED
      BY <3>2, <3>4, <3>5 DEF ContentAgrees
  <2>6. ReasonAgrees'
    BY DEF TypeOK, UpState, Translator, Client, UpstreamReasons, AnthropicReasons,
       FinishReasons, ReasonAgrees
  <2>7. LateAgrees' /\ CallsAgree'
    BY DEF TypeOK, UpState, Client, LateAgrees, CallsAgree, NewTool
  <2> QED
    BY <2>1, <2>2, <2>3, <2>4, <2>5, <2>6, <2>7
<1>9. CASE ChunkOfRole
  <2> USE <1>9 DEF ChunkOfRole
  <2>1. TypeOK'
    <3>1. up' \in UpState
      BY DEF TypeOK, UpState
    <3>2. chunk' \in [kind : {"none", "empty", "text", "tool"}, index : 0..MaxBlocks,
                       id : 0..MaxBlocks, piece : 0..MaxDeltas]
      BY DEF TypeOK
    <3> QED
      BY <3>1, <3>2 DEF TypeOK
  <2>2. UpstreamNumbered'
    BY DEF TypeOK, UpState, UpstreamNumbered, ToolCalls
  <2>3. BlocksAgree' /\ PhaseAgrees'
    BY DEF TypeOK, UpState, Translator, BlocksAgree, PhaseAgrees, Opens
  <2>4. ChunkInOrder'
    BY DEF TypeOK, UpState, Translator, BlocksAgree, UpstreamNumbered, ChunkInOrder,
       NewTool, ToolCalls
  <2>5. ContentAgrees'
    BY DEF TypeOK, UpState, ChunkInOrder, UpstreamNumbered, ContentAgrees, NewTool,
       ToolCalls, Call, CallOfChunk, Piece,
           Substance
  <2>6. ReasonAgrees'
    BY DEF TypeOK, UpState, Translator, Client, UpstreamReasons, AnthropicReasons,
       FinishReasons, ReasonAgrees
  <2>7. LateAgrees' /\ CallsAgree'
    BY DEF TypeOK, UpState, Client, LateAgrees, CallsAgree, NewTool
  <2> QED
    BY <2>1, <2>2, <2>3, <2>4, <2>5, <2>6, <2>7
<1>10. CASE ChunkOfFinish
  <2> USE <1>10 DEF ChunkOfFinish, Finishes
  <2>1. TypeOK'
    <3>1. up' \in UpState
      BY Bounds DEF TypeOK, UpState, UpstreamReasons
    <3>2. tr' \in Translator
      BY DEF TypeOK, Translator, FinishReasons
    <3> QED
      BY <3>1, <3>2 DEF TypeOK
  <2>2. UpstreamNumbered'
    BY DEF TypeOK, UpState, UpstreamNumbered, ToolCalls
  <2>3. BlocksAgree' /\ PhaseAgrees'
    BY DEF TypeOK, UpState, Translator, BlocksAgree, PhaseAgrees, Opens
  <2>4. ChunkInOrder'
    BY DEF TypeOK, UpState, Translator, BlocksAgree, UpstreamNumbered, ChunkInOrder,
       NewTool, ToolCalls
  <2>5. ContentAgrees'
    BY DEF TypeOK, UpState, ChunkInOrder, UpstreamNumbered, ContentAgrees, NewTool,
       ToolCalls, Call, CallOfChunk, Piece,
           Substance
  <2>6. ReasonAgrees'
    BY DEF TypeOK, UpState, Translator, Client, UpstreamReasons, AnthropicReasons,
       FinishReasons, ReasonAgrees, FinishOf, StopOf
  <2>7. LateAgrees' /\ CallsAgree'
    BY DEF TypeOK, UpState, Client, LateAgrees, CallsAgree, NewTool
  <2> QED
    BY <2>1, <2>2, <2>3, <2>4, <2>5, <2>6, <2>7
<1>11. CASE StreamEnds
  <2> USE <1>11 DEF StreamEnds
  <2>1. TypeOK'
    BY DEF TypeOK
  <2>2. UpstreamNumbered'
    BY DEF TypeOK, UpState, UpstreamNumbered, ToolCalls
  <2>3. BlocksAgree' /\ PhaseAgrees'
    BY DEF TypeOK, UpState, Translator, BlocksAgree, PhaseAgrees, Opens
  <2>4. ChunkInOrder'
    BY DEF TypeOK, UpState, Translator, BlocksAgree, UpstreamNumbered, ChunkInOrder,
       NewTool, ToolCalls
  <2>5. ContentAgrees'
    BY DEF TypeOK, UpState, ChunkInOrder, UpstreamNumbered, ContentAgrees, NewTool,
       ToolCalls, Call, CallOfChunk, Piece,
           Substance
  <2>6. ReasonAgrees'
    BY DEF TypeOK, UpState, Translator, Client, UpstreamReasons, AnthropicReasons,
       FinishReasons, ReasonAgrees
  <2>7. LateAgrees' /\ CallsAgree'
    BY DEF TypeOK, UpState, Client, LateAgrees, CallsAgree, NewTool
  <2> QED
    BY <2>1, <2>2, <2>3, <2>4, <2>5, <2>6, <2>7
<1>12. CASE StreamBreaks
  <2> USE <1>12 DEF StreamBreaks
  <2>1. TypeOK'
    BY DEF TypeOK
  <2>2. UpstreamNumbered'
    BY DEF TypeOK, UpState, UpstreamNumbered, ToolCalls
  <2>3. BlocksAgree' /\ PhaseAgrees'
    BY DEF TypeOK, UpState, Translator, BlocksAgree, PhaseAgrees, Opens
  <2>4. ChunkInOrder'
    BY DEF TypeOK, UpState, Translator, BlocksAgree, UpstreamNumbered, ChunkInOrder,
       NewTool, ToolCalls
  <2>5. ContentAgrees'
    BY DEF TypeOK, UpState, ChunkInOrder, UpstreamNumbered, ContentAgrees, NewTool,
       ToolCalls, Call, CallOfChunk, Piece,
           Substance
  <2>6. ReasonAgrees'
    BY DEF TypeOK, UpState, Translator, Client, UpstreamReasons, AnthropicReasons,
       FinishReasons, ReasonAgrees
  <2>7. LateAgrees' /\ CallsAgree'
    BY DEF TypeOK, UpState, Client, LateAgrees, CallsAgree, NewTool
  <2> QED
    BY <2>1, <2>2, <2>3, <2>4, <2>5, <2>6, <2>7
<1> QED
  BY <1>1, <1>2, <1>3, <1>4, <1>5, <1>6, <1>7, <1>8, <1>9, <1>10, <1>11,
     <1>12 DEF UpstreamStep

\* OpenAIToAnthropicStreamTranslator's steps use the chunk up.
LEMMA TranslatorSound == IInv /\ TranslatorStep => IInv'
<1> SUFFICES ASSUME IInv, TranslatorStep PROVE IInv'
  OBVIOUS
<1> USE MessagesStreamAssumption
    DEF IInv, Translating, NoChunk, EmptyChunk, Delta, NoBlock
<1>1. CASE EmitMessageStart
  <2> USE <1>1 DEF EmitMessageStart
  <2>1. TypeOK'
    BY DEF TypeOK, Translator, Client, Substances, Substance, AnthropicReasons, Opens,
       BlocksAgree
  <2>2. UpstreamNumbered'
    BY DEF UpstreamNumbered, ToolCalls
  <2>3. BlocksAgree' /\ PhaseAgrees'
    BY DEF TypeOK, Translator, Client, BlocksAgree, PhaseAgrees, ChunkInOrder, Opens,
       NewTool
  <2>4. ChunkInOrder'
    BY DEF TypeOK, UpState, Translator, Client, BlocksAgree, UpstreamNumbered,
       ChunkInOrder, NewTool, ToolCalls, Opens
  <2>5. ContentAgrees'
    BY DEF TypeOK, UpState, Client, BlocksAgree, ChunkInOrder, UpstreamNumbered,
       ContentAgrees, NewTool, ToolCalls, Call,
           CallOfChunk, Piece, Substance, Opens
  <2>6. ReasonAgrees'
    BY DEF TypeOK, UpState, Translator, Client, UpstreamReasons, AnthropicReasons,
       FinishReasons, ReasonAgrees
  <2>7. LateAgrees' /\ CallsAgree'
    BY DEF TypeOK, UpState, Client, LateAgrees, CallsAgree, NewTool
  <2> QED
    BY <2>1, <2>2, <2>3, <2>4, <2>5, <2>6, <2>7
<1>2. CASE EmitBlockStop
  <2> USE <1>2 DEF EmitBlockStop, SeesBlockStop
  <2>1. TypeOK'
    BY DEF TypeOK, Translator, Client, Substances, Substance, AnthropicReasons, Opens,
       BlocksAgree
  <2>2. UpstreamNumbered'
    BY DEF UpstreamNumbered, ToolCalls
  <2>3. BlocksAgree' /\ PhaseAgrees'
    BY DEF TypeOK, Translator, Client, BlocksAgree, PhaseAgrees, ChunkInOrder, Opens,
       NewTool
  <2>4. ChunkInOrder'
    BY DEF TypeOK, UpState, Translator, Client, BlocksAgree, UpstreamNumbered,
       ChunkInOrder, NewTool, ToolCalls, Opens
  <2>5. ContentAgrees'
    BY DEF TypeOK, UpState, Client, BlocksAgree, ChunkInOrder, UpstreamNumbered,
       ContentAgrees, NewTool, ToolCalls, Call,
           CallOfChunk, Piece, Substance, Opens
  <2>6. ReasonAgrees'
    BY DEF TypeOK, UpState, Translator, Client, UpstreamReasons, AnthropicReasons,
       FinishReasons, ReasonAgrees
  <2>7. LateAgrees' /\ CallsAgree'
    BY DEF TypeOK, UpState, Client, LateAgrees, CallsAgree, NewTool
  <2> QED
    BY <2>1, <2>2, <2>3, <2>4, <2>5, <2>6, <2>7
<1>3. CASE EmitBlockStart
  <2> USE <1>3 DEF EmitBlockStart, SeesBlockStart, With
  <2>1. TypeOK'
    <3>1. tr' \in Translator
      BY Bounds DEF TypeOK, Translator, Opens
    <3>2. /\ DOMAIN blockOf' \subseteq 0..MaxBlocks
           /\ \A i \in DOMAIN blockOf' : blockOf'[i] \in Nat
      BY DEF TypeOK, Translator
    <3>3. chunk.kind \in {"text", "tool"} /\ chunk.id \in 0..MaxBlocks /\ tr.next \in Nat
      BY DEF TypeOK, Translator, Opens
    <3>4. SeesBlockStart(tr.next, chunk.kind, chunk.id)
      OBVIOUS
    <3>5. client' \in Client
      BY <3>3, <3>4, SeesBlockStartType DEF TypeOK
    <3> QED
      BY <3>1, <3>2, <3>5 DEF TypeOK
  <2>2. UpstreamNumbered'
    BY DEF UpstreamNumbered, ToolCalls
  <2> DEFINE block == [kind |-> chunk.kind, id |-> chunk.id]
  <2>3a. /\ client'.blocks = Append(client.blocks, block)
         /\ client'.open = client.open \cup {tr.next} /\ client'.phase = client.phase
         /\ tr'.current = tr.next /\ tr'.next = tr.next + 1 /\ tr'.kind = chunk.kind
         /\ tr'.anyOpened = TRUE /\ tr'.started = tr.started
         /\ UNCHANGED <<source, up, nextTool, chunk, pc>>
    BY DEF TypeOK, Translator, Client
  <2>3b. /\ tr.next \in Nat /\ tr.next = Len(client.blocks) /\ tr.current = NoBlock
         /\ client.open = {} /\ tr.started /\ Opens /\ pc = "translate"
    BY DEF TypeOK, Translator, BlocksAgree
  <2>3c. /\ Len(client'.blocks) = tr.next + 1 /\ client'.blocks # <<>>
         /\ client'.blocks[tr.next + 1] = block
    <3>1. client.blocks \in Seq([kind : {"text", "tool"}, id : 0..MaxBlocks])
      BY DEF TypeOK, Client
    <3>2. client'.blocks = Append(client.blocks, block) /\ Len(client.blocks) = tr.next
      BY <2>3a, <2>3b
    <3> HIDE DEF block, EmitBlockStart, SeesBlockStart, IInv
    <3>3. /\ Len(Append(client.blocks, block)) = Len(client.blocks) + 1
          /\ Append(client.blocks, block)[Len(client.blocks) + 1] = block
          /\ Append(client.blocks, block) # <<>>
      BY <3>1
    <3> QED
      BY <3>2, <3>3
  <2>3g. /\ Len(client'.blocks) = Len(client.blocks) + 1 /\ Len(client.blocks) \in Nat
         /\ \A i \in 1..Len(client.blocks) : client'.blocks[i] = client.blocks[i]
    <3>1. client.blocks \in Seq([kind : {"text", "tool"}, id : 0..MaxBlocks])
      BY DEF TypeOK, Client
    <3> HIDE DEF block, EmitBlockStart, SeesBlockStart, IInv
    <3> QED
      BY <3>1, <2>3a
  <2>3h. source = "openai" =>
           \A i \in DOMAIN blockOf :
             /\ blockOf[i] + 1 \in 1..Len(client'.blocks)
             /\ client'.blocks[blockOf[i] + 1] = [kind |-> "tool", id |-> i + 1]
    <3> SUFFICES ASSUME source = "openai", NEW i \in DOMAIN blockOf
                 PROVE  /\ blockOf[i] + 1 \in 1..Len(client'.blocks)
                        /\ client'.blocks[blockOf[i] + 1] = [kind |-> "tool", id |-> i + 1]
      OBVIOUS
    <3>1. /\ blockOf[i] + 1 \in 1..Len(client.blocks)
          /\ client.blocks[blockOf[i] + 1] = [kind |-> "tool", id |-> i + 1]
      BY DEF CallsAgree
    <3> HIDE DEF block, EmitBlockStart, SeesBlockStart, IInv
    <3> QED
      BY <3>1, <2>3g
  <2>3d. chunk.kind \in {"text", "tool"} /\ (chunk.kind = "text" => chunk.id = 0)
    BY <2>3b DEF Opens, ChunkInOrder
  <2>3e. BlocksAgree'
    <3>1. tr'.current # NoBlock /\ tr'.current = tr'.next - 1
      BY <2>3a, <2>3b
    <3>2. /\ Len(client'.blocks) \in Nat /\ Len(client'.blocks) > 0
          /\ client'.blocks[Len(client'.blocks)].kind = tr'.kind
          /\ tr'.kind = "text" => client'.blocks[Len(client'.blocks)].id = 0
      BY <2>3a, <2>3b, <2>3c, <2>3d
    <3>3. client'.open = {tr'.current} /\ tr'.next = Len(client'.blocks)
      BY <2>3a, <2>3b, <2>3c
    <3>4. tr'.anyOpened = TRUE /\ tr'.started /\ client'.blocks # <<>>
      BY <2>3a, <2>3b, <2>3c
    <3> HIDE DEF block, EmitBlockStart, SeesBlockStart, IInv
    <3> QED
      BY <3>1, <3>2, <3>3, <3>4 DEF BlocksAgree
  <2>3f. PhaseAgrees'
    BY <2>3a, <2>3b DEF PhaseAgrees
  <2>3. BlocksAgree' /\ PhaseAgrees'
    BY <2>3e, <2>3f
  <2>4. ChunkInOrder'
    <3>1. ToolCalls' = ToolCalls
      BY <2>3a DEF ToolCalls
    <3>2. CASE chunk.kind = "text"
      <4>1. blockOf' = blockOf /\ up.block = "text" /\ ~NewTool /\ ~NewTool'
        BY <3>2, <2>3a DEF ChunkInOrder, NewTool
      <4> QED
        BY <3>1, <3>2, <4>1, <2>3a DEF ChunkInOrder
    <3>3. CASE chunk.kind = "tool"
      <4>1. /\ chunk.index = ToolCalls - 1 /\ chunk.index \in 0..MaxBlocks
            /\ NewTool /\ chunk.id = up.blocks /\ up.block = "tool"
        BY <3>3, <2>3b DEF Opens, NewTool, ChunkInOrder, TypeOK
      <4>2. /\ DOMAIN blockOf' = DOMAIN blockOf \cup {chunk.index}
            /\ blockOf'[chunk.index] = tr.next
        BY <3>3
      <4>3. \A i \in DOMAIN blockOf' : i < ToolCalls
        BY <4>1, <4>2 DEF ChunkInOrder, ToolCalls, TypeOK, UpState
      <4>4. ~NewTool'
        BY <4>2, <2>3a DEF NewTool
      <4>5. /\ ToolCalls - 1 \in DOMAIN blockOf' /\ blockOf'[ToolCalls - 1] = tr'.current
            /\ tr'.current # NoBlock /\ tr'.kind = "tool"
            /\ client'.blocks[Len(client'.blocks)].id = up.blocks
        BY <3>3, <4>1, <4>2, <2>3a, <2>3b, <2>3c
      <4> QED
        BY <3>1, <3>3, <4>1, <4>3, <4>4, <4>5, <2>3a DEF ChunkInOrder
    <3> QED
      BY <2>3d, <3>2, <3>3
  <2>5. ContentAgrees'
    BY DEF TypeOK, UpState, Client, BlocksAgree, ChunkInOrder, UpstreamNumbered,
       ContentAgrees, NewTool, ToolCalls, Call,
           CallOfChunk, Piece, Substance, Opens
  <2>6. ReasonAgrees'
    BY DEF TypeOK, UpState, Translator, Client, UpstreamReasons, AnthropicReasons,
       FinishReasons, ReasonAgrees
  <2>7. LateAgrees' /\ CallsAgree'
    <3>1. LateAgrees'
      BY <2>3a DEF LateAgrees
    <3>2. CASE source = "openai" /\ chunk.kind = "tool"
      <4>1. /\ chunk.index \in 0..MaxBlocks /\ chunk.id = chunk.index + 1
            /\ chunk.index \notin DOMAIN blockOf
        BY <3>2, <2>3b DEF TypeOK, UpState, Opens, NewTool, ToolCalls, ChunkInOrder
      <4>2. /\ DOMAIN blockOf' = DOMAIN blockOf \cup {chunk.index}
            /\ blockOf'[chunk.index] = tr.next
            /\ \A i \in DOMAIN blockOf : blockOf'[i] = blockOf[i]
        BY <3>2, <4>1
      <4>3. \A i \in DOMAIN blockOf :
              /\ blockOf'[i] + 1 \in 1..Len(client'.blocks)
              /\ client'.blocks[blockOf'[i] + 1] = [kind |-> "tool", id |-> i + 1]
        BY <3>2, <4>2, <2>3h
      <4>4. /\ blockOf'[chunk.index] + 1 \in 1..Len(client'.blocks)
            /\ client'.blocks[blockOf'[chunk.index] + 1]
                 = [kind |-> "tool", id |-> chunk.index + 1]
        BY <3>2, <4>1, <4>2, <2>3b, <2>3c
      <4>5. \A i \in 0..MaxBlocks : i < up.blocks => i \in DOMAIN blockOf'
        BY <3>2, <4>2, <2>3b DEF CallsAgree
      <4> HIDE DEF EmitBlockStart, IInv, SeesBlockStart, block
      <4> QED
        BY <3>1, <4>2, <4>3, <4>4, <4>5, <2>3a DEF CallsAgree
    <3>3. CASE chunk.kind # "tool"
      <4>1. blockOf' = blockOf /\ ~NewTool
        BY <3>3 DEF NewTool
      <4>2. source = "openai" =>
              \A i \in DOMAIN blockOf :
                /\ blockOf[i] + 1 \in 1..Len(client'.blocks)
                /\ client'.blocks[blockOf[i] + 1] = [kind |-> "tool", id |-> i + 1]
        BY <2>3h
      <4>3. source = "openai" =>
              \A i \in 0..MaxBlocks : i < up.blocks => i \in DOMAIN blockOf
        BY <4>1, <2>3b DEF CallsAgree
      <4> HIDE DEF EmitBlockStart, IInv, SeesBlockStart, block
      <4> QED
        BY <3>1, <4>1, <4>2, <4>3, <2>3a DEF CallsAgree
    <3>4. CASE source # "openai"
      BY <3>1, <3>4, <2>3a DEF CallsAgree
    <3> QED
      BY <3>2, <3>3, <3>4
  <2> QED
    BY <2>1, <2>2, <2>3, <2>4, <2>5, <2>6, <2>7
<1>4. CASE EmitDelta
  <2> USE <1>4 DEF EmitDelta, SeesDelta
  <2>1. TypeOK'
    <3>1. client' \in Client
      <4>1. BlockOfChunk \in Nat /\ chunk.piece \in 0..MaxDeltas
        <5>1. chunk.kind = "text" => tr.current # NoBlock
          BY DEF Opens, BlocksAgree
        <5>2. tr.current \in Nat \cup {NoBlock}
          BY DEF TypeOK, Translator
        <5>3. chunk.kind = "tool" => chunk.index \in DOMAIN blockOf
          BY DEF Opens
        <5>4. chunk.kind \in {"text", "tool"} /\ chunk.piece \in 0..MaxDeltas
          BY DEF TypeOK, ChunkInOrder
        <5> QED
          BY <5>1, <5>2, <5>3, <5>4 DEF BlockOfChunk, TypeOK
      <4>2. SeesDelta(BlockOfChunk, chunk.piece)
        OBVIOUS
      <4> QED
        BY <4>1, <4>2, SeesDeltaType DEF TypeOK
    <3>2. chunk' \in [kind : {"none", "empty", "text", "tool"}, index : 0..MaxBlocks,
                       id : 0..MaxBlocks, piece : 0..MaxDeltas]
      BY DEF TypeOK
    <3> QED
      BY <3>1, <3>2 DEF TypeOK
  <2>2. UpstreamNumbered'
    BY DEF UpstreamNumbered, ToolCalls
  <2>3. BlocksAgree' /\ PhaseAgrees'
    BY DEF TypeOK, Translator, Client, BlocksAgree, PhaseAgrees, ChunkInOrder, Opens,
       NewTool
  <2>4. ChunkInOrder'
    BY DEF TypeOK, UpState, Translator, Client, BlocksAgree, UpstreamNumbered,
       ChunkInOrder, NewTool, ToolCalls, Opens
  <2>5. ContentAgrees'
    <3> DEFINE place == BlockOfChunk + 1
    <3>1. /\ chunk.kind \in {"text", "tool"} /\ ~NewTool
          /\ chunk.kind = "tool" => chunk.index \in DOMAIN blockOf
      BY DEF TypeOK, ChunkInOrder, Opens, NewTool
    <3>2. /\ place \in DOMAIN client.blocks /\ client.blocks[place].kind = chunk.kind
          /\ client.blocks[place].id = IF chunk.kind = "tool" THEN CallOfChunk ELSE 0
      <4>0. /\ client.blocks \in Seq([kind : {"text", "tool"}, id : 0..MaxBlocks])
            /\ DOMAIN client.blocks = 1..Len(client.blocks) /\ Len(client.blocks) \in Nat
            /\ pc = "translate" /\ up.blocks \in Nat
        BY DEF TypeOK, Client, UpState
      <4>1. CASE chunk.kind = "tool" /\ source = "openai"
        <5>1. place = blockOf[chunk.index] + 1 /\ chunk.index \in DOMAIN blockOf
          BY <4>1, <3>1 DEF BlockOfChunk
        <5>2. /\ blockOf[chunk.index] + 1 \in 1..Len(client.blocks)
              /\ client.blocks[blockOf[chunk.index] + 1]
                   = [kind |-> "tool", id |-> chunk.index + 1]
          BY <4>1, <5>1 DEF CallsAgree
        <5> HIDE DEF place, EmitDelta, SeesDelta, IInv
        <5> QED
          BY <4>0, <4>1, <5>1, <5>2 DEF CallOfChunk
      <4>2. CASE chunk.kind = "tool" /\ source # "openai"
        <5>1. source = "anthropic"
          BY <4>2 DEF TypeOK, MessagesStreamAssumption
        <5>2. /\ up.block = "tool" /\ chunk.index = ToolCalls - 1
              /\ blockOf[chunk.index] = tr.current /\ tr.current # NoBlock
              /\ tr.kind = "tool" /\ client.blocks[Len(client.blocks)].id = up.blocks
          BY <4>0, <4>2, <5>1, <3>1 DEF LateAgrees, ChunkInOrder
        <5>3. BlockOfChunk = tr.current
          BY <4>2, <5>2 DEF BlockOfChunk
        <5>4. /\ tr.current = Len(client.blocks) - 1 /\ Len(client.blocks) > 0
              /\ tr.kind = client.blocks[Len(client.blocks)].kind
          BY <5>2 DEF BlocksAgree
        <5>5. place = Len(client.blocks)
          BY <4>0, <5>3, <5>4
        <5> QED
          BY <4>0, <4>2, <5>2, <5>4, <5>5 DEF CallOfChunk
      <4>3. CASE chunk.kind = "text"
        <5>1. tr.kind = "text" /\ BlockOfChunk = tr.current
          BY <4>3 DEF Opens, BlockOfChunk
        <5>2. tr.current # NoBlock
          BY <4>0, <5>1 DEF BlocksAgree
        <5>3. /\ tr.current = Len(client.blocks) - 1 /\ Len(client.blocks) > 0
              /\ client.blocks[Len(client.blocks)].kind = "text"
              /\ client.blocks[Len(client.blocks)].id = 0
          BY <5>1, <5>2 DEF BlocksAgree
        <5>4. place = Len(client.blocks)
          BY <4>0, <5>1, <5>3
        <5> QED
          BY <4>0, <4>3, <5>3, <5>4
      <4> QED
        BY <3>1, <4>1, <4>2, <4>3
    <3>5. client'.content = Append(client.content, Piece)
      <4>1. client'.content
              = Append(client.content, Substance(client.blocks[place].kind,
                                                 client.blocks[place].id, chunk.piece))
        BY <3>2 DEF SeesDelta, TypeOK, Client
      <4> QED
        BY <4>1, <3>2 DEF Piece
    <3>6. sent = Append(client.content, Piece)
      BY <3>1 DEF ContentAgrees
    <3>7. ~NewTool' /\ chunk'.piece = 0 /\ sent' = sent
      BY DEF NewTool
    <3> QED
      BY <3>5, <3>6, <3>7 DEF ContentAgrees
  <2>6. ReasonAgrees'
    BY DEF TypeOK, UpState, Translator, Client, UpstreamReasons, AnthropicReasons,
       FinishReasons, ReasonAgrees
  <2>7. LateAgrees' /\ CallsAgree'
    <3>1. client'.blocks = client.blocks /\ chunk'.kind = "none" /\ ~NewTool
      BY DEF TypeOK, Client, Opens, NewTool
    <3> QED
      BY <3>1 DEF LateAgrees, CallsAgree, NewTool
  <2> QED
    BY <2>1, <2>2, <2>3, <2>4, <2>5, <2>6, <2>7
<1>5. CASE EmitNothing
  <2> USE <1>5 DEF EmitNothing
  <2>1. TypeOK'
    BY DEF TypeOK, Translator, Client, Substances, Substance, AnthropicReasons, Opens,
       BlocksAgree
  <2>2. UpstreamNumbered'
    BY DEF UpstreamNumbered, ToolCalls
  <2>3. BlocksAgree' /\ PhaseAgrees'
    BY DEF TypeOK, Translator, Client, BlocksAgree, PhaseAgrees, ChunkInOrder, Opens,
       NewTool
  <2>4. ChunkInOrder'
    BY DEF TypeOK, UpState, Translator, Client, BlocksAgree, UpstreamNumbered,
       ChunkInOrder, NewTool, ToolCalls, Opens
  <2>5. ContentAgrees'
    BY DEF TypeOK, UpState, Client, BlocksAgree, ChunkInOrder, UpstreamNumbered,
       ContentAgrees, NewTool, ToolCalls, Call,
           CallOfChunk, Piece, Substance, Opens
  <2>6. ReasonAgrees'
    BY DEF TypeOK, UpState, Translator, Client, UpstreamReasons, AnthropicReasons,
       FinishReasons, ReasonAgrees
  <2>7. LateAgrees' /\ CallsAgree'
    BY DEF TypeOK, UpState, Client, LateAgrees, CallsAgree, NewTool, Opens
  <2> QED
    BY <2>1, <2>2, <2>3, <2>4, <2>5, <2>6, <2>7
<1>6. CASE FinalMessageStart
  <2> USE <1>6 DEF FinalMessageStart
  <2>1. TypeOK'
    BY DEF TypeOK, Translator, Client, Substances, Substance, AnthropicReasons, Opens,
       BlocksAgree
  <2>2. UpstreamNumbered'
    BY DEF UpstreamNumbered, ToolCalls
  <2>3. BlocksAgree' /\ PhaseAgrees'
    BY DEF TypeOK, Translator, Client, BlocksAgree, PhaseAgrees, ChunkInOrder, Opens,
       NewTool
  <2>4. ChunkInOrder'
    BY DEF TypeOK, UpState, Translator, Client, BlocksAgree, UpstreamNumbered,
       ChunkInOrder, NewTool, ToolCalls, Opens
  <2>5. ContentAgrees'
    BY DEF TypeOK, UpState, Client, BlocksAgree, ChunkInOrder, UpstreamNumbered,
       ContentAgrees, NewTool, ToolCalls, Call,
           CallOfChunk, Piece, Substance, Opens
  <2>6. ReasonAgrees'
    BY DEF TypeOK, UpState, Translator, Client, UpstreamReasons, AnthropicReasons,
       FinishReasons, ReasonAgrees
  <2>7. LateAgrees' /\ CallsAgree'
    BY DEF TypeOK, UpState, Client, LateAgrees, CallsAgree, NewTool
  <2> QED
    BY <2>1, <2>2, <2>3, <2>4, <2>5, <2>6, <2>7
<1>7. CASE FinalBlockStop
  <2> USE <1>7 DEF FinalBlockStop, SeesBlockStop
  <2>1. TypeOK'
    BY DEF TypeOK, Translator, Client, Substances, Substance, AnthropicReasons, Opens,
       BlocksAgree
  <2>2. UpstreamNumbered'
    BY DEF UpstreamNumbered, ToolCalls
  <2>3. BlocksAgree' /\ PhaseAgrees'
    BY DEF TypeOK, Translator, Client, BlocksAgree, PhaseAgrees, ChunkInOrder, Opens,
       NewTool
  <2>4. ChunkInOrder'
    BY DEF TypeOK, UpState, Translator, Client, BlocksAgree, UpstreamNumbered,
       ChunkInOrder, NewTool, ToolCalls, Opens
  <2>5. ContentAgrees'
    BY DEF TypeOK, UpState, Client, BlocksAgree, ChunkInOrder, UpstreamNumbered,
       ContentAgrees, NewTool, ToolCalls, Call,
           CallOfChunk, Piece, Substance, Opens
  <2>6. ReasonAgrees'
    BY DEF TypeOK, UpState, Translator, Client, UpstreamReasons, AnthropicReasons,
       FinishReasons, ReasonAgrees
  <2>7. LateAgrees' /\ CallsAgree'
    BY DEF TypeOK, UpState, Client, LateAgrees, CallsAgree, NewTool
  <2> QED
    BY <2>1, <2>2, <2>3, <2>4, <2>5, <2>6, <2>7
<1>8. CASE FinalEmptyBlock
  <2> USE <1>8 DEF FinalEmptyBlock, SeesBlockStart
  <2>1. TypeOK'
    <3>1. tr' \in Translator
      BY DEF TypeOK, Translator
    <3>2. SeesBlockStart(0, "text", 0)
      OBVIOUS
    <3>3. client' \in Client
      <4>1. client \in Client /\ 0 \in 0..MaxBlocks /\ 0 \in Nat
        BY MessagesStreamAssumption DEF MessagesStreamAssumption, TypeOK
      <4> QED
        BY <3>2, <4>1, SeesBlockStartType
    <3> QED
      BY <3>1, <3>3 DEF TypeOK
  <2>2. UpstreamNumbered'
    BY DEF UpstreamNumbered, ToolCalls
  <2>3. BlocksAgree' /\ PhaseAgrees'
    BY DEF TypeOK, Translator, Client, BlocksAgree, PhaseAgrees, ChunkInOrder, Opens,
       NewTool
  <2>4. ChunkInOrder'
    BY DEF TypeOK, UpState, Translator, Client, BlocksAgree, UpstreamNumbered,
       ChunkInOrder, NewTool, ToolCalls, Opens
  <2>5. ContentAgrees'
    BY DEF TypeOK, UpState, Client, BlocksAgree, ChunkInOrder, UpstreamNumbered,
       ContentAgrees, NewTool, ToolCalls, Call,
           CallOfChunk, Piece, Substance, Opens
  <2>6. ReasonAgrees'
    BY DEF TypeOK, UpState, Translator, Client, UpstreamReasons, AnthropicReasons,
       FinishReasons, ReasonAgrees
  <2>7. LateAgrees' /\ CallsAgree'
    BY DEF TypeOK, UpState, Client, LateAgrees, CallsAgree, NewTool
  <2> QED
    BY <2>1, <2>2, <2>3, <2>4, <2>5, <2>6, <2>7
<1>9. CASE FinalMessageDelta
  <2> USE <1>9 DEF FinalMessageDelta, StopOf
  <2>1. TypeOK'
    BY DEF TypeOK, Translator, Client, Substances, Substance, AnthropicReasons, Opens,
       BlocksAgree
  <2>2. UpstreamNumbered'
    BY DEF UpstreamNumbered, ToolCalls
  <2>3. BlocksAgree' /\ PhaseAgrees'
    BY DEF TypeOK, Translator, Client, BlocksAgree, PhaseAgrees, ChunkInOrder, Opens,
       NewTool
  <2>4. ChunkInOrder'
    BY DEF TypeOK, UpState, Translator, Client, BlocksAgree, UpstreamNumbered,
       ChunkInOrder, NewTool, ToolCalls, Opens
  <2>5. ContentAgrees'
    BY DEF TypeOK, UpState, Client, BlocksAgree, ChunkInOrder, UpstreamNumbered,
       ContentAgrees, NewTool, ToolCalls, Call,
           CallOfChunk, Piece, Substance, Opens
  <2>6. ReasonAgrees'
    BY DEF TypeOK, UpState, Translator, Client, UpstreamReasons, AnthropicReasons,
       FinishReasons, ReasonAgrees, FinishOf, StopOf
  <2>7. LateAgrees' /\ CallsAgree'
    BY DEF TypeOK, UpState, Client, LateAgrees, CallsAgree, NewTool
  <2> QED
    BY <2>1, <2>2, <2>3, <2>4, <2>5, <2>6, <2>7
<1>10. CASE FinalMessageStop
  <2> USE <1>10 DEF FinalMessageStop
  <2>1. TypeOK'
    BY DEF TypeOK, Translator, Client, Substances, Substance, AnthropicReasons, Opens,
       BlocksAgree
  <2>2. UpstreamNumbered'
    BY DEF UpstreamNumbered, ToolCalls
  <2>3. BlocksAgree' /\ PhaseAgrees'
    BY DEF TypeOK, Translator, Client, BlocksAgree, PhaseAgrees, ChunkInOrder, Opens,
       NewTool
  <2>4. ChunkInOrder'
    BY DEF TypeOK, UpState, Translator, Client, BlocksAgree, UpstreamNumbered,
       ChunkInOrder, NewTool, ToolCalls, Opens
  <2>5. ContentAgrees'
    BY DEF TypeOK, UpState, Client, BlocksAgree, ChunkInOrder, UpstreamNumbered,
       ContentAgrees, NewTool, ToolCalls, Call,
           CallOfChunk, Piece, Substance, Opens
  <2>6. ReasonAgrees'
    BY DEF TypeOK, UpState, Translator, Client, UpstreamReasons, AnthropicReasons,
       FinishReasons, ReasonAgrees
  <2>7. LateAgrees' /\ CallsAgree'
    BY DEF TypeOK, UpState, Client, LateAgrees, CallsAgree, NewTool
  <2> QED
    BY <2>1, <2>2, <2>3, <2>4, <2>5, <2>6, <2>7
<1> QED
  BY <1>1, <1>2, <1>3, <1>4, <1>5, <1>6, <1>7, <1>8, <1>9, <1>10 DEF TranslatorStep

\* Whatever the upstream sends, the two translators agree on which block is which: a tool
\* call's continuation addresses its own block, which is the open one unless it is late.
THEOREM InvariantHolds == Spec => []IInv
<1>1. IInv /\ UNCHANGED vars => IInv'
  <2> SUFFICES ASSUME IInv, UNCHANGED vars PROVE IInv'
    OBVIOUS
  <2>1. UNCHANGED <<source, up, toolIndex, nextTool, chunk, tr, blockOf, pc, client, sent>>
    BY DEF vars
  <2>2. ToolCalls' = ToolCalls /\ (NewTool' <=> NewTool) /\ (Opens' <=> Opens)
        /\ Call' = Call /\ Piece' = Piece
    BY <2>1 DEF NewTool, ToolCalls, Opens, Call, CallOfChunk, Piece
  <2>3. TypeOK' /\ UpstreamNumbered'
    BY <2>1, <2>2 DEF IInv, TypeOK, UpstreamNumbered
  <2>4. BlocksAgree' /\ PhaseAgrees'
    BY <2>1, <2>2 DEF IInv, BlocksAgree, PhaseAgrees
  <2>5. LateAgrees' /\ CallsAgree' /\ ChunkInOrder'
    BY <2>1, <2>2 DEF IInv, LateAgrees, CallsAgree, ChunkInOrder
  <2>6. ContentAgrees' /\ ReasonAgrees'
    BY <2>1, <2>2 DEF IInv, ContentAgrees, ReasonAgrees
  <2> QED
    BY <2>3, <2>4, <2>5, <2>6 DEF IInv
<1>2. IInv /\ [Next]_vars => IInv'
  BY <1>1, UpstreamSound, TranslatorSound DEF Next
<1> QED
  BY <1>2, InitSound, PTL DEF Spec

\* For any bounds, every variable of the two translators keeps its type.
THEOREM TypeCorrect == Spec => []TypeOK
<1>1. IInv => TypeOK
  BY DEF IInv
<1> QED
  BY <1>1, InvariantHolds, PTL

\* translate_event and translate_chunk lose, reorder and misplace nothing.
THEOREM ContentIsKept == Spec => []ContentSurvives
<1>1. IInv => ContentSurvives
  <2> SUFFICES ASSUME IInv, chunk = NoChunk PROVE client.content = sent
    BY DEF ContentSurvives
  <2>1. ~NewTool /\ chunk.piece = 0
    BY DEF NewTool, NoChunk, Delta
  <2> QED
    BY <2>1 DEF IInv, ContentAgrees
<1> QED
  BY <1>1, InvariantHolds, PTL

\* finalize tells the client the upstream's reason for stopping.
THEOREM ReasonIsKept == Spec => []StopReasonSurvives
<1>1. IInv => StopReasonSurvives
  <2> SUFFICES ASSUME IInv, client.phase = "stopped" PROVE StopReasonSurvives
    BY DEF StopReasonSurvives
  <2>1. pc = "done"
    BY DEF IInv, PhaseAgrees, TypeOK
  <2>2. client.stop = StopOf(tr.finish)
    BY <2>1 DEF IInv, ReasonAgrees
  <2>3. up.reason \in UpstreamReasons \cup FinishReasons \cup {"none"}
    BY DEF IInv, TypeOK, UpState
  <2> QED
    BY <2>2, <2>3 DEF IInv, ReasonAgrees, StopReasonSurvives, StopOf, FinishOf,
                      UpstreamReasons, AnthropicReasons, FinishReasons
<1> QED
  BY <1>1, InvariantHolds, PTL

\* Every event the translator yields is one the Anthropic protocol allows there, except a
\* late delta, which AnthropicWire allows besides.
LEMMA EventsAllowed == IInv /\ [Next]_vars => [Wire!Next]_(Wire!wire)
<1> SUFFICES ASSUME IInv, [Next]_vars PROVE [Wire!Next]_(Wire!wire)
  OBVIOUS
<1> USE DEF Wire!wire, Wire!Next
<1>1. CASE UNCHANGED <<client, up.late>>
  BY <1>1
<1>t. TranslatorStep => up' = up
  BY DEF TranslatorStep, EmitMessageStart, EmitBlockStop, EmitBlockStart, EmitDelta,
     EmitNothing, FinalMessageStart, FinalBlockStop, FinalEmptyBlock, FinalMessageDelta,
     FinalMessageStop
<1>2. CASE EmitMessageStart \/ FinalMessageStart
  <2>1. client.phase = "none" /\ client' = [client EXCEPT !.phase = "started"] /\ up' = up
    BY <1>2 DEF EmitMessageStart, FinalMessageStart, Translating, IInv, PhaseAgrees
  <2> QED
    BY <2>1 DEF Wire!MessageStart, IInv, TypeOK, Client
<1>3. CASE EmitBlockStop \/ FinalBlockStop
  <2>1. client.phase = "started" /\ client.open = {tr.current}
    BY <1>3 DEF EmitBlockStop, FinalBlockStop, Translating, IInv, PhaseAgrees, BlocksAgree
  <2>2. client' = [client EXCEPT !.open = {}] /\ up' = up
    BY <1>3, <2>1 DEF EmitBlockStop, FinalBlockStop, SeesBlockStop
  <2> QED
    BY <2>1, <2>2 DEF Wire!BlockStop, IInv, TypeOK, Client
<1>4. CASE EmitBlockStart \/ FinalEmptyBlock
  <2>1. client.phase = "started" /\ client.open = {}
    BY <1>4 DEF EmitBlockStart, FinalEmptyBlock, Translating, IInv, PhaseAgrees, BlocksAgree
  <2>2. \/ SeesBlockStart(Len(client.blocks), "text", 0)
        \/ \E id \in 1..MaxBlocks : SeesBlockStart(Len(client.blocks), "tool", id)
    <3>1. CASE EmitBlockStart
      <4>1. tr.next = Len(client.blocks) /\ SeesBlockStart(tr.next, chunk.kind, chunk.id)
        BY <3>1 DEF EmitBlockStart, IInv, BlocksAgree
      <4>2. CASE chunk.kind = "text"
        BY <4>1, <4>2 DEF IInv, ChunkInOrder
      <4>3. CASE chunk.kind = "tool"
        <5>1. chunk.id \in 1..MaxBlocks
          BY <3>1, <4>3 DEF EmitBlockStart, Opens, NewTool, IInv, ChunkInOrder,
             UpstreamNumbered,
                            TypeOK, UpState
        <5> QED
          BY <4>1, <4>3, <5>1
      <4> QED
        BY <3>1, <4>2, <4>3 DEF EmitBlockStart, Opens
    <3>2. CASE FinalEmptyBlock
      BY <3>2 DEF FinalEmptyBlock, IInv, BlocksAgree
    <3> QED
      BY <1>4, <3>1, <3>2
  <2>up. up' = up
    BY <1>4, <1>t DEF TranslatorStep
  <2>3. CASE SeesBlockStart(Len(client.blocks), "text", 0)
    BY <2>1, <2>3, <2>up DEF SeesBlockStart, Wire!BlockStart, IInv, TypeOK, Client
  <2>4. ASSUME NEW id \in 1..MaxBlocks, SeesBlockStart(Len(client.blocks), "tool", id)
        PROVE  Wire!BlockStart
    BY <2>1, <2>4, <2>up DEF SeesBlockStart, Substance, Wire!BlockStart, IInv, TypeOK, Client
  <2> QED
    BY <2>2, <2>3, <2>4
<1>5. CASE EmitDelta
  <2> DEFINE place == BlockOfChunk + 1
             block == client.blocks[place]
  <2> USE <1>5
      DEF EmitDelta, Translating, IInv, NoChunk, EmptyChunk, Delta, NoBlock
  <2>1. /\ chunk.kind \in {"text", "tool"} /\ chunk.piece \in 1..MaxDeltas
        /\ client.phase = "started" /\ pc = "translate" /\ up' = up
        /\ chunk.kind = "tool" => chunk.index \in DOMAIN blockOf
    BY DEF TypeOK, ChunkInOrder, Opens, PhaseAgrees
  <2>2. /\ client.blocks \in Seq([kind : {"text", "tool"}, id : 0..MaxBlocks])
        /\ DOMAIN client.blocks = 1..Len(client.blocks) /\ Len(client.blocks) \in Nat
    BY DEF TypeOK, Client
  <2>3. place \in 1..Len(client.blocks)
        /\ (client.open = {place - 1} \/ (chunk.piece \in up.late /\ block.kind = "tool"))
    <3>1. CASE chunk.kind = "tool" /\ chunk.piece \in up.late
      <4>1. source = "openai" /\ place = blockOf[chunk.index] + 1
            /\ chunk.index \in DOMAIN blockOf
        BY <3>1, <2>1, MessagesStreamAssumption
           DEF MessagesStreamAssumption, LateAgrees, TypeOK, BlockOfChunk
      <4>2. /\ blockOf[chunk.index] + 1 \in 1..Len(client.blocks)
            /\ client.blocks[blockOf[chunk.index] + 1]
                 = [kind |-> "tool", id |-> chunk.index + 1]
        BY <4>1 DEF CallsAgree
      <4> QED
        BY <3>1, <4>1, <4>2
    <3>2. CASE ~(chunk.kind = "tool" /\ chunk.piece \in up.late)
      <4>1. BlockOfChunk = tr.current /\ tr.current # NoBlock
        <5>1. CASE chunk.kind = "text"
          BY <5>1, <2>1 DEF Opens, BlockOfChunk, BlocksAgree
        <5>2. CASE chunk.kind = "tool" /\ chunk.piece \notin up.late
          BY <5>2, <2>1 DEF NewTool, ChunkInOrder, BlockOfChunk
        <5> QED
          BY <3>2, <2>1, <5>1, <5>2
      <4>2. /\ tr.current = Len(client.blocks) - 1 /\ Len(client.blocks) > 0
            /\ client.open = {tr.current}
        BY <4>1 DEF BlocksAgree
      <4> HIDE DEF EmitDelta, IInv
      <4> QED
        BY <4>1, <4>2, <2>2
    <3> QED
      BY <3>1, <3>2
  <2>4. client' = [client EXCEPT
          !.content = Append(@, [kind |-> block.kind, id |-> block.id,
                                 piece |-> chunk.piece])]
    <3>1. SeesDelta(BlockOfChunk, chunk.piece) /\ place \in DOMAIN client.blocks
      BY <2>2, <2>3
    <3> HIDE DEF EmitDelta, IInv
    <3> QED
      BY <3>1 DEF SeesDelta, Substance
  <2>5. Wire!BlockDelta
    <3>1. client \in Client
      BY DEF TypeOK
    <3> HIDE DEF EmitDelta, IInv
    <3> QED
      BY <2>1, <2>3, <2>4, <3>1 DEF Wire!BlockDelta, Client
  <2> QED
    BY <2>5
<1>6. CASE FinalMessageDelta
  <2>1. client.phase = "started" /\ client.open = {} /\ client.blocks # <<>>
    BY <1>6 DEF FinalMessageDelta, IInv, PhaseAgrees, BlocksAgree
  <2>2. StopOf(tr.finish) \in AnthropicReasons
    BY DEF StopOf, AnthropicReasons
  <2> QED
    BY <1>6, <2>1, <2>2 DEF FinalMessageDelta, Wire!MessageDelta, IInv, TypeOK, Client
<1>7. CASE FinalMessageStop
  BY <1>7 DEF FinalMessageStop, Wire!MessageStop, IInv, PhaseAgrees, TypeOK, Client
<1>8. CASE UpstreamStep \/ EmitNothing \/ UNCHANGED vars
  <2>1. UNCHANGED client
    BY <1>8 DEF UpstreamStep, EmitNothing, vars, MessageStart, BlockStart, ToolStart,
       OtherStart,
                BlockDelta, BlockStop, MessageDelta, Finishes, ChunkOfText, ChunkOfNewTool,
                ChunkOfArguments, ChunkOfRole, ChunkOfFinish, StreamEnds, StreamBreaks
  <2>2. CASE \E index \in 0..MaxBlocks : ChunkOfArguments(index)
    <3>1. /\ up' = [up EXCEPT !.deltas = @ + 1, !.late = up'.late]
          /\ up'.late = up.late \/ up'.late = up.late \cup {up.deltas + 1}
          /\ up.deltas < MaxDeltas
      BY <2>2 DEF ChunkOfArguments, IInv, TypeOK, UpState
    <3>2. up.deltas + 1 \in 1..MaxDeltas
      BY <3>1, Bounds DEF IInv
    <3> QED
      BY <1>1, <2>1, <3>1, <3>2 DEF Wire!Delay
  <2>3. CASE ~\E index \in 0..MaxBlocks : ChunkOfArguments(index)
    <3>1. up'.late = up.late
      BY <1>8, <2>3 DEF UpstreamStep, EmitNothing, vars, MessageStart, BlockStart,
         ToolStart, OtherStart, BlockDelta, BlockStop, MessageDelta, Finishes, ChunkOfText,
         ChunkOfNewTool, ChunkOfRole, ChunkOfFinish, StreamEnds, StreamBreaks, IInv,
         TypeOK, UpState
    <3> QED
      BY <1>1, <2>1, <3>1
  <2> QED
    BY <2>2, <2>3
<1> QED
  BY <1>2, <1>3, <1>4, <1>5, <1>6, <1>7, <1>8 DEF Next, TranslatorStep

\* translate_chunk and finalize keep the order of events that the Anthropic protocol asks
\* for wherever the stream ends, whatever an OpenAI upstream sends and an Anthropic one
\* sends in its protocol's order, late arguments excepted: no block starts while another is
\* open, and only a late piece of arguments may be for a block that is not open.
THEOREM MessageIsAnthropicWire == Spec => ImplementsAnthropicWire
<1>1. Init => Wire!Init
  BY DEF Init, Wire!Init
<1> QED
  BY <1>1, EventsAllowed, InvariantHolds, PTL DEF Spec, ImplementsAnthropicWire, Wire!Spec

-----------------------------------------------------------------------------
(* What a conversation is made of *)

Kinds == {"text", "image", "call", "result"}
Blocks == [kind : Kinds, pieces : Seq(Nat)]
Messages == [role : {"system", "user", "assistant"}, blocks : Seq(Blocks)]
OpenAIMessages ==
    [role : {"system", "user", "assistant", "tool"}, texts : Seq(Nat), calls : Seq(Nat)]

OfKind(kind) == [block \in Blocks |-> IF block.kind = kind THEN block.pieces ELSE <<>>]

-----------------------------------------------------------------------------
(* Blocks *)

\* What a block holds of a kind is a sequence.
LEMMA OfKindType ==
  ASSUME NEW kind
  PROVE  OfKind(kind) \in [Blocks -> Seq(Nat)]
<1>1. \A block \in Blocks : block.pieces \in Seq(Nat) /\ <<>> \in Seq(Nat)
  BY EmptySeq DEF Blocks
<1> QED BY <1>1 DEF OfKind

\* Holding, as what becomes of the blocks.
LEMMA HoldingThrough ==
  ASSUME NEW kind, NEW blocks \in Seq(Blocks)
  PROVE  Holding(blocks, kind) = Through(OfKind(kind), blocks)
<1>1. \A i \in DOMAIN blocks : blocks[i] \in Blocks OBVIOUS
<1>2. \A i \in DOMAIN blocks :
        (IF blocks[i].kind = kind THEN blocks[i].pieces ELSE <<>>) = OfKind(kind)[blocks[i]]
  BY <1>1 DEF OfKind
<1>3. [i \in DOMAIN blocks |-> IF blocks[i].kind = kind THEN blocks[i].pieces ELSE <<>>]
        = [i \in DOMAIN blocks |-> OfKind(kind)[blocks[i]]]
  BY <1>2
<1> QED BY <1>3 DEF Holding, Through

\* What Holding is of no block, of one, of two sequences of blocks, and of other kinds only.
LEMMA HoldingOf ==
  ASSUME NEW kind
  PROVE  /\ Holding(<<>>, kind) = <<>>
         /\ \A blocks \in Seq(Blocks) : Holding(blocks, kind) \in Seq(Nat)
         /\ \A blocks \in Seq(Blocks), more \in Seq(Blocks) :
              Holding(blocks \o more, kind) = Holding(blocks, kind) \o Holding(more, kind)
         /\ \A block \in Blocks :
              /\ block.kind = kind => Holding(<<block>>, kind) = block.pieces
              /\ block.kind # kind => Holding(<<block>>, kind) = <<>>
         /\ \A blocks \in Seq(Blocks) :
              (\A i \in 1..Len(blocks) : blocks[i].kind # kind) => Holding(blocks, kind) = <<>>
<1>1. PICK F \in [Blocks -> Seq(Nat)] : F = OfKind(kind) BY OfKindType
<1>2. \A blocks \in Seq(Blocks) : Holding(blocks, kind) = Through(F, blocks)
  BY <1>1, HoldingThrough
<1>3. \A block \in Blocks : /\ block.kind = kind => F[block] = block.pieces
                            /\ block.kind # kind => F[block] = <<>>
  BY <1>1 DEF OfKind
<1>4. Holding(<<>>, kind) = <<>> BY <1>2, ThroughNone, EmptySeq
<1>5. \A blocks \in Seq(Blocks) : Holding(blocks, kind) \in Seq(Nat) BY <1>2, ThroughType
<1>6. ASSUME NEW blocks \in Seq(Blocks), NEW more \in Seq(Blocks)
      PROVE  Holding(blocks \o more, kind) = Holding(blocks, kind) \o Holding(more, kind)
  <2>1. blocks \o more \in Seq(Blocks) BY ConcatProperties
  <2>2. Through(F, blocks \o more) = Through(F, blocks) \o Through(F, more) BY ThroughBoth
  <2> QED BY <2>1, <2>2, <1>2
<1>7. ASSUME NEW block \in Blocks
      PROVE  /\ block.kind = kind => Holding(<<block>>, kind) = block.pieces
             /\ block.kind # kind => Holding(<<block>>, kind) = <<>>
  <2>1. <<block>> \in Seq(Blocks) OBVIOUS
  <2>2. Through(F, <<block>>) = F[block] BY ThroughOne
  <2> QED BY <2>1, <2>2, <1>2, <1>3
<1>8. ASSUME NEW blocks \in Seq(Blocks), \A i \in 1..Len(blocks) : blocks[i].kind # kind
      PROVE  Holding(blocks, kind) = <<>>
  <2>1. \A i \in 1..Len(blocks) : blocks[i] \in Blocks OBVIOUS
  <2>2. \A i \in 1..Len(blocks) : F[blocks[i]] = <<>> BY <1>3, <1>8, <2>1
  <2>3. Through(F, blocks) = <<>> BY <2>2, ThroughNothing
  <2> QED BY <2>3, <1>2
<1> QED BY <1>4, <1>5, <1>6, <1>7, <1>8

\* A block of a kind for each piece.
Each(kind, pieces) == [i \in DOMAIN pieces |-> Block(kind, <<pieces[i]>>)]

\* A block for each piece: as many, and one more for one more.
LEMMA EachOf ==
  ASSUME NEW kind \in Kinds
  PROVE  /\ Each(kind, <<>>) = <<>>
         /\ \A pieces \in Seq(Nat) : Each(kind, pieces) \in Seq(Blocks)
         /\ \A pieces \in Seq(Nat) : Len(Each(kind, pieces)) = Len(pieces)
         /\ \A pieces \in Seq(Nat), x \in Nat :
              Each(kind, pieces \o <<x>>) = Each(kind, pieces) \o <<Block(kind, <<x>>)>>
<1> DEFINE F == [x \in Nat |-> Block(kind, <<x>>)]
<1>1. F \in [Nat -> Blocks] BY DEF Block, Blocks
<1>2. \A pieces \in Seq(Nat) : Each(kind, pieces) = [i \in DOMAIN pieces |-> F[pieces[i]]]
  <2> SUFFICES ASSUME NEW pieces \in Seq(Nat)
               PROVE  Each(kind, pieces) = [i \in DOMAIN pieces |-> F[pieces[i]]]
    OBVIOUS
  <2>1. \A i \in DOMAIN pieces : F[pieces[i]] = Block(kind, <<pieces[i]>>) OBVIOUS
  <2> QED BY <2>1 DEF Each
<1>3. \A x \in Nat : F[x] = Block(kind, <<x>>) OBVIOUS
<1>4. Each(kind, <<>>) = <<>> BY DEF Each
<1> HIDE DEF F
<1>5. ASSUME NEW pieces \in Seq(Nat)
      PROVE  Each(kind, pieces) \in Seq(Blocks) /\ Len(Each(kind, pieces)) = Len(pieces)
  <2>1. /\ [i \in DOMAIN pieces |-> F[pieces[i]]] \in Seq(Blocks)
        /\ Len([i \in DOMAIN pieces |-> F[pieces[i]]]) = Len(pieces)
    BY <1>1, Mapped
  <2> QED BY <1>2, <2>1
<1>6. ASSUME NEW pieces \in Seq(Nat), NEW x \in Nat
      PROVE  Each(kind, pieces \o <<x>>) = Each(kind, pieces) \o <<Block(kind, <<x>>)>>
  <2>1. [i \in DOMAIN (pieces \o <<x>>) |-> F[(pieces \o <<x>>)[i]]]
          = [i \in DOMAIN pieces |-> F[pieces[i]]] \o <<F[x]>>
    BY <1>1, MappedMore, SMTT(30)
  <2>2. pieces \o <<x>> \in Seq(Nat) BY Extended
  <2> QED BY <1>2, <1>3, <2>1, <2>2
<1> QED BY <1>4, <1>5, <1>6

\* Blocks made for pieces hold the pieces, and nothing of another kind.
LEMMA EachHolds ==
  ASSUME NEW kind \in Kinds, NEW other \in Kinds, other # kind
  PROVE  \A pieces \in Seq(Nat) : /\ Holding(Each(kind, pieces), kind) = pieces
                                  /\ Holding(Each(kind, pieces), other) = <<>>
<1> DEFINE S == {pieces \in Seq(Nat) : /\ Holding(Each(kind, pieces), kind) = pieces
                                       /\ Holding(Each(kind, pieces), other) = <<>>}
<1>1. <<>> \in S BY EachOf, HoldingOf, EmptySeq
<1>2. ASSUME NEW pieces \in Seq(Nat), NEW x \in Nat, pieces \in S PROVE pieces \o <<x>> \in S
  <2>1. Block(kind, <<x>>) \in Blocks /\ Block(kind, <<x>>).kind = kind
        /\ Block(kind, <<x>>).pieces = <<x>>
    BY DEF Block, Blocks
  <2>2. <<Block(kind, <<x>>)>> \in Seq(Blocks) BY <2>1
  <2>3. Each(kind, pieces) \in Seq(Blocks) BY EachOf
  <2>4. Each(kind, pieces \o <<x>>) = Each(kind, pieces) \o <<Block(kind, <<x>>)>> BY EachOf
  <2>5. Holding(Each(kind, pieces \o <<x>>), kind) = pieces \o <<x>>
    <3>1. Holding(<<Block(kind, <<x>>)>>, kind) = <<x>> BY <2>1, HoldingOf
    <3>2. Holding(Each(kind, pieces) \o <<Block(kind, <<x>>)>>, kind)
            = Holding(Each(kind, pieces), kind) \o Holding(<<Block(kind, <<x>>)>>, kind)
      BY <2>2, <2>3, HoldingOf
    <3> QED BY <3>1, <3>2, <2>4, <1>2
  <2>6. Holding(Each(kind, pieces \o <<x>>), other) = <<>>
    <3>1. Holding(<<Block(kind, <<x>>)>>, other) = <<>> BY <2>1, HoldingOf
    <3>2. Holding(Each(kind, pieces) \o <<Block(kind, <<x>>)>>, other)
            = Holding(Each(kind, pieces), other) \o Holding(<<Block(kind, <<x>>)>>, other)
      BY <2>2, <2>3, HoldingOf
    <3>3. <<>> \o <<>> = <<>> OBVIOUS
    <3> QED BY <3>1, <3>2, <3>3, <2>4, <1>2
  <2> QED BY <2>5, <2>6, Extended
<1>3. \A pieces \in Seq(Nat) : pieces \in S
  <2> HIDE DEF S
  <2> QED BY <1>1, <1>2, SeqInduction
<1> QED BY <1>3

\* A text's block holds the text only.
LEMMA TextBlockHolds ==
  ASSUME NEW texts \in Seq(Nat)
  PROVE  /\ TextBlock(texts) \in Seq(Blocks)
         /\ Holding(TextBlock(texts), "text") = texts
         /\ Holding(TextBlock(texts), "call") = <<>>
         /\ Holding(TextBlock(texts), "result") = <<>>
<1>1. CASE texts = <<>> BY <1>1, HoldingOf, EmptySeq DEF TextBlock
<1>2. CASE texts # <<>>
  <2>1. /\ Block("text", texts) \in Blocks /\ Block("text", texts).kind = "text"
        /\ Block("text", texts).pieces = texts
    BY DEF Block, Blocks, Kinds
  <2>2. TextBlock(texts) = <<Block("text", texts)>> BY <1>2 DEF TextBlock
  <2>3. <<Block("text", texts)>> \in Seq(Blocks) BY <2>1
  <2> QED BY <2>1, <2>2, <2>3, HoldingOf
<1> QED BY <1>1, <1>2

\* What the blocks of an assistant's message hold is what they were made of.
LEMMA AssistantBlocksHold ==
  ASSUME NEW texts \in Seq(Nat), NEW calls \in Seq(Nat)
  PROVE  /\ AssistantBlocks(texts, calls) \in Seq(Blocks)
         /\ Holding(AssistantBlocks(texts, calls), "text") = texts
         /\ Holding(AssistantBlocks(texts, calls), "call") = calls
         /\ Holding(AssistantBlocks(texts, calls), "result") = <<>>
<1> DEFINE blocks == TextBlock(texts) \o CallBlocks(calls)
<1>1. CallBlocks(calls) = Each("call", calls) BY DEF CallBlocks, Each
<1>2. /\ CallBlocks(calls) \in Seq(Blocks)
      /\ Holding(CallBlocks(calls), "text") = <<>>
      /\ Holding(CallBlocks(calls), "call") = calls
      /\ Holding(CallBlocks(calls), "result") = <<>>
  BY <1>1, EachOf, EachHolds DEF Kinds
<1>3. /\ TextBlock(texts) \in Seq(Blocks)
      /\ Holding(TextBlock(texts), "text") = texts
      /\ Holding(TextBlock(texts), "call") = <<>>
      /\ Holding(TextBlock(texts), "result") = <<>>
  BY TextBlockHolds
<1>4. texts \o <<>> = texts /\ <<>> \o calls = calls /\ <<>> \o <<>> = <<>> BY ConcatEmptySeq
<1>5. blocks \in Seq(Blocks) BY <1>2, <1>3, ConcatProperties
<1>6. \A kind : Holding(blocks, kind)
                  = Holding(TextBlock(texts), kind) \o Holding(CallBlocks(calls), kind)
  BY <1>2, <1>3, HoldingOf
<1>7. /\ Holding(blocks, "text") = texts
      /\ Holding(blocks, "call") = calls
      /\ Holding(blocks, "result") = <<>>
  BY <1>2, <1>3, <1>4, <1>6
<1> HIDE DEF blocks
<1>8. CASE blocks = <<>>
  <2>1. texts = <<>> /\ calls = <<>> BY <1>7, <1>8, HoldingOf
  <2>2. AssistantBlocks(texts, calls) = <<Block("text", <<>>)>>
    BY <1>8 DEF AssistantBlocks, blocks
  <2>3. /\ Block("text", <<>>) \in Blocks /\ Block("text", <<>>).kind = "text"
        /\ Block("text", <<>>).pieces = <<>>
    BY EmptySeq DEF Block, Blocks, Kinds
  <2>4. <<Block("text", <<>>)>> \in Seq(Blocks) BY <2>3
  <2>5. /\ Holding(<<Block("text", <<>>)>>, "text") = <<>>
        /\ Holding(<<Block("text", <<>>)>>, "call") = <<>>
        /\ Holding(<<Block("text", <<>>)>>, "result") = <<>>
    BY <2>3, HoldingOf
  <2> QED BY <2>1, <2>2, <2>4, <2>5
<1>9. CASE blocks # <<>>
  <2>1. AssistantBlocks(texts, calls) = blocks BY <1>9 DEF AssistantBlocks, blocks
  <2> QED BY <2>1, <1>5, <1>7
<1> QED BY <1>8, <1>9

-----------------------------------------------------------------------------
(* from_anthropic_request *)

FromMessages == [message \in Messages |-> FromMessage(message)]
SystemsIn == [message \in Messages |-> SystemIn(message)]

\* There is a tool message for each result.
LEMMA ToolMessagesOf ==
  ASSUME NEW results \in Seq(Nat)
  PROVE  /\ ToolMessages(results) \in Seq(OpenAIMessages)
         /\ Len(ToolMessages(results)) = Len(results)
         /\ \A i \in 1..Len(results) :
              /\ ToolMessages(results)[i].role = "tool"
              /\ ToolMessages(results)[i].texts = <<>>
              /\ ToolMessages(results)[i].calls = <<results[i]>>
<1>1. \A i \in 1..Len(results) : OpenAI("tool", <<>>, <<results[i]>>) \in OpenAIMessages
  BY EmptySeq DEF OpenAI, OpenAIMessages
<1>2. DOMAIN results = 1..Len(results) /\ Len(results) \in Nat OBVIOUS
<1>3. ToolMessages(results)
        = [i \in 1..Len(results) |-> OpenAI("tool", <<>>, <<results[i]>>)]
  BY <1>2 DEF ToolMessages
<1>4. \A i \in 1..Len(results) :
        ToolMessages(results)[i] = OpenAI("tool", <<>>, <<results[i]>>)
  BY <1>3
<1>5. ToolMessages(results) \in Seq(OpenAIMessages) /\ Len(ToolMessages(results)) = Len(results)
  BY <1>1, <1>2, <1>3
<1>6. \A i \in 1..Len(results) :
        LET message == OpenAI("tool", <<>>, <<results[i]>>)
        IN  message.role = "tool" /\ message.texts = <<>> /\ message.calls = <<results[i]>>
  BY DEF OpenAI
<1> QED BY <1>4, <1>5, <1>6

\* A user's message becomes tool messages, then at most one of the user.
LEMMA FromUserOf ==
  ASSUME NEW message \in Messages
  PROVE  \E rest \in Seq(OpenAIMessages) :
           /\ FromUser(message) = ToolMessages(Holding(message.blocks, "result")) \o rest
           /\ Holding(message.blocks, "text") = <<>> => rest = <<>>
           /\ Holding(message.blocks, "text") # <<>> =>
                rest = <<OpenAI("user", Holding(message.blocks, "text"), <<>>)>>
           /\ \A i \in 1..Len(rest) : rest[i].role = "user"
<1> DEFINE texts == Holding(message.blocks, "text")
           rest == IF texts = <<>> THEN <<>> ELSE <<OpenAI("user", texts, <<>>)>>
<1>1. message.blocks \in Seq(Blocks) BY DEF Messages
<1>2. texts \in Seq(Nat) BY <1>1, HoldingOf
<1>3. OpenAI("user", texts, <<>>) \in OpenAIMessages /\ OpenAI("user", texts, <<>>).role = "user"
  BY <1>2, EmptySeq DEF OpenAI, OpenAIMessages
<1>4. FromUser(message) = ToolMessages(Holding(message.blocks, "result")) \o rest
  BY DEF FromUser
<1> HIDE DEF texts
<1>5. rest \in Seq(OpenAIMessages) /\ \A i \in 1..Len(rest) : rest[i].role = "user"
  <2>1. CASE texts = <<>> BY <2>1, EmptySeq
  <2>2. CASE texts # <<>>
    <3>1. rest = <<OpenAI("user", texts, <<>>)>> BY <2>2
    <3> HIDE DEF rest
    <3>2. rest \in Seq(OpenAIMessages) /\ Len(rest) = 1 /\ rest[1] = OpenAI("user", texts, <<>>)
      BY <1>3, <3>1
    <3> QED BY <3>2, <1>3
  <2> QED BY <2>1, <2>2
<1>6. /\ texts = <<>> => rest = <<>>
      /\ texts # <<>> => rest = <<OpenAI("user", texts, <<>>)>>
  OBVIOUS
<1> HIDE DEF rest
<1> QED BY <1>4, <1>5, <1>6 DEF texts

\* What each role's message becomes.
LEMMA FromMessageOf ==
  ASSUME NEW message \in Messages
  PROVE  /\ FromMessage(message) \in Seq(OpenAIMessages)
         /\ FromMessages[message] = FromMessage(message)
         /\ message.role = "system" => FromMessage(message) = <<>>
         /\ message.role = "user" => FromMessage(message) = FromUser(message)
         /\ message.role = "assistant" =>
              FromMessage(message) = <<OpenAI("assistant", Holding(message.blocks, "text"),
                                              Holding(message.blocks, "call"))>>
<1>1. FromMessages[message] = FromMessage(message) BY DEF FromMessages
<1>2. message.role \in {"system", "user", "assistant"} /\ message.blocks \in Seq(Blocks)
  BY DEF Messages
<1>3. CASE message.role = "system" BY <1>1, <1>3, EmptySeq DEF FromMessage
<1>4. CASE message.role = "user"
  <2>1. FromMessage(message) = FromUser(message) BY <1>4 DEF FromMessage
  <2>2. PICK rest \in Seq(OpenAIMessages) :
             FromUser(message) = ToolMessages(Holding(message.blocks, "result")) \o rest
    BY FromUserOf
  <2>3. Holding(message.blocks, "result") \in Seq(Nat) BY <1>2, HoldingOf
  <2>4. ToolMessages(Holding(message.blocks, "result")) \in Seq(OpenAIMessages)
    BY <2>3, ToolMessagesOf
  <2>5. FromUser(message) \in Seq(OpenAIMessages) BY <2>2, <2>4, ConcatProperties
  <2> QED BY <1>1, <1>4, <2>1, <2>5
<1>5. CASE message.role = "assistant"
  <2>1. FromMessage(message) = <<OpenAI("assistant", Holding(message.blocks, "text"),
                                        Holding(message.blocks, "call"))>>
    BY <1>5 DEF FromMessage, FromAssistant
  <2>2. Holding(message.blocks, "text") \in Seq(Nat)
            /\ Holding(message.blocks, "call") \in Seq(Nat)
    BY <1>2, HoldingOf
  <2>3. OpenAI("assistant", Holding(message.blocks, "text"), Holding(message.blocks, "call"))
          \in OpenAIMessages
    BY <2>2 DEF OpenAI, OpenAIMessages
  <2> QED BY <1>1, <1>5, <2>1, <2>3
<1> QED BY <1>2, <1>3, <1>4, <1>5

\* A message's system texts are a sequence.
LEMMA SystemInOf ==
  ASSUME NEW message \in Messages
  PROVE  /\ SystemIn(message) \in Seq(Nat)
         /\ SystemsIn[message] = SystemIn(message)
<1>1. message.blocks \in Seq(Blocks) BY DEF Messages
<1>2. Holding(message.blocks, "text") \in Seq(Nat) BY <1>1, HoldingOf
<1> QED BY <1>2, EmptySeq DEF SystemsIn, SystemIn

\* The types of what messages become.
LEMMA FromTypes ==
  /\ FromMessages \in [Messages -> Seq(OpenAIMessages)]
  /\ SystemsIn \in [Messages -> Seq(Nat)]
<1>1. \A message \in Messages : FromMessage(message) \in Seq(OpenAIMessages) BY FromMessageOf
<1>2. \A message \in Messages : SystemIn(message) \in Seq(Nat) BY SystemInOf
<1> QED BY <1>1, <1>2 DEF FromMessages, SystemsIn

\* The request's system message, if there is any.
Preamble(system) == IF system = <<>> THEN <<>> ELSE <<OpenAI("system", system, <<>>)>>

\* from_anthropic_request: a preamble, then what the messages become.
LEMMA FromAnthropicOf ==
  ASSUME NEW messages \in Seq(Messages)
  PROVE  FromAnthropic(messages)
           = Preamble(Through(SystemsIn, messages)) \o Through(FromMessages, messages)
<1>1. \A i \in DOMAIN messages : messages[i] \in Messages OBVIOUS
<1>2. [i \in DOMAIN messages |-> SystemIn(messages[i])]
        = [i \in DOMAIN messages |-> SystemsIn[messages[i]]]
  BY <1>1, SystemInOf
<1>3. [i \in DOMAIN messages |-> FromMessage(messages[i])]
        = [i \in DOMAIN messages |-> FromMessages[messages[i]]]
  BY <1>1, FromMessageOf
<1> QED BY <1>2, <1>3 DEF FromAnthropic, Through, Preamble

\* The preamble is at most one system message.
LEMMA PreambleOf ==
  ASSUME NEW system \in Seq(Nat)
  PROVE  /\ Preamble(system) \in Seq(OpenAIMessages)
         /\ Len(Preamble(system)) <= 1
         /\ \A i \in 1..Len(Preamble(system)) :
              /\ i = 1
              /\ Preamble(system)[i].role = "system"
              /\ Preamble(system)[i].texts = system
         /\ system = <<>> => Preamble(system) = <<>>
         /\ system # <<>> => Preamble(system) = <<OpenAI("system", system, <<>>)>>
<1>1. CASE system = <<>> BY <1>1, EmptySeq DEF Preamble
<1>2. CASE system # <<>>
  <2>1. Preamble(system) = <<OpenAI("system", system, <<>>)>> BY <1>2 DEF Preamble
  <2>2. /\ OpenAI("system", system, <<>>) \in OpenAIMessages
        /\ OpenAI("system", system, <<>>).role = "system"
        /\ OpenAI("system", system, <<>>).texts = system
    BY EmptySeq DEF OpenAI, OpenAIMessages
  <2> QED BY <1>2, <2>1, <2>2
<1> QED BY <1>1, <1>2

\* The message before the i-th, a system message left aside; 0 if there is none.
Before(messages, i) ==
    IF i > 1 /\ messages[i - 1].role = "system" THEN i - 2 ELSE i - 1

\* A system message follows an answer; a user's answers all calls of the answer before it.
InPlace(messages, i) ==
    /\ messages[i].role = "system" =>
         /\ i = 1 \/ messages[i - 1].role = "assistant"
         /\ \E x \in Nat : messages[i].blocks = <<Block("text", <<x>>)>>
    /\ messages[i].role = "assistant" => i > 1 /\ messages[i - 1].role = "user"
    /\ messages[i].role = "user" /\ Before(messages, i) = 0 =>
         Holding(messages[i].blocks, "result") = <<>>
    /\ messages[i].role = "user" /\ Before(messages, i) # 0 =>
         LET results == Holding(messages[i].blocks, "result")
             calls == Holding(messages[Before(messages, i)].blocks, "call")
         IN  /\ messages[Before(messages, i)].role = "assistant"
             /\ ToSet(results) = ToSet(calls) /\ Len(results) = Len(calls)

\* A dialogue as a client leads it: turns alternate, and all calls of an answer are answered.
Alternates(messages) == \A i \in 1..Len(messages) : InPlace(messages, i)

\* A message stays in its place when another one follows.
LEMMA InPlaceKept ==
  ASSUME NEW messages \in Seq(Messages), NEW message \in Messages, NEW i \in 1..Len(messages)
  PROVE  InPlace(messages \o <<message>>, i) <=> InPlace(messages, i)
<1> DEFINE more == messages \o <<message>>
<1>1. \A j \in 1..Len(messages) : more[j] = messages[j] BY Extended
<1>2. i = 1 \/ i - 1 \in 1..Len(messages) OBVIOUS
<1>3. Before(more, i) = Before(messages, i)
  <2> HIDE DEF more
  <2> QED BY <1>1, <1>2 DEF Before
<1>4. Before(messages, i) = 0 \/ Before(messages, i) \in 1..Len(messages) BY DEF Before
<1> HIDE DEF more
<1>5. more[i] = messages[i] BY <1>1
<1>6. i # 1 => more[i - 1] = messages[i - 1] BY <1>1, <1>2
<1>7. Before(messages, i) # 0 => more[Before(messages, i)] = messages[Before(messages, i)]
  BY <1>1, <1>4
<1>8. InPlace(more, i) <=> InPlace(messages, i)
  BY <1>3, <1>5, <1>6, <1>7 DEF InPlace
<1> QED BY <1>8 DEF more

\* A dialogue goes on alternating if the message added is in its place.
LEMMA AlternatesMore ==
  ASSUME NEW messages \in Seq(Messages), NEW message \in Messages
  PROVE  Alternates(messages \o <<message>>)
           <=> Alternates(messages) /\ InPlace(messages \o <<message>>, Len(messages) + 1)
<1>1. Len(messages \o <<message>>) = Len(messages) + 1 BY Extended
<1>2. Len(messages) \in Nat OBVIOUS
<1>3. 1..(Len(messages) + 1) = 1..Len(messages) \union {Len(messages) + 1} BY <1>2
<1>4. \A i \in 1..Len(messages) : InPlace(messages \o <<message>>, i) <=> InPlace(messages, i)
  BY InPlaceKept
<1> QED BY <1>1, <1>3, <1>4 DEF Alternates

-----------------------------------------------------------------------------
(* The order strict upstreams demand *)

\* The calls of the i-th message are answered by the messages right after it.
AnsweredAt(messages, i) ==
    /\ i + Len(messages[i].calls) <= Len(messages)
    /\ \A k \in 1..Len(messages[i].calls) : messages[i + k].role = "tool"
    /\ UNION {ToSet(messages[i + k].calls) : k \in 1..Len(messages[i].calls)}
         = ToSet(messages[i].calls)

\* The calls of the assistant's message a dialogue ends with, if it does, are still open.
CallsOpen(dialogue_) ==
    LET last == Before(dialogue_, Len(dialogue_) + 1)
    IN  last > 0 /\ dialogue_[last].role = "assistant"

CallsOf(dialogue_) ==
    Holding(dialogue_[Before(dialogue_, Len(dialogue_) + 1)].blocks, "call")

\* What the translation of a dialogue is in the middle of: StrictlyOrdered but for its end.
OrderedSoFar(messages, dialogue_) ==
    /\ \A i \in 1..Len(messages) : messages[i].role = "system" => i = 1
    /\ \A i \in 1..Len(messages) : messages[i].role = "assistant" =>
         AnsweredAt(messages, i) \/ (i = Len(messages) /\ CallsOpen(dialogue_))
    /\ \A i \in 1..Len(messages) : messages[i].role = "tool" =>
         \E j \in 1..(i - 1) : /\ messages[j].role = "assistant"
                               /\ i - j <= Len(messages[j].calls)
    /\ CallsOpen(dialogue_) =>
         /\ Len(messages) > 0
         /\ messages[Len(messages)].role = "assistant"
         /\ messages[Len(messages)].calls = CallsOf(dialogue_)

\* What is ordered so far is in the order strict upstreams demand.
LEMMA OrderedIsStrict ==
  ASSUME NEW messages \in Seq(OpenAIMessages), NEW dialogue_, OrderedSoFar(messages, dialogue_)
  PROVE  StrictlyOrdered(messages)
<1>1. DOMAIN messages = 1..Len(messages) OBVIOUS
<1>2. ASSUME NEW i \in 1..Len(messages), messages[i].role = "assistant", i < Len(messages)
      PROVE  AnsweredAt(messages, i)
  BY <1>2 DEF OrderedSoFar
<1> QED BY <1>1, <1>2 DEF OrderedSoFar, StrictlyOrdered, AnsweredAt

\* Joined, for OpenAI messages.
LEMMA MessagesJoined ==
  \A messages \in Seq(OpenAIMessages), more \in Seq(OpenAIMessages) :
    /\ messages \o more \in Seq(OpenAIMessages)
    /\ Len(messages \o more) = Len(messages) + Len(more)
    /\ \A i \in 1..Len(messages) : (messages \o more)[i] = messages[i]
    /\ \A i \in 1..Len(more) : (messages \o more)[Len(messages) + i] = more[i]
  BY Joined

\* Calls stay answered when messages follow.
LEMMA AnsweredKept ==
  ASSUME NEW messages \in Seq(OpenAIMessages), NEW more \in Seq(OpenAIMessages),
         NEW i \in 1..Len(messages), AnsweredAt(messages, i)
  PROVE  AnsweredAt(messages \o more, i)
<1> DEFINE both == messages \o more
<1>1. /\ Len(both) = Len(messages) + Len(more)
      /\ \A j \in 1..Len(messages) : both[j] = messages[j]
  BY Joined
<1> HIDE DEF both
<1>2. both[i] = messages[i] BY <1>1
<1>3. messages[i].calls \in Seq(Nat)
  <2>1. messages[i] \in OpenAIMessages OBVIOUS
  <2> QED BY <2>1 DEF OpenAIMessages
<1>4. PICK n \in Nat : n = Len(messages[i].calls) BY <1>3
<1>5. i + n <= Len(messages) BY <1>4 DEF AnsweredAt
<1>6. ASSUME NEW k \in 1..n PROVE both[i + k] = messages[i + k]
  <2>1. i + k \in 1..Len(messages) BY <1>5
  <2> QED BY <1>1, <2>1
<1>7. {ToSet(both[i + k].calls) : k \in 1..n} = {ToSet(messages[i + k].calls) : k \in 1..n}
  BY <1>6
<1>8. i + n <= Len(both) BY <1>1, <1>5
<1>9. AnsweredAt(both, i) BY <1>2, <1>4, <1>6, <1>7, <1>8 DEF AnsweredAt
<1> QED BY <1>9 DEF both

\* The elements of a sequence, one by one, are its elements.
LEMMA UnionOfOnes ==
  ASSUME NEW s \in Seq(Nat), NEW n \in Nat, n = Len(s)
  PROVE  UNION {{s[k]} : k \in 1..n} = ToSet(s)
<1>1. DOMAIN s = 1..n OBVIOUS
<1>2. ToSet(s) = {s[k] : k \in 1..n} BY <1>1 DEF ToSet
<1>3. \A x : x \in UNION {{s[k]} : k \in 1..n} <=> x \in {s[k] : k \in 1..n}
  OBVIOUS
<1> QED BY <1>2, <1>3

\* An assistant's message is answered by tool messages with a result for each call.
LEMMA AnsweredNow ==
  ASSUME NEW messages \in Seq(OpenAIMessages), Len(messages) > 0,
         NEW results \in Seq(Nat), NEW rest \in Seq(OpenAIMessages),
         Len(results) = Len(messages[Len(messages)].calls),
         ToSet(results) = ToSet(messages[Len(messages)].calls)
  PROVE  AnsweredAt(messages \o (ToolMessages(results) \o rest), Len(messages))
<1> DEFINE more == ToolMessages(results) \o rest
<1>1. PICK m \in Nat, n \in Nat : m = Len(messages) /\ n = Len(results) OBVIOUS
<1>2. /\ ToolMessages(results) \in Seq(OpenAIMessages)
      /\ Len(ToolMessages(results)) = n
      /\ \A k \in 1..n : /\ ToolMessages(results)[k].role = "tool"
                         /\ ToolMessages(results)[k].calls = <<results[k]>>
  BY <1>1, ToolMessagesOf
<1>3. /\ more \in Seq(OpenAIMessages) /\ Len(more) = n + Len(rest)
      /\ \A k \in 1..n : more[k] = ToolMessages(results)[k]
  BY <1>2, MessagesJoined
<1> HIDE DEF more
<1> DEFINE both == messages \o more
<1>12. /\ Len(both) = Len(messages) + Len(more)
       /\ \A k \in 1..Len(messages) : both[k] = messages[k]
       /\ \A k \in 1..Len(more) : both[Len(messages) + k] = more[k]
  BY <1>3, MessagesJoined
<1> HIDE DEF both
<1>4. /\ Len(both) = m + Len(more)
      /\ \A k \in 1..m : both[k] = messages[k]
      /\ \A k \in 1..Len(more) : both[m + k] = more[k]
  BY <1>1, <1>12
<1>5. \A k \in 1..n : both[m + k].role = "tool" /\ both[m + k].calls = <<results[k]>>
  <2> SUFFICES ASSUME NEW k \in 1..n
               PROVE  both[m + k].role = "tool" /\ both[m + k].calls = <<results[k]>>
    OBVIOUS
  <2>1. k \in 1..Len(more) BY <1>3
  <2> QED BY <2>1, <1>2, <1>3, <1>4
<1>6. {ToSet(both[m + k].calls) : k \in 1..n} = {{results[k]} : k \in 1..n}
  <2>1. \A k \in 1..n : ToSet(<<results[k]>>) = {results[k]} BY DEF ToSet
  <2>2. \A k \in 1..n : ToSet(both[m + k].calls) = {results[k]} BY <2>1, <1>5
  <2> QED BY <2>2
<1>7. UNION {{results[k]} : k \in 1..n} = ToSet(results) BY <1>1, UnionOfOnes
<1>8. both[m] = messages[m] BY <1>1, <1>4
<1>9. m + n <= Len(both) BY <1>3, <1>4
<1>10. Len(both[m].calls) = n /\ ToSet(both[m].calls) = ToSet(results) BY <1>1, <1>8
<1>11. AnsweredAt(both, m) BY <1>5, <1>6, <1>7, <1>9, <1>10 DEF AnsweredAt
<1> QED BY <1>1, <1>11 DEF both, more

\* The messages are still in order where they stand in others that begin with them.
StillInOrder(messages, both, dialogue_) ==
  \A i \in 1..Len(messages) :
    /\ both[i] = messages[i]
    /\ messages[i].role = "system" => i = 1
    /\ messages[i].role = "assistant" =>
         AnsweredAt(both, i) \/ (i = Len(messages) /\ CallsOpen(dialogue_))
    /\ messages[i].role = "tool" =>
         \E j \in 1..(i - 1) : /\ both[j].role = "assistant"
                               /\ i - j <= Len(both[j].calls)

\* What comes before stays in order.
LEMMA OrderKept ==
  ASSUME NEW messages \in Seq(OpenAIMessages), NEW more \in Seq(OpenAIMessages),
         NEW dialogue_, OrderedSoFar(messages, dialogue_)
  PROVE  StillInOrder(messages, messages \o more, dialogue_)
<1> SUFFICES ASSUME NEW i \in 1..Len(messages)
             PROVE  /\ (messages \o more)[i] = messages[i]
                    /\ messages[i].role = "system" => i = 1
                    /\ messages[i].role = "assistant" =>
                         AnsweredAt(messages \o more, i)
                           \/ (i = Len(messages) /\ CallsOpen(dialogue_))
                    /\ messages[i].role = "tool" =>
                         \E j \in 1..(i - 1) : /\ (messages \o more)[j].role = "assistant"
                                               /\ i - j <= Len((messages \o more)[j].calls)
  BY DEF StillInOrder
<1> DEFINE both == messages \o more
<1>1. \A j \in 1..Len(messages) : both[j] = messages[j] BY Joined
<1>2. messages[i].role = "assistant" =>
        AnsweredAt(both, i) \/ (i = Len(messages) /\ CallsOpen(dialogue_))
  <2> SUFFICES ASSUME messages[i].role = "assistant"
               PROVE  AnsweredAt(both, i) \/ (i = Len(messages) /\ CallsOpen(dialogue_))
    OBVIOUS
  <2>1. AnsweredAt(messages, i) \/ (i = Len(messages) /\ CallsOpen(dialogue_))
    BY DEF OrderedSoFar
  <2>2. AnsweredAt(messages, i) => AnsweredAt(both, i) BY AnsweredKept
  <2> QED BY <2>1, <2>2
<1>3. ASSUME messages[i].role = "tool"
      PROVE  \E j \in 1..(i - 1) : /\ both[j].role = "assistant"
                                   /\ i - j <= Len(both[j].calls)
  <2>1. PICK j \in 1..(i - 1) : /\ messages[j].role = "assistant"
                                /\ i - j <= Len(messages[j].calls)
    BY <1>3 DEF OrderedSoFar
  <2>2. j \in 1..Len(messages) OBVIOUS
  <2>3. both[j] = messages[j] BY <1>1, <2>2
  <2> QED BY <2>1, <2>3
<1>4. messages[i].role = "system" => i = 1 BY DEF OrderedSoFar
<1> HIDE DEF both
<1>5. both[i] = messages[i] BY <1>1
<1> QED BY <1>2, <1>3, <1>4, <1>5 DEF both

\* A system message's translation is nothing, and no turn.
LEMMA OrderedSystem ==
  ASSUME NEW messages \in Seq(OpenAIMessages), NEW d \in Seq(Messages),
         OrderedSoFar(messages, d), NEW message \in Messages, message.role = "system",
         InPlace(d \o <<message>>, Len(d) + 1)
  PROVE  OrderedSoFar(messages, d \o <<message>>)
<1> DEFINE more == d \o <<message>>
<1>1. /\ Len(more) = Len(d) + 1 /\ more[Len(d) + 1] = message
      /\ \A i \in 1..Len(d) : more[i] = d[i]
  BY Extended
<1> HIDE DEF more
<1>2. PICK n \in Nat : n = Len(d) OBVIOUS
<1>3. n = 0 \/ d[n].role = "assistant"
  <2>1. n + 1 = 1 \/ more[n + 1 - 1].role = "assistant"
    BY <1>1, <1>2 DEF InPlace, more
  <2>2. n + 1 - 1 = n OBVIOUS
  <2> QED BY <1>1, <1>2, <2>1, <2>2
<1>4. Before(d, n + 1) = n
  <2>1. n + 1 - 1 = n OBVIOUS
  <2> QED BY <1>3, <2>1 DEF Before
<1>5. Before(more, n + 1 + 1) = n
  <2>1. n + 1 + 1 - 1 = n + 1 /\ n + 1 + 1 > 1 /\ n + 1 + 1 - 2 = n OBVIOUS
  <2>2. more[n + 1].role = "system" BY <1>1, <1>2
  <2> QED BY <2>1, <2>2 DEF Before
<1>6. n > 0 => more[n] = d[n] BY <1>1, <1>2
<1>7. CallsOpen(more) <=> CallsOpen(d) BY <1>1, <1>2, <1>4, <1>5, <1>6 DEF CallsOpen
<1>8. CallsOpen(d) => CallsOf(more) = CallsOf(d)
  BY <1>1, <1>2, <1>4, <1>5, <1>6 DEF CallsOpen, CallsOf
<1>9. OrderedSoFar(messages, more) BY <1>7, <1>8 DEF OrderedSoFar
<1> QED BY <1>9 DEF more

\* An assistant's message opens its calls; the message before it leaves none open.
LEMMA OrderedAssistant ==
  ASSUME NEW messages \in Seq(OpenAIMessages), NEW d \in Seq(Messages),
         OrderedSoFar(messages, d), NEW message \in Messages, message.role = "assistant",
         InPlace(d \o <<message>>, Len(d) + 1),
         NEW new \in OpenAIMessages, new.role = "assistant",
         new.calls = Holding(message.blocks, "call")
  PROVE  OrderedSoFar(messages \o <<new>>, d \o <<message>>)
<1> DEFINE more == d \o <<message>>
           both == messages \o <<new>>
<1>1. /\ Len(more) = Len(d) + 1 /\ more[Len(d) + 1] = message
      /\ \A i \in 1..Len(d) : more[i] = d[i]
  BY Extended
<1>2. /\ Len(both) = Len(messages) + 1 /\ both[Len(messages) + 1] = new
      /\ \A i \in 1..Len(messages) : both[i] = messages[i]
  BY Extended
<1>3. PICK n \in Nat, m \in Nat : n = Len(d) /\ m = Len(messages) OBVIOUS
<1>4. StillInOrder(messages, both, d)
  <2>1. <<new>> \in Seq(OpenAIMessages) OBVIOUS
  <2> QED BY <2>1, OrderKept
<1>5. \A i \in 1..Len(messages) :
           /\ messages[i].role = "system" => i = 1
           /\ messages[i].role = "assistant" =>
                AnsweredAt(both, i) \/ (i = Len(messages) /\ CallsOpen(d))
           /\ messages[i].role = "tool" =>
                \E j \in 1..(i - 1) : /\ both[j].role = "assistant"
                                      /\ i - j <= Len(both[j].calls)
  BY <1>4 DEF StillInOrder
<1>6. n > 0 /\ d[n].role = "user"
  <2> HIDE DEF more
  <2>1. n + 1 > 1 /\ more[n + 1 - 1].role = "user"
    BY <1>1, <1>3 DEF InPlace, more
  <2>2. n + 1 - 1 = n OBVIOUS
  <2> QED BY <1>1, <1>3, <2>1, <2>2
<1> HIDE DEF more, both
<1>7. ~CallsOpen(d)
  <2>1. n + 1 - 1 = n OBVIOUS
  <2>2. Before(d, n + 1) = n BY <1>6, <2>1 DEF Before
  <2> QED BY <1>3, <1>6, <2>2 DEF CallsOpen
<1>8. Before(more, n + 1 + 1) = n + 1
  <2>1. n + 1 + 1 - 1 = n + 1 OBVIOUS
  <2>2. more[n + 1].role = "assistant" BY <1>1, <1>3
  <2> QED BY <2>1, <2>2 DEF Before
<1>9. CallsOpen(more) /\ CallsOf(more) = Holding(message.blocks, "call")
  BY <1>1, <1>3, <1>8 DEF CallsOpen, CallsOf
<1>10. ASSUME NEW i \in 1..Len(both)
       PROVE  /\ both[i].role = "system" => i = 1
              /\ both[i].role = "assistant" =>
                   AnsweredAt(both, i) \/ (i = Len(both) /\ CallsOpen(more))
              /\ both[i].role = "tool" =>
                   \E j \in 1..(i - 1) : /\ both[j].role = "assistant"
                                         /\ i - j <= Len(both[j].calls)
  <2>1. CASE i \in 1..Len(messages)
    <3>1. both[i] = messages[i] BY <1>2, <2>1
    <3> QED BY <3>1, <2>1, <1>5, <1>7
  <2>2. CASE i \notin 1..Len(messages)
    <3>1. i = m + 1 BY <2>2, <1>2, <1>3
    <3>2. both[i] = new BY <3>1, <1>2, <1>3
    <3>3. i = Len(both) BY <3>1, <1>2, <1>3
    <3> QED BY <3>2, <3>3, <1>9
  <2> QED BY <2>1, <2>2
<1>11. /\ Len(both) > 0 /\ both[Len(both)].role = "assistant"
       /\ both[Len(both)].calls = CallsOf(more)
  BY <1>2, <1>3, <1>9
<1>12. OrderedSoFar(both, more) BY <1>10, <1>11 DEF OrderedSoFar
<1> QED BY <1>12 DEF both, more

\* A user's message answers the calls that are open, and is answered by no tool itself.
LEMMA OrderedUser ==
  ASSUME NEW messages \in Seq(OpenAIMessages), NEW d \in Seq(Messages),
         OrderedSoFar(messages, d), NEW message \in Messages, message.role = "user",
         InPlace(d \o <<message>>, Len(d) + 1)
  PROVE  OrderedSoFar(messages \o FromUser(message), d \o <<message>>)
<1> DEFINE more == d \o <<message>>
           both == messages \o FromUser(message)
           results == Holding(message.blocks, "result")
<1>1. /\ Len(more) = Len(d) + 1 /\ more[Len(d) + 1] = message
      /\ \A i \in 1..Len(d) : more[i] = d[i]
  BY Extended
<1>2. results \in Seq(Nat)
  <2>1. message.blocks \in Seq(Blocks) BY DEF Messages
  <2> QED BY <2>1, HoldingOf
<1>3. PICK n \in Nat, m \in Nat, r \in Nat : n = Len(d) /\ m = Len(messages) /\ r = Len(results)
  <2>1. Len(d) \in Nat /\ Len(messages) \in Nat /\ Len(results) \in Nat BY <1>2
  <2> QED BY <2>1
<1>4. PICK rest \in Seq(OpenAIMessages) :
           /\ FromUser(message) = ToolMessages(results) \o rest
           /\ \A i \in 1..Len(rest) : rest[i].role = "user"
  BY FromUserOf
<1> HIDE DEF results
<1>5. /\ ToolMessages(results) \in Seq(OpenAIMessages)
      /\ Len(ToolMessages(results)) = r
      /\ \A k \in 1..r : ToolMessages(results)[k].role = "tool"
  BY <1>2, <1>3, ToolMessagesOf
<1>6. /\ FromUser(message) \in Seq(OpenAIMessages)
      /\ Len(FromUser(message)) = r + Len(rest)
      /\ \A k \in 1..r : FromUser(message)[k] = ToolMessages(results)[k]
      /\ \A k \in 1..Len(rest) : FromUser(message)[r + k] = rest[k]
  <2>1. /\ ToolMessages(results) \o rest \in Seq(OpenAIMessages)
        /\ Len(ToolMessages(results) \o rest) = Len(ToolMessages(results)) + Len(rest)
        /\ \A k \in 1..Len(ToolMessages(results)) :
             (ToolMessages(results) \o rest)[k] = ToolMessages(results)[k]
        /\ \A k \in 1..Len(rest) :
             (ToolMessages(results) \o rest)[Len(ToolMessages(results)) + k] = rest[k]
    BY <1>5, MessagesJoined
  <2> QED BY <2>1, <1>4, <1>5
<1>7. /\ Len(both) = Len(messages) + Len(FromUser(message))
      /\ \A k \in 1..Len(messages) : both[k] = messages[k]
      /\ \A k \in 1..Len(FromUser(message)) :
           both[Len(messages) + k] = FromUser(message)[k]
  BY <1>6, MessagesJoined
<1>7a. StillInOrder(messages, both, d) BY <1>6, OrderKept
<1>8. \A i \in 1..Len(messages) :
           /\ messages[i].role = "system" => i = 1
           /\ messages[i].role = "assistant" =>
                AnsweredAt(both, i) \/ (i = Len(messages) /\ CallsOpen(d))
           /\ messages[i].role = "tool" =>
                \E j \in 1..(i - 1) : /\ both[j].role = "assistant"
                                      /\ i - j <= Len(both[j].calls)
  BY <1>7a DEF StillInOrder
<1>9. \/ /\ ~CallsOpen(d)
         /\ r = 0
      \/ /\ CallsOpen(d)
         /\ ToSet(results) = ToSet(CallsOf(d)) /\ r = Len(CallsOf(d))
  <2> HIDE DEF more
  <2>1. n + 1 - 1 = n /\ n + 1 - 2 = n - 1 OBVIOUS
  <2>2. n > 0 => more[n] = d[n] BY <1>1, <1>3
  <2>3. Before(more, n + 1) = Before(d, n + 1) BY <2>1, <2>2 DEF Before
  <2>4. Before(d, n + 1) \in 0..n BY <2>1 DEF Before
  <2>5. Before(d, n + 1) # 0 => more[Before(d, n + 1)] = d[Before(d, n + 1)]
    BY <2>4, <1>1, <1>3
  <2>6. InPlace(more, n + 1) /\ more[n + 1] = message BY <1>1, <1>3 DEF more
  <2>7. CASE Before(d, n + 1) = 0
    <3>1. results = <<>> BY <2>3, <2>6, <2>7 DEF InPlace, results
    <3>2. r = 0 BY <3>1, <1>3
    <3>3. ~CallsOpen(d) BY <2>7, <1>3 DEF CallsOpen
    <3> QED BY <3>2, <3>3
  <2>8. CASE Before(d, n + 1) # 0
    <3>1. /\ d[Before(d, n + 1)].role = "assistant"
          /\ ToSet(results) = ToSet(CallsOf(d)) /\ Len(results) = Len(CallsOf(d))
      BY <2>3, <2>5, <2>6, <2>8, <1>3 DEF InPlace, results, CallsOf
    <3>2. CallsOpen(d) BY <3>1, <2>4, <2>8, <1>3 DEF CallsOpen
    <3> QED BY <3>1, <3>2, <1>3
  <2> QED BY <2>7, <2>8
<1>10. ~CallsOpen(more)
  <2> HIDE DEF more
  <2>1. n + 1 + 1 - 1 = n + 1 OBVIOUS
  <2>2. more[n + 1].role = "user" BY <1>1, <1>3
  <2>3. Before(more, n + 1 + 1) = n + 1 BY <2>1, <2>2 DEF Before
  <2> QED BY <2>2, <2>3, <1>1, <1>3 DEF CallsOpen
<1>11. CallsOpen(d) =>
         /\ m > 0 /\ messages[m].role = "assistant" /\ messages[m].calls = CallsOf(d)
  BY <1>3 DEF OrderedSoFar
<1>12. CallsOpen(d) => AnsweredAt(both, m)
  <2> SUFFICES ASSUME CallsOpen(d) PROVE AnsweredAt(both, m) OBVIOUS
  <2>1. /\ Len(messages) > 0
        /\ Len(results) = Len(messages[Len(messages)].calls)
        /\ ToSet(results) = ToSet(messages[Len(messages)].calls)
    BY <1>3, <1>9, <1>11
  <2>2. AnsweredAt(messages \o (ToolMessages(results) \o rest), Len(messages))
    BY <2>1, <1>2, AnsweredNow
  <2> QED BY <2>2, <1>3, <1>4
<1> HIDE DEF more, both
<1>13. ASSUME NEW i \in 1..Len(both)
       PROVE  /\ both[i].role = "system" => i = 1
              /\ both[i].role = "assistant" => AnsweredAt(both, i)
              /\ both[i].role = "tool" =>
                   \E j \in 1..(i - 1) : /\ both[j].role = "assistant"
                                         /\ i - j <= Len(both[j].calls)
  <2>1. CASE i \in 1..m
    <3>1. both[i] = messages[i] BY <1>3, <1>7, <2>1
    <3> QED BY <3>1, <2>1, <1>3, <1>8, <1>12
  <2>2. CASE i \notin 1..m
    <3>1. PICK k \in 1..Len(FromUser(message)) : i = m + k
      <4>1. i - m \in 1..Len(FromUser(message)) /\ i = m + (i - m)
        BY <2>2, <1>3, <1>6, <1>7
      <4> QED BY <4>1
    <3>2. both[i] = FromUser(message)[k] BY <3>1, <1>3, <1>7
    <3>3. CASE k \in 1..r
      <4>1. both[i].role = "tool" BY <3>2, <3>3, <1>5, <1>6
      <4>2. CallsOpen(d) /\ r = Len(CallsOf(d)) BY <3>3, <1>9
      <4>3. m \in 1..(i - 1) /\ i - m <= r BY <3>1, <3>3, <4>2, <1>11
      <4>4. both[m] = messages[m] BY <4>2, <1>3, <1>7, <1>11
      <4>5. both[m].role = "assistant" /\ i - m <= Len(both[m].calls)
        BY <4>2, <4>3, <4>4, <1>11
      <4> QED BY <4>1, <4>3, <4>5
    <3>4. CASE k \notin 1..r
      <4>1. PICK l \in 1..Len(rest) : k = r + l
        <5>1. k - r \in 1..Len(rest) /\ k = r + (k - r) BY <3>4, <1>6
        <5> QED BY <5>1
      <4>2. both[i].role = "user" BY <3>2, <4>1, <1>4, <1>6
      <4> QED BY <4>2
    <3> QED BY <3>3, <3>4
  <2> QED BY <2>1, <2>2
<1>14. OrderedSoFar(both, more) BY <1>10, <1>13 DEF OrderedSoFar
<1> QED BY <1>14 DEF both, more

\* Whatever the dialogue, its translation is in the order that strict upstreams demand.
LEMMA TranslationOrdered ==
  ASSUME NEW system \in Seq(Nat)
  PROVE  \A d \in Seq(Messages) : Alternates(d) =>
           OrderedSoFar(Preamble(system) \o Through(FromMessages, d), d)
<1> DEFINE Translated(d) == Preamble(system) \o Through(FromMessages, d)
           S == {d \in Seq(Messages) : Alternates(d) => OrderedSoFar(Translated(d), d)}
<1>1. \A d \in Seq(Messages) : Translated(d) \in Seq(OpenAIMessages)
  BY PreambleOf, FromTypes, ThroughType, ConcatProperties
<1>2. ASSUME NEW d \in Seq(Messages), NEW message \in Messages
      PROVE  Translated(d \o <<message>>) = Translated(d) \o FromMessage(message)
  <2>1. Through(FromMessages, d \o <<message>>)
          = Through(FromMessages, d) \o FromMessages[message]
    BY FromTypes, ThroughMore
  <2>2. FromMessages[message] = FromMessage(message) /\ FromMessage(message) \in Seq(OpenAIMessages)
    BY FromMessageOf
  <2>3. /\ Preamble(system) \in Seq(OpenAIMessages)
        /\ Through(FromMessages, d) \in Seq(OpenAIMessages)
    BY PreambleOf, FromTypes, ThroughType
  <2>4. Preamble(system) \o (Through(FromMessages, d) \o FromMessage(message))
          = (Preamble(system) \o Through(FromMessages, d)) \o FromMessage(message)
    BY <2>2, <2>3, ConcatAssociative, SMTT(30)
  <2> QED BY <2>1, <2>2, <2>4
<1>3. <<>> \in S
  <2>1. Translated(<<>>) = Preamble(system)
    <3>1. Through(FromMessages, <<>>) = <<>> BY ThroughNone
    <3>2. Preamble(system) \in Seq(OpenAIMessages) BY PreambleOf
    <3> QED BY <3>1, <3>2, ConcatEmptySeq
  <2> DEFINE none == <<>>
  <2>2. Before(none, Len(none) + 1) = 0 BY DEF Before
  <2>3. ~CallsOpen(none) BY <2>2 DEF CallsOpen
  <2>4. \A i \in 1..Len(Preamble(system)) : i = 1 /\ Preamble(system)[i].role = "system"
    BY PreambleOf
  <2>5. OrderedSoFar(Preamble(system), none) BY <2>3, <2>4 DEF OrderedSoFar
  <2> QED BY <2>1, <2>5, EmptySeq
<1> HIDE DEF Translated
<1>4. ASSUME NEW d \in Seq(Messages), NEW message \in Messages, d \in S
      PROVE  d \o <<message>> \in S
  <2>1. d \o <<message>> \in Seq(Messages) BY Extended
  <2> SUFFICES ASSUME Alternates(d \o <<message>>)
               PROVE  OrderedSoFar(Translated(d \o <<message>>), d \o <<message>>)
    BY <2>1
  <2>2. Alternates(d) /\ InPlace(d \o <<message>>, Len(d) + 1) BY AlternatesMore
  <2>3. OrderedSoFar(Translated(d), d) /\ Translated(d) \in Seq(OpenAIMessages)
    BY <1>1, <1>4, <2>2
  <2>4. message.role \in {"system", "user", "assistant"} BY DEF Messages
  <2>5. CASE message.role = "system"
    <3>1. Translated(d \o <<message>>) = Translated(d)
      <4>1. FromMessage(message) = <<>> BY <2>5, FromMessageOf
      <4>2. Translated(d \o <<message>>) = Translated(d) \o <<>> BY <4>1, <1>2
      <4> QED BY <4>2, <2>3, ConcatEmptySeq
    <3>2. OrderedSoFar(Translated(d), d \o <<message>>) BY <2>2, <2>3, <2>5, OrderedSystem
    <3> QED BY <3>1, <3>2
  <2>6. CASE message.role = "assistant"
    <3> DEFINE new == OpenAI("assistant", Holding(message.blocks, "text"),
                             Holding(message.blocks, "call"))
    <3>1. FromMessage(message) = <<new>> BY <2>6, FromMessageOf
    <3>2. new \in OpenAIMessages
      <4>1. message.blocks \in Seq(Blocks) BY DEF Messages
      <4>2. /\ Holding(message.blocks, "text") \in Seq(Nat)
            /\ Holding(message.blocks, "call") \in Seq(Nat)
        BY <4>1, HoldingOf
      <4> QED BY <4>2 DEF OpenAI, OpenAIMessages
    <3>3. new.role = "assistant" /\ new.calls = Holding(message.blocks, "call") BY DEF OpenAI
    <3> HIDE DEF new
    <3>4. OrderedSoFar(Translated(d) \o <<new>>, d \o <<message>>)
      BY <3>2, <3>3, <2>2, <2>3, <2>6, OrderedAssistant
    <3> QED BY <3>1, <3>4, <1>2
  <2>7. CASE message.role = "user"
    <3>1. OrderedSoFar(Translated(d) \o FromUser(message), d \o <<message>>)
      BY <2>2, <2>3, <2>7, OrderedUser
    <3> QED BY <3>1, <2>7, <1>2, FromMessageOf
  <2> QED BY <2>4, <2>5, <2>6, <2>7
<1>5. \A d \in Seq(Messages) : d \in S
  <2> HIDE DEF S
  <2> QED BY <1>3, <1>4, SeqInduction
<1> QED BY <1>5 DEF Translated

-----------------------------------------------------------------------------
(* to_anthropic_params *)

ToMessages == [message \in OpenAIMessages |-> ToMessage(message)]
SystemTexts ==
    [message \in OpenAIMessages |-> IF message.role = "system" THEN message.texts ELSE <<>>]

\* The system prompt, if there is any.
Prompt(system) == IF system = <<>> THEN <<>> ELSE <<Anthropic("system", TextBlock(system))>>

\* What each role's message becomes for an Anthropic upstream.
LEMMA ToMessageOf ==
  ASSUME NEW message \in OpenAIMessages
  PROVE  /\ ToMessage(message) \in Seq(Messages)
         /\ ToMessages[message] = ToMessage(message)
         /\ message.role = "system" => ToMessage(message) = <<>>
         /\ message.role = "user" =>
              ToMessage(message) = <<Anthropic("user", TextBlock(message.texts))>>
         /\ message.role = "tool" =>
              ToMessage(message) = <<Anthropic("user", <<Block("result", message.calls)>>)>>
         /\ message.role = "assistant" =>
              ToMessage(message)
                = <<Anthropic("assistant", AssistantBlocks(message.texts, message.calls))>>
<1>1. ToMessages[message] = ToMessage(message) BY DEF ToMessages
<1>2. /\ message.role \in {"system", "user", "assistant", "tool"}
      /\ message.texts \in Seq(Nat) /\ message.calls \in Seq(Nat)
  BY DEF OpenAIMessages
<1>3. CASE message.role = "system" BY <1>1, <1>3, EmptySeq DEF ToMessage
<1>4. CASE message.role = "user"
  <2>1. ToMessage(message) = <<Anthropic("user", TextBlock(message.texts))>>
    BY <1>4 DEF ToMessage
  <2>2. TextBlock(message.texts) \in Seq(Blocks) BY <1>2, TextBlockHolds
  <2>3. Anthropic("user", TextBlock(message.texts)) \in Messages
    BY <2>2 DEF Anthropic, Messages
  <2> QED BY <1>1, <1>4, <2>1, <2>3
<1>5. CASE message.role = "tool"
  <2>1. ToMessage(message) = <<Anthropic("user", <<Block("result", message.calls)>>)>>
    BY <1>5 DEF ToMessage
  <2>2. Block("result", message.calls) \in Blocks BY <1>2 DEF Block, Blocks, Kinds
  <2>3. <<Block("result", message.calls)>> \in Seq(Blocks) BY <2>2
  <2>4. Anthropic("user", <<Block("result", message.calls)>>) \in Messages
    BY <2>3 DEF Anthropic, Messages
  <2> QED BY <1>1, <1>5, <2>1, <2>4
<1>6. CASE message.role = "assistant"
  <2>1. ToMessage(message)
          = <<Anthropic("assistant", AssistantBlocks(message.texts, message.calls))>>
    BY <1>6 DEF ToMessage
  <2>2. AssistantBlocks(message.texts, message.calls) \in Seq(Blocks)
    BY <1>2, AssistantBlocksHold
  <2>3. Anthropic("assistant", AssistantBlocks(message.texts, message.calls)) \in Messages
    BY <2>2 DEF Anthropic, Messages
  <2> QED BY <1>1, <1>6, <2>1, <2>3
<1> QED BY <1>2, <1>3, <1>4, <1>5, <1>6

\* The types of what messages become for an Anthropic upstream.
LEMMA ToTypes ==
  /\ ToMessages \in [OpenAIMessages -> Seq(Messages)]
  /\ SystemTexts \in [OpenAIMessages -> Seq(Nat)]
<1>1. \A message \in OpenAIMessages : ToMessage(message) \in Seq(Messages) BY ToMessageOf
<1>2. \A message \in OpenAIMessages : message.texts \in Seq(Nat) /\ <<>> \in Seq(Nat)
  BY EmptySeq DEF OpenAIMessages
<1> QED BY <1>1, <1>2 DEF ToMessages, SystemTexts

\* to_anthropic_params: a system prompt, then what the messages become.
LEMMA ToAnthropicOf ==
  ASSUME NEW messages \in Seq(OpenAIMessages)
  PROVE  ToAnthropic(messages)
           = Prompt(Through(SystemTexts, messages)) \o Through(ToMessages, messages)
<1>1. \A i \in DOMAIN messages : messages[i] \in OpenAIMessages OBVIOUS
<1>2. [i \in DOMAIN messages |-> IF messages[i].role = "system" THEN messages[i].texts ELSE <<>>]
        = [i \in DOMAIN messages |-> SystemTexts[messages[i]]]
  BY <1>1 DEF SystemTexts
<1>3. [i \in DOMAIN messages |-> ToMessage(messages[i])]
        = [i \in DOMAIN messages |-> ToMessages[messages[i]]]
  BY <1>1, ToMessageOf
<1> QED BY <1>2, <1>3 DEF ToAnthropic, Through, Prompt

-----------------------------------------------------------------------------
(* What messages say *)

\* In which turn the next message is.
TurnAfter(messages) == Answers(messages, Len(messages) + 1)

\* A sequence with one more element than another.
LEMMA OneMore ==
  ASSUME NEW B, NEW n \in Nat, NEW f \in [1..n -> B], NEW g \in [1..(n + 1) -> B],
         \A i \in 1..n : g[i] = f[i]
  PROVE  f \in Seq(B) /\ g = f \o <<g[n + 1]>>
<1>1. f \in Seq(B) /\ Len(f) = n OBVIOUS
<1>2. g \in Seq(B) /\ Len(g) = n + 1 /\ g[n + 1] \in B OBVIOUS
<1>3. PICK e \in B : e = g[n + 1] BY <1>2
<1>4. /\ f \o <<e>> \in Seq(B) /\ Len(f \o <<e>>) = n + 1
      /\ \A i \in 1..n : (f \o <<e>>)[i] = f[i]
      /\ (f \o <<e>>)[n + 1] = e
  BY <1>1, Extended
<1>5. ASSUME NEW i \in 1..(n + 1) PROVE g[i] = (f \o <<e>>)[i]
  <2>1. CASE i \in 1..n BY <1>4, <2>1
  <2>2. CASE i \notin 1..n
    <3>1. i = n + 1 BY <2>2
    <3> QED BY <3>1, <1>3, <1>4
  <2> QED BY <2>1, <2>2
<1>6. g = f \o <<e>> BY <1>2, <1>4, <1>5, SeqEqual
<1> QED BY <1>1, <1>3, <1>6

\* OneMore, for sequences of pieces.
LEMMA OneMorePart ==
  ASSUME NEW n \in Nat, NEW f \in [1..n -> Seq(Nat)], NEW g \in [1..(n + 1) -> Seq(Nat)],
         \A i \in 1..n : g[i] = f[i]
  PROVE  f \in Seq(Seq(Nat)) /\ g = f \o <<g[n + 1]>>
  BY OneMore, SMTT(30)

\* A message added changes nothing of the turns before, and an answer begins a new one.
LEMMA AnswersOf ==
  ASSUME NEW messages \in Seq(Messages), NEW message \in Messages
  PROVE  /\ \A i \in 1..(Len(messages) + 1) :
              Answers(messages \o <<message>>, i) = Answers(messages, i)
         /\ TurnAfter(messages) \in Nat
         /\ message.role = "assistant" =>
              TurnAfter(messages \o <<message>>) = TurnAfter(messages) + 1
         /\ message.role # "assistant" =>
              TurnAfter(messages \o <<message>>) = TurnAfter(messages)
<1> DEFINE more == messages \o <<message>>
           Before_(n) == {j \in 1..n : messages[j].role = "assistant"}
           After_(n) == {j \in 1..n : more[j].role = "assistant"}
<1>1. PICK n \in Nat : n = Len(messages) OBVIOUS
<1>2. Len(more) = n + 1 /\ more[n + 1] = message /\ \A i \in 1..n : more[i] = messages[i]
  BY <1>1, Extended
<1> HIDE DEF more
<1>3. ASSUME NEW i \in 1..(n + 1) PROVE Answers(more, i) = Answers(messages, i)
  <2>1. \A j \in 1..(i - 1) : more[j] = messages[j] BY <1>2
  <2>2. {j \in 1..(i - 1) : more[j].role = "assistant"}
          = {j \in 1..(i - 1) : messages[j].role = "assistant"}
    BY <2>1
  <2> QED BY <2>2 DEF Answers
<1>4. n + 1 - 1 = n /\ n + 1 + 1 - 1 = n + 1 OBVIOUS
<1>5. TurnAfter(messages) = Cardinality(Before_(n)) BY <1>1, <1>4 DEF TurnAfter, Answers
<1>6. TurnAfter(more) = Cardinality(After_(n + 1)) BY <1>2, <1>4 DEF TurnAfter, Answers
<1>7. IsFiniteSet(Before_(n))
  <2>1. IsFiniteSet(1..n) BY FS_Interval
  <2>2. Before_(n) \subseteq 1..n OBVIOUS
  <2> QED BY <2>1, <2>2, FS_Subset
<1>8. TurnAfter(messages) \in Nat BY <1>5, <1>7, FS_CardinalityType
<1>9. CASE message.role = "assistant"
  <2>1. After_(n + 1) = Before_(n) \union {n + 1} BY <1>2, <1>9
  <2>2. n + 1 \notin Before_(n) OBVIOUS
  <2> HIDE DEF Before_, After_
  <2>3. Cardinality(Before_(n) \union {n + 1}) = Cardinality(Before_(n)) + 1
    BY <1>7, <2>2, FS_AddElement
  <2> QED BY <2>1, <2>3, <1>1, <1>3, <1>5, <1>6, <1>8, <1>9 DEF more
<1>10. CASE message.role # "assistant"
  <2>1. After_(n + 1) = Before_(n) BY <1>2, <1>10
  <2> QED BY <2>1, <1>1, <1>3, <1>5, <1>6, <1>8, <1>10 DEF more
<1> QED BY <1>9, <1>10

\* What a message adds to what those of a role hold of a kind in the n-th turn.
TurnPiece(message, turn_, role, kind, n) ==
    IF message.role = role /\ (role = "system" \/ turn_ = n)
    THEN Holding(message.blocks, kind) ELSE <<>>

\* A message added says its piece, after what was said.
LEMMA SaidMore ==
  ASSUME NEW messages \in Seq(Messages), NEW message \in Messages,
         NEW role, NEW kind, NEW n
  PROVE  /\ Said(messages, role, kind, n) \in Seq(Nat)
         /\ Said(messages \o <<message>>, role, kind, n)
              = Said(messages, role, kind, n)
                  \o TurnPiece(message, TurnAfter(messages), role, kind, n)
<1> DEFINE more == messages \o <<message>>
           Part(ms, i) == IF ms[i].role = role /\ (role = "system" \/ Answers(ms, i) = n)
                          THEN Holding(ms[i].blocks, kind) ELSE <<>>
           f == [i \in DOMAIN messages |-> Part(messages, i)]
           g == [i \in DOMAIN more |-> Part(more, i)]
<1>1. PICK m \in Nat : m = Len(messages) OBVIOUS
<1>2. /\ more \in Seq(Messages)
      /\ Len(more) = m + 1 /\ more[m + 1] = message /\ \A i \in 1..m : more[i] = messages[i]
  BY <1>1, Extended
<1>3. \A i \in 1..(m + 1) : Answers(more, i) = Answers(messages, i) BY <1>1, AnswersOf
<1> HIDE DEF more
<1>4. DOMAIN messages = 1..m /\ DOMAIN more = 1..(m + 1) BY <1>1, <1>2
<1>5. \A one \in Messages : Holding(one.blocks, kind) \in Seq(Nat)
  <2>1. \A one \in Messages : one.blocks \in Seq(Blocks) BY DEF Messages
  <2> QED BY <2>1, HoldingOf
<1>6. f \in [1..m -> Seq(Nat)]
  <2>1. \A i \in 1..m : messages[i] \in Messages BY <1>1
  <2>2. \A i \in 1..m : Part(messages, i) \in Seq(Nat) BY <2>1, <1>5, EmptySeq
  <2> QED BY <2>2, <1>4
<1>7. g \in [1..(m + 1) -> Seq(Nat)]
  <2>1. \A i \in 1..(m + 1) : more[i] \in Messages BY <1>2
  <2>2. \A i \in 1..(m + 1) : Part(more, i) \in Seq(Nat) BY <2>1, <1>5, EmptySeq
  <2> QED BY <2>2, <1>4
<1>8. ASSUME NEW i \in 1..m PROVE g[i] = f[i]
  <2>1. g[i] = Part(more, i) /\ f[i] = Part(messages, i) BY <1>4
  <2>2. more[i] = messages[i] /\ Answers(more, i) = Answers(messages, i) BY <1>2, <1>3
  <2> QED BY <2>1, <2>2
<1>9. g[m + 1] = Part(more, m + 1) BY <1>4
<1>10. Said(messages, role, kind, n) = FlattenSeq(f) BY DEF Said
<1>11. Said(more, role, kind, n) = FlattenSeq(g) BY DEF Said
<1>12. g[m + 1] = TurnPiece(message, TurnAfter(messages), role, kind, n)
  <2>1. more[m + 1] = message /\ Answers(more, m + 1) = TurnAfter(messages)
    BY <1>1, <1>2, <1>3 DEF TurnAfter
  <2> QED BY <2>1, <1>9 DEF TurnPiece
<1> HIDE DEF f, g
<1>13. f \in Seq(Seq(Nat)) /\ g = f \o <<g[m + 1]>> BY <1>6, <1>7, <1>8, OneMorePart
<1>14. g[m + 1] \in Seq(Nat) BY <1>7
<1>15. FlattenSeq(f \o <<g[m + 1]>>) = FlattenSeq(f) \o g[m + 1]
  BY <1>13, <1>14, FlattenOfMore
<1>16. FlattenSeq(f) \in Seq(Nat) BY <1>13, FlattenType
<1>18. Said(more, role, kind, n) = Said(messages, role, kind, n) \o g[m + 1]
  BY <1>10, <1>11, <1>13, <1>15
<1> QED BY <1>10, <1>12, <1>16, <1>18 DEF more

\* In no message nothing is said.
LEMMA SaidOfNone ==
  ASSUME NEW role, NEW kind, NEW n
  PROVE  Said(<<>>, role, kind, n) = <<>> /\ TurnAfter(<<>>) = 0
<1> DEFINE f == [i \in DOMAIN <<>> |->
                   IF <<>>[i].role = role /\ (role = "system" \/ Answers(<<>>, i) = n)
                   THEN Holding(<<>>[i].blocks, kind) ELSE <<>>]
<1>1. f = <<>> OBVIOUS
<1>2. Said(<<>>, role, kind, n) = FlattenSeq(f) BY DEF Said
<1>3. {i \in 1..(Len(<<>>) + 1 - 1) : <<>>[i].role = "assistant"} = {} OBVIOUS
<1>4. TurnAfter(<<>>) = 0 BY <1>3, FS_EmptySet DEF TurnAfter, Answers
<1> QED BY <1>1, <1>2, <1>4, FlattenOfNone

Roles == {"system", "user", "assistant"}
SaidKinds == {"text", "call", "result"}

\* Messages followed by others, and by one more.
LEMMA MessagesExtended ==
  \A messages \in Seq(Messages), more \in Seq(Messages) :
    /\ messages \o more \in Seq(Messages)
    /\ \A message \in Messages :
         (messages \o more) \o <<message>> = messages \o (more \o <<message>>)
<1> SUFFICES ASSUME NEW messages \in Seq(Messages), NEW more \in Seq(Messages)
             PROVE  /\ messages \o more \in Seq(Messages)
                    /\ \A message \in Messages :
                         (messages \o more) \o <<message>> = messages \o (more \o <<message>>)
  OBVIOUS
<1>1. messages \o more \in Seq(Messages) BY ConcatProperties
<1>2. ASSUME NEW message \in Messages
      PROVE  (messages \o more) \o <<message>> = messages \o (more \o <<message>>)
  <2>1. <<message>> \in Seq(Messages) OBVIOUS
  <2> QED BY <2>1, ConcatAssociative, SMTT(30)
<1> QED BY <1>1, <1>2

\* What comes after has said more than what comes before: what a message says.
SaysMore(before, after, message) ==
    /\ message.role = "assistant" => TurnAfter(after) = TurnAfter(before) + 1
    /\ message.role # "assistant" => TurnAfter(after) = TurnAfter(before)
    /\ \A role \in Roles, kind \in SaidKinds, n \in Nat :
         Said(after, role, kind, n)
           = Said(before, role, kind, n) \o TurnPiece(message, TurnAfter(before), role, kind, n)

\* Pieces may be joined in any grouping.
LEMMA PiecesJoined ==
  \A some \in Seq(Nat), more \in Seq(Nat), most \in Seq(Nat) :
    (some \o more) \o most = some \o (more \o most)
  BY ConcatAssociative, SMTT(30)

\* What is said is a sequence.
LEMMA SaidTypes ==
  /\ \A messages \in Seq(Messages) : \A role, kind, n : Said(messages, role, kind, n) \in Seq(Nat)
  /\ \A message \in Messages : \A turn_, role, kind, n :
       TurnPiece(message, turn_, role, kind, n) \in Seq(Nat)
<1>1. Anthropic("user", <<>>) \in Messages BY EmptySeq DEF Anthropic, Messages
<1>2. \A messages \in Seq(Messages) : \A role, kind, n : Said(messages, role, kind, n) \in Seq(Nat)
  BY <1>1, SaidMore
<1>3. ASSUME NEW message \in Messages, NEW turn_, NEW role, NEW kind, NEW n
      PROVE  TurnPiece(message, turn_, role, kind, n) \in Seq(Nat)
  <2>1. message.blocks \in Seq(Blocks) BY DEF Messages
  <2>2. Holding(message.blocks, kind) \in Seq(Nat) BY <2>1, HoldingOf
  <2> QED BY <2>2, EmptySeq DEF TurnPiece
<1> QED BY <1>2, <1>3

\* Messages with one more say what it says.
LEMMA SaysOneMore ==
  ASSUME NEW messages \in Seq(Messages), NEW message \in Messages
  PROVE  SaysMore(messages, messages \o <<message>>, message)
<1>1. /\ message.role = "assistant" =>
           TurnAfter(messages \o <<message>>) = TurnAfter(messages) + 1
      /\ message.role # "assistant" =>
           TurnAfter(messages \o <<message>>) = TurnAfter(messages)
  BY AnswersOf
<1>2. ASSUME NEW role \in Roles, NEW kind \in SaidKinds, NEW n \in Nat
      PROVE  Said(messages \o <<message>>, role, kind, n)
               = Said(messages, role, kind, n)
                   \o TurnPiece(message, TurnAfter(messages), role, kind, n)
  BY SaidMore
<1> QED BY <1>1, <1>2 DEF SaysMore

\* A user's message that holds nothing says nothing.
LEMMA SaysNothing ==
  ASSUME NEW messages \in Seq(Messages), NEW message \in Messages, message.role = "user",
         \A kind \in SaidKinds : Holding(message.blocks, kind) = <<>>
  PROVE  SaysMore(messages, messages, message)
<1>1. ASSUME NEW role \in Roles, NEW kind \in SaidKinds, NEW n \in Nat
      PROVE  Said(messages, role, kind, n)
               = Said(messages, role, kind, n)
                   \o TurnPiece(message, TurnAfter(messages), role, kind, n)
  <2>1. TurnPiece(message, TurnAfter(messages), role, kind, n) = <<>> BY DEF TurnPiece
  <2>2. Said(messages, role, kind, n) \in Seq(Nat) BY SaidTypes
  <2> QED BY <2>1, <2>2, ConcatEmptySeq
<1> QED BY <1>1 DEF SaysMore

\* A user's message says what two others say.
SaysBoth(message, one, other) ==
    /\ message.role = "user" /\ one.role = "user" /\ other.role = "user"
    /\ \A kind \in SaidKinds : Holding(message.blocks, kind)
         = Holding(one.blocks, kind) \o Holding(other.blocks, kind)

\* What a user says in two messages could be said in one.
LEMMA SaysInTwo ==
  ASSUME NEW a \in Seq(Messages), NEW b \in Seq(Messages), NEW c \in Seq(Messages),
         NEW one \in Messages, NEW other \in Messages, NEW message \in Messages,
         SaysBoth(message, one, other), SaysMore(a, b, one), SaysMore(b, c, other)
  PROVE  SaysMore(a, c, message)
<1>1. PICK turn_ : turn_ = TurnAfter(a) OBVIOUS
<1>2. TurnAfter(b) = turn_ /\ TurnAfter(c) = turn_ BY <1>1 DEF SaysMore, SaysBoth
<1>3. ASSUME NEW role \in Roles, NEW kind \in SaidKinds, NEW n \in Nat
      PROVE  Said(c, role, kind, n) = Said(a, role, kind, n)
               \o TurnPiece(message, turn_, role, kind, n)
  <2> DEFINE old == Said(a, role, kind, n)
             first == TurnPiece(one, turn_, role, kind, n)
             second == TurnPiece(other, turn_, role, kind, n)
  <2>1. Said(b, role, kind, n) = old \o first BY <1>1 DEF SaysMore
  <2>2. Said(c, role, kind, n) = Said(b, role, kind, n) \o second BY <1>2 DEF SaysMore
  <2>3. old \in Seq(Nat) /\ first \in Seq(Nat) /\ second \in Seq(Nat) BY SaidTypes
  <2>4. TurnPiece(message, turn_, role, kind, n) = first \o second
    <3>1. CASE role = "user" /\ turn_ = n BY <3>1 DEF TurnPiece, SaysBoth
    <3>2. CASE ~(role = "user" /\ turn_ = n)
      <4>1. first = <<>> /\ second = <<>> /\ TurnPiece(message, turn_, role, kind, n) = <<>>
        BY <3>2 DEF TurnPiece, SaysBoth
      <4>2. <<>> \o <<>> = <<>> OBVIOUS
      <4> QED BY <4>1, <4>2
    <3> QED BY <3>1, <3>2
  <2> HIDE DEF old, first, second
  <2>5. (old \o first) \o second = old \o (first \o second) BY <2>3, PiecesJoined
  <2> QED BY <2>1, <2>2, <2>4, <2>5 DEF old
<1> QED BY <1>1, <1>2, <1>3 DEF SaysMore, SaysBoth

\* Two messages of a role that hold the same say the same.
LEMMA SaysSame ==
  ASSUME NEW a \in Seq(Messages), NEW b \in Seq(Messages),
         NEW one \in Messages, NEW message \in Messages,
         one.role = message.role, SaysMore(a, b, one),
         \A kind \in SaidKinds : Holding(one.blocks, kind) = Holding(message.blocks, kind)
  PROVE  SaysMore(a, b, message)
<1>1. ASSUME NEW role \in Roles, NEW kind \in SaidKinds, NEW n \in Nat
      PROVE  Said(b, role, kind, n)
               = Said(a, role, kind, n) \o TurnPiece(message, TurnAfter(a), role, kind, n)
  <2>1. TurnPiece(one, TurnAfter(a), role, kind, n)
          = TurnPiece(message, TurnAfter(a), role, kind, n)
    BY DEF TurnPiece
  <2>2. Said(b, role, kind, n)
          = Said(a, role, kind, n) \o TurnPiece(one, TurnAfter(a), role, kind, n)
    BY DEF SaysMore
  <2> QED BY <2>1, <2>2
<1>2. /\ message.role = "assistant" => TurnAfter(b) = TurnAfter(a) + 1
      /\ message.role # "assistant" => TurnAfter(b) = TurnAfter(a)
  BY DEF SaysMore
<1> QED BY <1>1, <1>2 DEF SaysMore

-----------------------------------------------------------------------------
(* OpenAI messages, read as blocks *)

\* A block has the kind and the pieces it was made of.
LEMMA BlockIs ==
  ASSUME NEW kind \in Kinds, NEW pieces \in Seq(Nat)
  PROVE  /\ Block(kind, pieces) \in Blocks
         /\ Block(kind, pieces).kind = kind /\ Block(kind, pieces).pieces = pieces
BY DEF Block, Blocks

\* How Heard reads a message.
HeardOne(message) ==
    Anthropic(IF message.role = "tool" THEN "user" ELSE message.role,
              <<Block("text", message.texts),
                Block(IF message.role = "tool" THEN "result" ELSE "call", message.calls)>>)
HeardOnes == [message \in OpenAIMessages |-> HeardOne(message)]

\* What a message read as blocks holds.
LEMMA HeardHolds ==
  ASSUME NEW message \in OpenAIMessages
  PROVE  /\ HeardOne(message) \in Messages
         /\ HeardOnes[message] = HeardOne(message)
         /\ message.role = "tool" => HeardOne(message).role = "user"
         /\ message.role # "tool" => HeardOne(message).role = message.role
         /\ Holding(HeardOne(message).blocks, "text") = message.texts
         /\ message.role = "tool" =>
              /\ Holding(HeardOne(message).blocks, "result") = message.calls
              /\ Holding(HeardOne(message).blocks, "call") = <<>>
         /\ message.role # "tool" =>
              /\ Holding(HeardOne(message).blocks, "call") = message.calls
              /\ Holding(HeardOne(message).blocks, "result") = <<>>
<1>1. /\ message.role \in {"system", "user", "assistant", "tool"}
      /\ message.texts \in Seq(Nat) /\ message.calls \in Seq(Nat)
  BY DEF OpenAIMessages
<1>2. PICK kind \in {"call", "result"} :
        kind = IF message.role = "tool" THEN "result" ELSE "call"
  OBVIOUS
<1>3. PICK role \in {"system", "user", "assistant"} :
        role = IF message.role = "tool" THEN "user" ELSE message.role
  BY <1>1
<1>4. PICK said \in Blocks : /\ said = Block("text", message.texts)
                             /\ said.kind = "text" /\ said.pieces = message.texts
  BY <1>1, BlockIs DEF Kinds
<1>5. PICK given \in Blocks : /\ given = Block(kind, message.calls)
                              /\ given.kind = kind /\ given.pieces = message.calls
  BY <1>1, <1>2, BlockIs DEF Kinds
<1>6. HeardOne(message) = Anthropic(role, <<said, given>>)
  BY <1>2, <1>3, <1>4, <1>5 DEF HeardOne
<1>7. <<said, given>> \in Seq(Blocks) /\ <<said>> \in Seq(Blocks) /\ <<given>> \in Seq(Blocks)
  OBVIOUS
<1>8. /\ HeardOne(message) \in Messages /\ HeardOne(message).role = role
      /\ HeardOne(message).blocks = <<said, given>>
  BY <1>6, <1>7 DEF Anthropic, Messages
<1>9. <<said, given>> = <<said>> \o <<given>> OBVIOUS
<1>10. \A some : Holding(<<said>> \o <<given>>, some)
                   = Holding(<<said>>, some) \o Holding(<<given>>, some)
  BY <1>7, HoldingOf
<1>11. /\ Holding(<<said>>, "text") = message.texts
       /\ Holding(<<said>>, "call") = <<>> /\ Holding(<<said>>, "result") = <<>>
  BY <1>4, HoldingOf
<1>12. \A some \in SaidKinds : Holding(<<given>>, some)
                                 = IF some = kind THEN message.calls ELSE <<>>
  BY <1>5, HoldingOf
<1>13. message.texts \o <<>> = message.texts /\ <<>> \o message.calls = message.calls
       /\ <<>> \o <<>> = <<>>
  BY <1>1, ConcatEmptySeq
<1>14. Holding(<<said, given>>, "text") = message.texts
  <2>1. Holding(<<given>>, "text") = <<>> BY <1>12 DEF SaidKinds
  <2> QED BY <2>1, <1>9, <1>10, <1>11, <1>13
<1>15. \A some \in {"call", "result"} :
         Holding(<<said, given>>, some) = IF some = kind THEN message.calls ELSE <<>>
  <2> SUFFICES ASSUME NEW some \in {"call", "result"}
               PROVE  Holding(<<said, given>>, some) = IF some = kind THEN message.calls ELSE <<>>
    OBVIOUS
  <2>1. Holding(<<said>>, some) = <<>> BY <1>11
  <2>2. Holding(<<given>>, some) = IF some = kind THEN message.calls ELSE <<>>
    BY <1>12 DEF SaidKinds
  <2> QED BY <2>1, <2>2, <1>9, <1>10, <1>13
<1>16. HeardOnes[message] = HeardOne(message) BY DEF HeardOnes
<1> QED BY <1>2, <1>3, <1>8, <1>14, <1>15, <1>16

\* Heard reads each message for itself.
LEMMA HeardOf ==
  /\ HeardOnes \in [OpenAIMessages -> Messages]
  /\ \A messages \in Seq(OpenAIMessages) :
       /\ Heard(messages) = [i \in DOMAIN messages |-> HeardOnes[messages[i]]]
       /\ Heard(messages) \in Seq(Messages)
       /\ Len(Heard(messages)) = Len(messages)
       /\ \A i \in 1..Len(messages) : Heard(messages)[i] = HeardOnes[messages[i]]
<1>1. \A message \in OpenAIMessages : HeardOne(message) \in Messages BY HeardHolds
<1>2. HeardOnes \in [OpenAIMessages -> Messages] BY <1>1 DEF HeardOnes
<1> SUFFICES ASSUME NEW messages \in Seq(OpenAIMessages)
             PROVE  /\ Heard(messages) = [i \in DOMAIN messages |-> HeardOnes[messages[i]]]
                    /\ Heard(messages) \in Seq(Messages)
                    /\ Len(Heard(messages)) = Len(messages)
                    /\ \A i \in 1..Len(messages) : Heard(messages)[i] = HeardOnes[messages[i]]
  BY <1>2
<1>3. \A i \in DOMAIN messages : HeardOnes[messages[i]] = HeardOne(messages[i])
  <2>1. \A i \in DOMAIN messages : messages[i] \in OpenAIMessages OBVIOUS
  <2> QED BY <2>1, HeardHolds
<1>4. Heard(messages) = [i \in DOMAIN messages |-> HeardOne(messages[i])]
  BY DEF Heard, HeardOne
<1>5. Heard(messages) = [i \in DOMAIN messages |-> HeardOnes[messages[i]]] BY <1>3, <1>4
<1>6. /\ [i \in DOMAIN messages |-> HeardOnes[messages[i]]] \in Seq(Messages)
      /\ Len([i \in DOMAIN messages |-> HeardOnes[messages[i]]]) = Len(messages)
      /\ \A i \in 1..Len(messages) :
           [j \in DOMAIN messages |-> HeardOnes[messages[j]]][i] = HeardOnes[messages[i]]
  BY <1>2, Mapped
<1> QED BY <1>5, <1>6

\* One more message is heard behind the others.
LEMMA HeardMore ==
  ASSUME NEW messages \in Seq(OpenAIMessages), NEW message \in OpenAIMessages
  PROVE  Heard(messages \o <<message>>) = Heard(messages) \o <<HeardOne(message)>>
<1>1. PICK F \in [OpenAIMessages -> Messages] : F = HeardOnes BY HeardOf
<1>2. [i \in DOMAIN (messages \o <<message>>) |-> F[(messages \o <<message>>)[i]]]
        = [i \in DOMAIN messages |-> F[messages[i]]] \o <<F[message]>>
  BY MappedMore
<1>3. messages \o <<message>> \in Seq(OpenAIMessages) BY Extended
<1>4. F[message] = HeardOne(message) BY <1>1, HeardHolds
<1> QED BY <1>1, <1>2, <1>3, <1>4, HeardOf

\* What is heard of no message, and of one.
LEMMA HeardFew ==
  /\ Heard(<<>>) = <<>>
  /\ \A message \in OpenAIMessages : Heard(<<message>>) = <<HeardOne(message)>>
<1>1. Heard(<<>>) = <<>>
  <2>1. <<>> \in Seq(OpenAIMessages) BY EmptySeq
  <2>2. Len(Heard(<<>>)) = 0 /\ Heard(<<>>) \in Seq(Messages) BY <2>1, HeardOf
  <2> QED BY <2>2
<1> SUFFICES ASSUME NEW message \in OpenAIMessages
             PROVE  Heard(<<message>>) = <<HeardOne(message)>>
  BY <1>1
<1>2. PICK none \in Seq(OpenAIMessages) : none = <<>> BY EmptySeq
<1>3. none \o <<message>> = <<message>> BY <1>2
<1>4. Heard(none \o <<message>>) = Heard(none) \o <<HeardOne(message)>> BY HeardMore
<1>5. <<>> \o <<HeardOne(message)>> = <<HeardOne(message)>> OBVIOUS
<1> QED BY <1>1, <1>2, <1>3, <1>4, <1>5

\* What is heard of two parts of a request is what is heard of each.
LEMMA HeardJoined ==
  ASSUME NEW some \in Seq(OpenAIMessages)
  PROVE  \A more \in Seq(OpenAIMessages) : Heard(some \o more) = Heard(some) \o Heard(more)
<1> DEFINE S == {more \in Seq(OpenAIMessages) : Heard(some \o more) = Heard(some) \o Heard(more)}
<1>1. <<>> \in S
  <2>1. some \o <<>> = some /\ <<>> \in Seq(OpenAIMessages) BY ConcatEmptySeq, EmptySeq
  <2>2. Heard(some) \o <<>> = Heard(some)
    <3>1. Heard(some) \in Seq(Messages) BY HeardOf
    <3> QED BY <3>1, ConcatEmptySeq
  <2> QED BY <2>1, <2>2, HeardFew
<1>2. ASSUME NEW more \in Seq(OpenAIMessages), NEW message \in OpenAIMessages, more \in S
      PROVE  more \o <<message>> \in S
  <2>1. PICK both \in Seq(OpenAIMessages) : both = some \o more BY MessagesJoined
  <2>2. some \o (more \o <<message>>) = both \o <<message>>
    <3>1. <<message>> \in Seq(OpenAIMessages) OBVIOUS
    <3> QED BY <3>1, <2>1, ConcatAssociative, SMTT(30)
  <2>3. PICK a \in Seq(Messages), b \in Seq(Messages) : a = Heard(some) /\ b = Heard(more)
    BY HeardOf
  <2>4. PICK one \in Messages : one = HeardOne(message) BY HeardHolds
  <2>5. Heard(both \o <<message>>) = Heard(both) \o <<one>> BY <2>4, HeardMore
  <2>6. Heard(more \o <<message>>) = b \o <<one>> BY <2>3, <2>4, HeardMore
  <2>7. Heard(both) = a \o b BY <1>2, <2>1, <2>3
  <2>8. (a \o b) \o <<one>> = a \o (b \o <<one>>) BY MessagesExtended
  <2>9. more \o <<message>> \in Seq(OpenAIMessages) BY Extended
  <2> QED BY <2>2, <2>3, <2>5, <2>6, <2>7, <2>8, <2>9
<1>3. \A more \in Seq(OpenAIMessages) : more \in S
  <2> HIDE DEF S
  <2> QED BY <1>1, <1>2, SeqInduction
<1> QED BY <1>3

-----------------------------------------------------------------------------
(* What becomes of a message says what it said *)

\* One more result becomes one more message.
LEMMA ToolMessagesMore ==
  ASSUME NEW results \in Seq(Nat), NEW x \in Nat
  PROVE  /\ OpenAI("tool", <<>>, <<x>>) \in OpenAIMessages
         /\ ToolMessages(results \o <<x>>)
              = ToolMessages(results) \o <<OpenAI("tool", <<>>, <<x>>)>>
<1> DEFINE new == OpenAI("tool", <<>>, <<x>>)
<1>1. new \in OpenAIMessages BY EmptySeq DEF OpenAI, OpenAIMessages
<1>2. PICK F \in [Nat -> OpenAIMessages] : \A y \in Nat : F[y] = OpenAI("tool", <<>>, <<y>>)
  <2> DEFINE G == [y \in Nat |-> OpenAI("tool", <<>>, <<y>>)]
  <2>1. G \in [Nat -> OpenAIMessages] BY EmptySeq DEF OpenAI, OpenAIMessages
  <2>2. \A y \in Nat : G[y] = OpenAI("tool", <<>>, <<y>>) OBVIOUS
  <2> HIDE DEF G
  <2> QED BY <2>1, <2>2
<1>3. \A some \in Seq(Nat) : ToolMessages(some) = [i \in DOMAIN some |-> F[some[i]]]
  <2> SUFFICES ASSUME NEW some \in Seq(Nat)
               PROVE  ToolMessages(some) = [i \in DOMAIN some |-> F[some[i]]]
    OBVIOUS
  <2>1. \A i \in DOMAIN some : F[some[i]] = OpenAI("tool", <<>>, <<some[i]>>) BY <1>2
  <2> QED BY <2>1 DEF ToolMessages
<1>4. F[x] = new BY <1>2
<1> HIDE DEF new
<1>5. [i \in DOMAIN (results \o <<x>>) |-> F[(results \o <<x>>)[i]]]
        = [i \in DOMAIN results |-> F[results[i]]] \o <<F[x]>>
  BY MappedMore
<1>6. results \o <<x>> \in Seq(Nat) BY Extended
<1>7. ToolMessages(results \o <<x>>) = ToolMessages(results) \o <<new>>
  BY <1>3, <1>4, <1>5, <1>6
<1> QED BY <1>1, <1>7 DEF new

\* Results, each in a message of its own, say what a user's message with them says.
LEMMA ResultsSaid ==
  ASSUME NEW before \in Seq(Messages)
  PROVE  \A results \in Seq(Nat) :
           /\ before \o Heard(ToolMessages(results)) \in Seq(Messages)
           /\ SaysMore(before, before \o Heard(ToolMessages(results)),
                       Anthropic("user", Each("result", results)))
<1> DEFINE After(results) == before \o Heard(ToolMessages(results))
           User(results) == Anthropic("user", Each("result", results))
           S == {results \in Seq(Nat) : SaysMore(before, After(results), User(results))}
<1>1. ASSUME NEW results \in Seq(Nat)
      PROVE  /\ Heard(ToolMessages(results)) \in Seq(Messages)
             /\ After(results) \in Seq(Messages)
  <2>1. ToolMessages(results) \in Seq(OpenAIMessages) BY ToolMessagesOf
  <2>2. Heard(ToolMessages(results)) \in Seq(Messages) BY <2>1, HeardOf
  <2> QED BY <2>2, MessagesExtended
<1>2. ASSUME NEW results \in Seq(Nat)
      PROVE  /\ User(results) \in Messages /\ User(results).role = "user"
             /\ User(results).blocks = Each("result", results)
             /\ Each("result", results) \in Seq(Blocks)
  <2>1. Each("result", results) \in Seq(Blocks) BY EachOf DEF Kinds
  <2> QED BY <2>1 DEF Anthropic, Messages
<1>3. <<>> \in S
  <2>1. ToolMessages(<<>>) = <<>> BY DEF ToolMessages
  <2>2. After(<<>>) = before BY <2>1, HeardFew, ConcatEmptySeq
  <2> HIDE DEF After
  <2>3. <<>> \in Seq(Nat) BY EmptySeq
  <2>4. PICK none \in Messages : none = User(<<>>) BY <1>2, <2>3
  <2>5. none.role = "user" /\ none.blocks = <<>> BY <1>2, <2>3, <2>4, EachOf DEF Kinds
  <2>6. \A kind \in SaidKinds : Holding(none.blocks, kind) = <<>> BY <2>5, HoldingOf
  <2>7. SaysMore(before, before, none) BY <2>5, <2>6, SaysNothing
  <2> QED BY <2>2, <2>3, <2>4, <2>7
<1>4. ASSUME NEW results \in Seq(Nat), NEW x \in Nat, results \in S
      PROVE  results \o <<x>> \in S
  <2>1. results \o <<x>> \in Seq(Nat) BY Extended
  <2>2. PICK told \in Seq(Messages) : told = Heard(ToolMessages(results)) BY <1>1
  <2>3. PICK tool \in OpenAIMessages : tool = OpenAI("tool", <<>>, <<x>>) BY ToolMessagesMore
  <2>4. PICK new \in Messages : new = HeardOne(tool) BY HeardHolds
  <2>5. Heard(ToolMessages(results \o <<x>>)) = told \o <<new>>
    <3>1. ToolMessages(results \o <<x>>) = ToolMessages(results) \o <<tool>>
      BY <2>3, ToolMessagesMore
    <3>2. ToolMessages(results) \in Seq(OpenAIMessages) BY ToolMessagesOf
    <3> QED BY <3>1, <3>2, <2>2, <2>4, HeardMore
  <2>6. PICK mid \in Seq(Messages) : mid = After(results) BY <1>1
  <2>7. After(results \o <<x>>) = mid \o <<new>>
    <3>1. (before \o told) \o <<new>> = before \o (told \o <<new>>) BY MessagesExtended
    <3> QED BY <3>1, <2>2, <2>5, <2>6
  <2>8. PICK one \in Messages, more \in Messages :
             one = User(results) /\ more = User(results \o <<x>>)
    BY <1>2, <2>1
  <2>9. /\ one.role = "user" /\ more.role = "user"
        /\ one.blocks = Each("result", results)
        /\ more.blocks = Each("result", results \o <<x>>)
    BY <1>2, <2>1, <2>8
  <2>10. tool.role = "tool" /\ tool.texts = <<>> /\ tool.calls = <<x>> BY <2>3 DEF OpenAI
  <2>11. /\ new.role = "user"
         /\ Holding(new.blocks, "text") = <<>> /\ Holding(new.blocks, "call") = <<>>
         /\ Holding(new.blocks, "result") = <<x>>
    BY <2>4, <2>10, HeardHolds
  <2>12. \A some \in Seq(Nat) : /\ Holding(Each("result", some), "result") = some
                                /\ Holding(Each("result", some), "text") = <<>>
                                /\ Holding(Each("result", some), "call") = <<>>
    BY EachHolds DEF Kinds
  <2>13. \A kind \in SaidKinds : Holding(more.blocks, kind)
           = Holding(one.blocks, kind) \o Holding(new.blocks, kind)
    <3>1. <<>> \o <<>> = <<>> OBVIOUS
    <3>2. /\ Holding(more.blocks, "result") = results \o <<x>>
          /\ Holding(one.blocks, "result") = results
          /\ Holding(more.blocks, "text") = <<>> /\ Holding(one.blocks, "text") = <<>>
          /\ Holding(more.blocks, "call") = <<>> /\ Holding(one.blocks, "call") = <<>>
      BY <2>1, <2>9, <2>12
    <3> QED BY <3>1, <3>2, <2>11 DEF SaidKinds
  <2>14. SaysMore(before, mid, one) BY <1>4, <2>6, <2>8
  <2>15. PICK after \in Seq(Messages) : after = mid \o <<new>> BY Extended
  <2>16. SaysMore(mid, after, new) BY <2>15, SaysOneMore
  <2> HIDE DEF After, User, S
  <2>17. SaysBoth(more, one, new) BY <2>9, <2>11, <2>13 DEF SaysBoth
  <2>18. SaysMore(before, after, more) BY <2>14, <2>16, <2>17, SaysInTwo
  <2> QED BY <2>1, <2>7, <2>8, <2>15, <2>18 DEF S
<1>5. \A results \in Seq(Nat) : results \in S
  <2> HIDE DEF S
  <2> QED BY <1>3, <1>4, SeqInduction
<1> QED BY <1>1, <1>5

\* A message with no block on the wrong side.
RightSides(message) ==
    \A j \in 1..Len(message.blocks) :
        /\ message.role = "user" => message.blocks[j].kind # "call"
        /\ message.role = "assistant" => message.blocks[j].kind # "result"

\* A dialogue that is not refused has no block on the wrong side.
LEMMA NotRefused ==
  ASSUME NEW messages \in Seq(Messages), ~Refusable(messages)
  PROVE  \A i \in 1..Len(messages) : RightSides(messages[i])
<1> SUFFICES ASSUME NEW i \in 1..Len(messages) PROVE RightSides(messages[i]) OBVIOUS
<1>1. messages[i] \in Messages /\ i \in DOMAIN messages OBVIOUS
<1>2. messages[i].blocks \in Seq(Blocks) BY <1>1 DEF Messages
<1>3. DOMAIN messages[i].blocks = 1..Len(messages[i].blocks) BY <1>2
<1> SUFFICES ASSUME NEW j \in 1..Len(messages[i].blocks)
             PROVE  /\ messages[i].role = "user" => messages[i].blocks[j].kind # "call"
                    /\ messages[i].role = "assistant" => messages[i].blocks[j].kind # "result"
  BY DEF RightSides
<1>4. ~(/\ messages[i].role # "system"
        /\ messages[i].blocks[j].kind
             \in {"image", IF messages[i].role = "user" THEN "call" ELSE "result"})
  BY <1>1, <1>3 DEF Refusable
<1> QED BY <1>4

\* A message with no block on the wrong side holds nothing of its kind.
LEMMA AcceptedHolds ==
  ASSUME NEW message \in Messages, RightSides(message)
  PROVE  /\ message.role = "user" => Holding(message.blocks, "call") = <<>>
         /\ message.role = "assistant" => Holding(message.blocks, "result") = <<>>
<1>1. message.blocks \in Seq(Blocks) BY DEF Messages
<1> QED BY <1>1, HoldingOf DEF RightSides

\* A user's message, translated, says what it said.
LEMMA UserSaid ==
  ASSUME NEW before \in Seq(Messages), NEW message \in Messages, message.role = "user",
         RightSides(message)
  PROVE  /\ Heard(FromUser(message)) \in Seq(Messages)
         /\ SaysMore(before, before \o Heard(FromUser(message)), message)
<1>1. PICK results \in Seq(Nat), texts \in Seq(Nat) :
           /\ results = Holding(message.blocks, "result")
           /\ texts = Holding(message.blocks, "text")
  <2>1. message.blocks \in Seq(Blocks) BY DEF Messages
  <2> QED BY <2>1, HoldingOf
<1>2. PICK rest \in Seq(OpenAIMessages) :
           /\ FromUser(message) = ToolMessages(results) \o rest
           /\ texts = <<>> => rest = <<>>
           /\ texts # <<>> => rest = <<OpenAI("user", texts, <<>>)>>
  BY <1>1, FromUserOf
<1>3. PICK tools \in Seq(OpenAIMessages) : tools = ToolMessages(results) BY ToolMessagesOf
<1>4. PICK told \in Seq(Messages) : told = Heard(tools) BY HeardOf
<1>5. PICK mid \in Seq(Messages) : mid = before \o told BY MessagesExtended
<1>6. PICK one \in Messages : one = Anthropic("user", Each("result", results))
  <2>1. Each("result", results) \in Seq(Blocks) BY EachOf DEF Kinds
  <2> QED BY <2>1 DEF Anthropic, Messages
<1>7. SaysMore(before, mid, one) BY <1>3, <1>4, <1>5, <1>6, ResultsSaid
<1>8. PICK new \in OpenAIMessages : /\ new = OpenAI("user", texts, <<>>)
                                    /\ new.role = "user" /\ new.texts = texts
                                    /\ new.calls = <<>>
  <2>1. OpenAI("user", texts, <<>>) \in OpenAIMessages
    BY EmptySeq DEF OpenAI, OpenAIMessages
  <2>2. /\ OpenAI("user", texts, <<>>).role = "user"
        /\ OpenAI("user", texts, <<>>).texts = texts
        /\ OpenAI("user", texts, <<>>).calls = <<>>
    BY DEF OpenAI
  <2> QED BY <2>1, <2>2
<1>9. PICK other \in Messages : other = HeardOne(new) BY HeardHolds
<1>10. one.role = "user" /\ one.blocks = Each("result", results) BY <1>6 DEF Anthropic
<1>11. /\ other.role = "user"
       /\ Holding(other.blocks, "result") = <<>>
       /\ Holding(other.blocks, "text") = texts
       /\ Holding(other.blocks, "call") = <<>>
  BY <1>8, <1>9, HeardHolds
<1>12. SaysBoth(message, one, other)
  <2>1. Holding(message.blocks, "call") = <<>> BY AcceptedHolds
  <2>2. /\ Holding(one.blocks, "result") = results
        /\ Holding(one.blocks, "text") = <<>>
        /\ Holding(one.blocks, "call") = <<>>
    BY <1>10, EachHolds DEF Kinds
  <2>3. results \o <<>> = results /\ <<>> \o texts = texts /\ <<>> \o <<>> = <<>>
    BY ConcatEmptySeq
  <2>4. ASSUME NEW kind \in SaidKinds
        PROVE  Holding(message.blocks, kind)
                 = Holding(one.blocks, kind) \o Holding(other.blocks, kind)
    <3>1. CASE kind = "text" BY <3>1, <2>2, <2>3, <1>1, <1>11
    <3>2. CASE kind = "result" BY <3>2, <2>2, <2>3, <1>1, <1>11
    <3>3. CASE kind = "call" BY <3>3, <2>1, <2>2, <2>3, <1>11
    <3> QED BY <3>1, <3>2, <3>3 DEF SaidKinds
  <2> QED BY <2>4, <1>10, <1>11 DEF SaysBoth
<1>13. Heard(FromUser(message)) = told \o Heard(rest)
  <2>1. Heard(tools \o rest) = Heard(tools) \o Heard(rest) BY HeardJoined
  <2> QED BY <2>1, <1>2, <1>3, <1>4
<1>14. CASE texts = <<>>
  <2>1. Heard(FromUser(message)) = told
    BY <1>2, <1>13, <1>14, HeardFew, ConcatEmptySeq
  <2>2. \A kind \in SaidKinds : Holding(other.blocks, kind) = <<>>
    BY <1>11, <1>14 DEF SaidKinds
  <2>3. SaysMore(mid, mid, other) BY <2>2, <1>11, SaysNothing
  <2>4. SaysMore(before, mid, message) BY <2>3, <1>7, <1>12, SaysInTwo
  <2> QED BY <2>1, <2>4, <1>5
<1>15. CASE texts # <<>>
  <2>1. Heard(rest) = <<other>> BY <1>2, <1>8, <1>9, <1>15, HeardFew
  <2>2. Heard(FromUser(message)) = told \o <<other>> BY <2>1, <1>13
  <2>3. before \o (told \o <<other>>) = mid \o <<other>> BY <1>5, MessagesExtended
  <2>4. PICK after \in Seq(Messages) : after = mid \o <<other>> BY Extended
  <2>5. SaysMore(mid, after, other) BY <2>4, SaysOneMore
  <2>6. SaysMore(before, after, message) BY <2>5, <1>7, <1>12, SaysInTwo
  <2>7. told \o <<other>> \in Seq(Messages) BY Extended
  <2> QED BY <2>2, <2>3, <2>4, <2>6, <2>7
<1> QED BY <1>14, <1>15

\* So does an assistant's.
LEMMA AssistantSaid ==
  ASSUME NEW before \in Seq(Messages), NEW message \in Messages, message.role = "assistant",
         RightSides(message)
  PROVE  /\ Heard(FromMessage(message)) \in Seq(Messages)
         /\ SaysMore(before, before \o Heard(FromMessage(message)), message)
<1>1. PICK calls \in Seq(Nat), texts \in Seq(Nat) :
           /\ calls = Holding(message.blocks, "call")
           /\ texts = Holding(message.blocks, "text")
  <2>1. message.blocks \in Seq(Blocks) BY DEF Messages
  <2> QED BY <2>1, HoldingOf
<1>2. PICK new \in OpenAIMessages : new = OpenAI("assistant", texts, calls)
  BY DEF OpenAI, OpenAIMessages
<1>3. new.role = "assistant" /\ new.texts = texts /\ new.calls = calls BY <1>2 DEF OpenAI
<1>4. PICK one \in Messages : one = HeardOne(new) BY HeardHolds
<1>5. Heard(FromMessage(message)) = <<one>>
  <2>1. FromMessage(message) = <<new>> BY <1>1, <1>2, FromMessageOf
  <2> QED BY <2>1, <1>4, HeardFew
<1>6. Holding(message.blocks, "result") = <<>> BY AcceptedHolds
<1>7. /\ one.role = "assistant"
      /\ Holding(one.blocks, "text") = texts
      /\ Holding(one.blocks, "call") = calls
      /\ Holding(one.blocks, "result") = <<>>
  BY <1>3, <1>4, HeardHolds
<1>8. \A kind \in SaidKinds : Holding(one.blocks, kind) = Holding(message.blocks, kind)
  BY <1>1, <1>6, <1>7 DEF SaidKinds
<1>9. PICK after \in Seq(Messages) : after = before \o <<one>> BY Extended
<1>10. SaysMore(before, after, one) BY <1>9, SaysOneMore
<1>11. SaysMore(before, after, message) BY <1>7, <1>8, <1>10, SaysSame
<1>12. <<one>> \in Seq(Messages) OBVIOUS
<1> QED BY <1>5, <1>9, <1>11, <1>12

\* And what a message of either becomes for an Anthropic upstream, or for none.
LEMMA BlocksSaid ==
  ASSUME NEW before \in Seq(Messages), NEW message \in OpenAIMessages,
         message.role # "system",
         message.role = "user" => message.calls = <<>>,
         message.role = "tool" => message.texts = <<>>
  PROVE  SaysMore(before, before \o ToMessage(message), HeardOne(message))
<1>1. /\ message.role \in {"user", "assistant", "tool"}
      /\ message.texts \in Seq(Nat) /\ message.calls \in Seq(Nat)
  BY DEF OpenAIMessages
<1>2. PICK heard \in Messages : heard = HeardOne(message) BY HeardHolds
<1>3. PICK one \in Messages :
        /\ ToMessage(message) = <<one>> /\ one.role = heard.role
        /\ \A kind \in SaidKinds : Holding(one.blocks, kind) = Holding(heard.blocks, kind)
  <2>1. CASE message.role = "user"
    <3>1. PICK one \in Messages : one = Anthropic("user", TextBlock(message.texts))
      <4>1. TextBlock(message.texts) \in Seq(Blocks) BY <1>1, TextBlockHolds
      <4> QED BY <4>1 DEF Anthropic, Messages
    <3>2. one.role = "user" /\ one.blocks = TextBlock(message.texts) BY <3>1 DEF Anthropic
    <3>3. ToMessage(message) = <<one>> BY <2>1, <3>1, ToMessageOf
    <3>4. heard.role = "user" BY <2>1, <1>2, HeardHolds
    <3>5. \A kind \in SaidKinds : Holding(one.blocks, kind) = Holding(heard.blocks, kind)
      <4>1. /\ Holding(one.blocks, "text") = message.texts
            /\ Holding(one.blocks, "call") = <<>> /\ Holding(one.blocks, "result") = <<>>
        BY <3>2, <1>1, TextBlockHolds
      <4>2. /\ Holding(heard.blocks, "text") = message.texts
            /\ Holding(heard.blocks, "call") = <<>> /\ Holding(heard.blocks, "result") = <<>>
        BY <2>1, <1>2, HeardHolds
      <4> QED BY <4>1, <4>2 DEF SaidKinds
    <3> QED BY <3>2, <3>3, <3>4, <3>5
  <2>2. CASE message.role = "tool"
    <3>1. PICK block \in Blocks : /\ block = Block("result", message.calls)
                                  /\ block.kind = "result" /\ block.pieces = message.calls
      BY <1>1, BlockIs DEF Kinds
    <3>2. PICK one \in Messages : one = Anthropic("user", <<block>>)
      <4>1. <<block>> \in Seq(Blocks) OBVIOUS
      <4> QED BY <4>1 DEF Anthropic, Messages
    <3>3. one.role = "user" /\ one.blocks = <<block>> BY <3>2 DEF Anthropic
    <3>4. ToMessage(message) = <<one>> BY <2>2, <3>1, <3>2, ToMessageOf
    <3>5. heard.role = "user" BY <2>2, <1>2, HeardHolds
    <3>6. \A kind \in SaidKinds : Holding(one.blocks, kind) = Holding(heard.blocks, kind)
      <4>1. /\ Holding(one.blocks, "result") = message.calls
            /\ Holding(one.blocks, "call") = <<>> /\ Holding(one.blocks, "text") = <<>>
        BY <3>1, <3>3, HoldingOf
      <4>2. /\ Holding(heard.blocks, "result") = message.calls
            /\ Holding(heard.blocks, "call") = <<>> /\ Holding(heard.blocks, "text") = <<>>
        BY <2>2, <1>2, HeardHolds
      <4> QED BY <4>1, <4>2 DEF SaidKinds
    <3> QED BY <3>3, <3>4, <3>5, <3>6
  <2>3. CASE message.role = "assistant"
    <3>1. PICK one \in Messages :
            one = Anthropic("assistant", AssistantBlocks(message.texts, message.calls))
      <4>1. AssistantBlocks(message.texts, message.calls) \in Seq(Blocks)
        BY <1>1, AssistantBlocksHold
      <4> QED BY <4>1 DEF Anthropic, Messages
    <3>2. /\ one.role = "assistant"
          /\ one.blocks = AssistantBlocks(message.texts, message.calls)
      BY <3>1 DEF Anthropic
    <3>3. ToMessage(message) = <<one>> BY <2>3, <3>1, ToMessageOf
    <3>4. heard.role = "assistant" BY <2>3, <1>2, HeardHolds
    <3>5. \A kind \in SaidKinds : Holding(one.blocks, kind) = Holding(heard.blocks, kind)
      <4>1. /\ Holding(one.blocks, "text") = message.texts
            /\ Holding(one.blocks, "call") = message.calls
            /\ Holding(one.blocks, "result") = <<>>
        BY <3>2, <1>1, AssistantBlocksHold
      <4>2. /\ Holding(heard.blocks, "text") = message.texts
            /\ Holding(heard.blocks, "call") = message.calls
            /\ Holding(heard.blocks, "result") = <<>>
        BY <2>3, <1>2, HeardHolds
      <4> QED BY <4>1, <4>2 DEF SaidKinds
    <3> QED BY <3>2, <3>3, <3>4, <3>5
  <2> QED BY <1>1, <2>1, <2>2, <2>3
<1>4. PICK after \in Seq(Messages) : after = before \o <<one>> BY Extended
<1>5. SaysMore(before, after, one) BY <1>4, SaysOneMore
<1>6. SaysMore(before, after, heard) BY <1>3, <1>5, SaysSame
<1> QED BY <1>2, <1>3, <1>4, <1>6

-----------------------------------------------------------------------------
(* Whole dialogues *)

\* Messages say the same as others: each role in each turn, and in as many turns.
SaysTheSame(messages, others) ==
    /\ TurnAfter(messages) = TurnAfter(others)
    /\ \A role \in Roles, kind \in SaidKinds, n \in Nat :
         Said(messages, role, kind, n) = Said(others, role, kind, n)

\* Messages are like others that say the same, but for system messages, those of the start.
SaysAll(messages, others, start) ==
    /\ TurnAfter(messages) = TurnAfter(others)
    /\ \A role \in Roles \ {"system"}, kind \in SaidKinds, n \in Nat :
         Said(messages, role, kind, n) = Said(others, role, kind, n)
    /\ \A kind \in SaidKinds, n \in Nat :
         Said(messages, "system", kind, n) = Said(start, "system", kind, n)

\* Messages that say the same still do when both are continued by the same.
LEMMA SaysAllMore ==
  ASSUME NEW a \in Seq(Messages), NEW b \in Seq(Messages), NEW after \in Seq(Messages),
         NEW start \in Seq(Messages), NEW message \in Messages, message.role # "system",
         SaysAll(a, b, start), SaysMore(a, after, message)
  PROVE  SaysAll(after, b \o <<message>>, start)
<1>1. SaysMore(b, b \o <<message>>, message) BY SaysOneMore
<1>2. TurnAfter(a) = TurnAfter(b) BY DEF SaysAll
<1>3. TurnAfter(after) = TurnAfter(b \o <<message>>) BY <1>1, <1>2 DEF SaysMore
<1>4. ASSUME NEW role \in Roles \ {"system"}, NEW kind \in SaidKinds, NEW n \in Nat
      PROVE  Said(after, role, kind, n) = Said(b \o <<message>>, role, kind, n)
  <2>1. role \in Roles OBVIOUS
  <2>2. Said(after, role, kind, n)
          = Said(a, role, kind, n) \o TurnPiece(message, TurnAfter(a), role, kind, n)
    BY <2>1 DEF SaysMore
  <2>3. Said(b \o <<message>>, role, kind, n)
          = Said(b, role, kind, n) \o TurnPiece(message, TurnAfter(b), role, kind, n)
    BY <2>1, <1>1 DEF SaysMore
  <2>4. Said(a, role, kind, n) = Said(b, role, kind, n) BY DEF SaysAll
  <2> QED BY <1>2, <2>2, <2>3, <2>4
<1>5. ASSUME NEW kind \in SaidKinds, NEW n \in Nat
      PROVE  Said(after, "system", kind, n) = Said(start, "system", kind, n)
  <2>1. Said(after, "system", kind, n)
          = Said(a, "system", kind, n) \o TurnPiece(message, TurnAfter(a), "system", kind, n)
    BY DEF SaysMore, Roles
  <2>2. TurnPiece(message, TurnAfter(a), "system", kind, n) = <<>> BY DEF TurnPiece
  <2>3. Said(a, "system", kind, n) \in Seq(Nat) BY SaidTypes
  <2>4. Said(a, "system", kind, n) = Said(start, "system", kind, n) BY DEF SaysAll
  <2> QED BY <2>1, <2>2, <2>3, <2>4, ConcatEmptySeq
<1> QED BY <1>3, <1>4, <1>5 DEF SaysAll

\* A system message is of no other turn.
LEMMA SaysAllSystem ==
  ASSUME NEW a \in Seq(Messages), NEW b \in Seq(Messages),
         NEW start \in Seq(Messages), NEW message \in Messages, message.role = "system",
         SaysAll(a, b, start)
  PROVE  SaysAll(a, b \o <<message>>, start)
<1>1. SaysMore(b, b \o <<message>>, message) BY SaysOneMore
<1>2. TurnAfter(a) = TurnAfter(b \o <<message>>) BY <1>1 DEF SaysMore, SaysAll
<1>3. ASSUME NEW role \in Roles \ {"system"}, NEW kind \in SaidKinds, NEW n \in Nat
      PROVE  Said(a, role, kind, n) = Said(b \o <<message>>, role, kind, n)
  <2>1. role \in Roles OBVIOUS
  <2>2. Said(b \o <<message>>, role, kind, n)
          = Said(b, role, kind, n) \o TurnPiece(message, TurnAfter(b), role, kind, n)
    BY <2>1, <1>1 DEF SaysMore
  <2>3. TurnPiece(message, TurnAfter(b), role, kind, n) = <<>> BY DEF TurnPiece
  <2>4. Said(b, role, kind, n) \in Seq(Nat) BY SaidTypes
  <2>5. Said(a, role, kind, n) = Said(b, role, kind, n) BY DEF SaysAll
  <2> QED BY <2>2, <2>3, <2>4, <2>5, ConcatEmptySeq
<1> QED BY <1>2, <1>3 DEF SaysAll

\* What messages of a client become, one by one: a turn F says what R reads it as, a system
\* message's texts are T's.  G has the messages of which that is so.
Translates(M, G, R, F, T) ==
    /\ R \in [M -> Messages] /\ F \in [M -> Seq(Messages)] /\ T \in [M -> Seq(Nat)]
    /\ \A message \in M : message \in G =>
         /\ R[message].role = "system" =>
              /\ F[message] = <<>>
              /\ T[message] = Holding(R[message].blocks, "text")
              /\ Holding(R[message].blocks, "call") = <<>>
              /\ Holding(R[message].blocks, "result") = <<>>
         /\ R[message].role # "system" =>
              /\ T[message] = <<>>
              /\ \A before \in Seq(Messages) :
                   SaysMore(before, before \o F[message], R[message])

\* A dialogue, read.
Reading(R, d) == [i \in DOMAIN d |-> R[d[i]]]

\* A dialogue read, of no message and of one more.
LEMMA ReadingMore ==
  ASSUME NEW M, NEW R \in [M -> Messages]
  PROVE  /\ Reading(R, <<>>) = <<>>
         /\ \A d \in Seq(M) : Reading(R, d) \in Seq(Messages)
         /\ \A d \in Seq(M), message \in M :
              Reading(R, d \o <<message>>) = Reading(R, d) \o <<R[message]>>
<1>1. Reading(R, <<>>) = <<>> BY DEF Reading
<1>2. \A d \in Seq(M) : Reading(R, d) \in Seq(Messages) BY Mapped DEF Reading
<1>3. \A d \in Seq(M), message \in M :
        Reading(R, d \o <<message>>) = Reading(R, d) \o <<R[message]>>
  BY MappedMore DEF Reading
<1> QED BY <1>1, <1>2, <1>3

\* The turns of a dialogue, translated behind a system prompt, say what the dialogue says.
LEMMA TurnsSaid ==
  ASSUME NEW M, NEW G, NEW R, NEW F, NEW T, Translates(M, G, R, F, T),
         NEW start \in Seq(Messages), TurnAfter(start) = 0,
         \A role \in Roles \ {"system"}, kind \in SaidKinds, n \in Nat :
           Said(start, role, kind, n) = <<>>
  PROVE  \A d \in Seq(M) : (\A i \in 1..Len(d) : d[i] \in G) =>
           SaysAll(start \o Through(F, d), Reading(R, d), start)
<1> DEFINE S == {d \in Seq(M) : (\A i \in 1..Len(d) : d[i] \in G) =>
                                   SaysAll(start \o Through(F, d), Reading(R, d), start)}
<1>1. /\ R \in [M -> Messages] /\ F \in [M -> Seq(Messages)] BY DEF Translates
<1>2. <<>> \in S
  <2>1. Through(F, <<>>) = <<>> /\ Reading(R, <<>>) = <<>> BY <1>1, ThroughNone, ReadingMore
  <2>2. start \o <<>> = start BY ConcatEmptySeq
  <2>3. SaysAll(start, <<>>, start) BY SaidOfNone DEF SaysAll
  <2> QED BY <2>1, <2>2, <2>3, EmptySeq
<1>3. ASSUME NEW d \in Seq(M), NEW message \in M, d \in S
      PROVE  d \o <<message>> \in S
  <2>1. /\ d \o <<message>> \in Seq(M)
        /\ Len(d \o <<message>>) = Len(d) + 1
        /\ \A i \in 1..Len(d) : (d \o <<message>>)[i] = d[i]
        /\ (d \o <<message>>)[Len(d) + 1] = message
    BY Extended
  <2> SUFFICES ASSUME \A i \in 1..Len(d \o <<message>>) : (d \o <<message>>)[i] \in G
               PROVE  SaysAll(start \o Through(F, d \o <<message>>),
                              Reading(R, d \o <<message>>), start)
    BY <2>1
  <2>2. \A i \in 1..Len(d) : d[i] \in G
    <3> SUFFICES ASSUME NEW i \in 1..Len(d) PROVE d[i] \in G OBVIOUS
    <3>1. i \in 1..Len(d \o <<message>>) BY <2>1
    <3> QED BY <3>1, <2>1
  <2>3. message \in G
    <3>1. Len(d) + 1 \in 1..Len(d \o <<message>>) BY <2>1
    <3> QED BY <3>1, <2>1
  <2>4. SaysAll(start \o Through(F, d), Reading(R, d), start) BY <1>3, <2>2
  <2>5. PICK back \in Seq(Messages), new \in Seq(Messages), read \in Seq(Messages) :
          back = Through(F, d) /\ new = F[message] /\ read = Reading(R, d)
    BY <1>1, ThroughType, ReadingMore
  <2>6. Through(F, d \o <<message>>) = back \o new BY <1>1, <2>5, ThroughMore
  <2>7. PICK one \in Messages : one = R[message] BY <1>1
  <2>8. Reading(R, d \o <<message>>) = read \o <<one>> BY <1>1, <2>5, <2>7, ReadingMore
  <2>9. PICK a \in Seq(Messages) : a = start \o back BY MessagesExtended
  <2>10. start \o (back \o new) = a \o new BY <2>9, ConcatAssociative, SMTT(30)
  <2>11. SaysAll(a, read, start) BY <2>4, <2>5, <2>9
  <2>12. CASE one.role = "system"
    <3>1. new = <<>> BY <2>3, <2>5, <2>7, <2>12 DEF Translates
    <3>2. a \o new = a BY <3>1, ConcatEmptySeq
    <3>3. SaysAll(a, read \o <<one>>, start) BY <2>11, <2>12, SaysAllSystem
    <3> QED BY <3>2, <3>3, <2>6, <2>8, <2>10
  <2>13. CASE one.role # "system"
    <3>1. SaysMore(a, a \o new, one) BY <2>3, <2>5, <2>7, <2>13 DEF Translates
    <3>2. PICK after \in Seq(Messages) : after = a \o new BY MessagesExtended
    <3>3. SaysMore(a, after, one) BY <3>1, <3>2
    <3>4. SaysAll(after, read \o <<one>>, start) BY <3>3, <2>11, <2>13, SaysAllMore
    <3> QED BY <3>2, <3>4, <2>6, <2>8, <2>10
  <2> QED BY <2>12, <2>13
<1>4. \A d \in Seq(M) : d \in S
  <2> HIDE DEF S
  <2> QED BY <1>2, <1>3, SeqInduction
<1> QED BY <1>4

\* The system messages of a dialogue say the system's texts, and nothing else.
LEMMA SystemsSaid ==
  ASSUME NEW M, NEW G, NEW R, NEW F, NEW T, Translates(M, G, R, F, T), NEW n \in Nat
  PROVE  \A d \in Seq(M) : (\A i \in 1..Len(d) : d[i] \in G) =>
           /\ Said(Reading(R, d), "system", "text", n) = Through(T, d)
           /\ Said(Reading(R, d), "system", "call", n) = <<>>
           /\ Said(Reading(R, d), "system", "result", n) = <<>>
<1> DEFINE Says(d) == /\ Said(Reading(R, d), "system", "text", n) = Through(T, d)
                      /\ Said(Reading(R, d), "system", "call", n) = <<>>
                      /\ Said(Reading(R, d), "system", "result", n) = <<>>
           S == {d \in Seq(M) : (\A i \in 1..Len(d) : d[i] \in G) => Says(d)}
<1>1. R \in [M -> Messages] /\ T \in [M -> Seq(Nat)] BY DEF Translates
<1>5. \A d \in Seq(M), message \in M :
        Through(T, d \o <<message>>) = Through(T, d) \o T[message]
  <2> HIDE DEF Says, S
  <2> QED BY <1>1, ThroughMore
<1>2. <<>> \in S
  <2>1. Through(T, <<>>) = <<>> /\ Reading(R, <<>>) = <<>> BY <1>1, ThroughNone, ReadingMore
  <2> QED BY <2>1, SaidOfNone, EmptySeq
<1>3. ASSUME NEW d \in Seq(M), NEW message \in M, d \in S
      PROVE  d \o <<message>> \in S
  <2>1. PICK more \in Seq(M) : /\ more = d \o <<message>> /\ Len(more) = Len(d) + 1
                               /\ \A i \in 1..Len(d) : more[i] = d[i]
                               /\ more[Len(d) + 1] = message
    BY Extended
  <2> SUFFICES ASSUME \A i \in 1..Len(more) : more[i] \in G PROVE Says(more) BY <2>1
  <2>2. \A i \in 1..Len(d) : d[i] \in G
    <3> SUFFICES ASSUME NEW i \in 1..Len(d) PROVE d[i] \in G OBVIOUS
    <3>1. i \in 1..Len(more) BY <2>1
    <3> QED BY <3>1, <2>1
  <2>3. message \in G
    <3>1. Len(d) + 1 \in 1..Len(more) BY <2>1
    <3> QED BY <3>1, <2>1
  <2>4. Says(d) BY <1>3, <2>2
  <2>5. Through(T, more) = Through(T, d) \o T[message] BY <1>5, <2>1
  <2>6. PICK one \in Messages, read \in Seq(Messages) : one = R[message] /\ read = Reading(R, d)
    BY <1>1, ReadingMore
  <2>7. Reading(R, more) = read \o <<one>> BY <1>1, <2>1, <2>6, ReadingMore
  <2>8. \A kind : Said(read \o <<one>>, "system", kind, n)
          = Said(read, "system", kind, n) \o TurnPiece(one, TurnAfter(read), "system", kind, n)
    BY SaidMore
  <2>9. /\ TurnPiece(one, TurnAfter(read), "system", "text", n) = T[message]
        /\ TurnPiece(one, TurnAfter(read), "system", "call", n) = <<>>
        /\ TurnPiece(one, TurnAfter(read), "system", "result", n) = <<>>
    <3>1. CASE one.role = "system"
      <4>1. /\ T[message] = Holding(one.blocks, "text")
            /\ Holding(one.blocks, "call") = <<>> /\ Holding(one.blocks, "result") = <<>>
        BY <2>3, <2>6, <3>1 DEF Translates
      <4> QED BY <3>1, <4>1 DEF TurnPiece
    <3>2. CASE one.role # "system"
      <4>1. T[message] = <<>> BY <2>3, <2>6, <3>2 DEF Translates
      <4> QED BY <3>2, <4>1 DEF TurnPiece
    <3> QED BY <3>1, <3>2
  <2>10. <<>> \o <<>> = <<>> OBVIOUS
  <2> QED BY <2>4, <2>5, <2>6, <2>7, <2>8, <2>9, <2>10
<1>4. \A d \in Seq(M) : d \in S
  <2> HIDE DEF S
  <2> QED BY <1>2, <1>3, SeqInduction
<1> QED BY <1>4

\* A request's beginning: it says the system's texts, and nothing else.
Prompts(start, system) ==
    /\ start \in Seq(Messages)
    /\ TurnAfter(start) = 0
    /\ \A role \in Roles \ {"system"}, kind \in SaidKinds, n \in Nat :
         Said(start, role, kind, n) = <<>>
    /\ \A n \in Nat : /\ Said(start, "system", "text", n) = system
                      /\ Said(start, "system", "call", n) = <<>>
                      /\ Said(start, "system", "result", n) = <<>>

\* A dialogue's turns, translated behind its system texts, say all it says, each turn in its
\* place, and no more.
LEMMA NothingLost ==
  ASSUME NEW M, NEW G, NEW R, NEW F, NEW T, Translates(M, G, R, F, T),
         NEW d \in Seq(M), \A i \in 1..Len(d) : d[i] \in G,
         NEW start, Prompts(start, Through(T, d))
  PROVE  SaysTheSame(start \o Through(F, d), Reading(R, d))
<1>1. /\ start \in Seq(Messages) /\ TurnAfter(start) = 0
      /\ \A role \in Roles \ {"system"}, kind \in SaidKinds, n \in Nat :
           Said(start, role, kind, n) = <<>>
  BY DEF Prompts
<1>2. SaysAll(start \o Through(F, d), Reading(R, d), start) BY <1>1, TurnsSaid
<1>3. ASSUME NEW kind \in SaidKinds, NEW n \in Nat
      PROVE  Said(start, "system", kind, n) = Said(Reading(R, d), "system", kind, n)
  <2>1. /\ Said(start, "system", "text", n) = Through(T, d)
        /\ Said(start, "system", "call", n) = <<>>
        /\ Said(start, "system", "result", n) = <<>>
    BY DEF Prompts
  <2>2. /\ Said(Reading(R, d), "system", "text", n) = Through(T, d)
        /\ Said(Reading(R, d), "system", "call", n) = <<>>
        /\ Said(Reading(R, d), "system", "result", n) = <<>>
    BY SystemsSaid
  <2> QED BY <2>1, <2>2 DEF SaidKinds
<1>4. PICK whole, read : whole = start \o Through(F, d) /\ read = Reading(R, d) OBVIOUS
<1>5. ASSUME NEW role \in Roles, NEW kind \in SaidKinds, NEW n \in Nat
      PROVE  Said(whole, role, kind, n) = Said(read, role, kind, n)
  <2>1. CASE role = "system" BY <2>1, <1>2, <1>3, <1>4 DEF SaysAll
  <2>2. CASE role # "system" BY <2>2, <1>2, <1>4 DEF SaysAll
  <2> QED BY <2>1, <2>2
<1>6. TurnAfter(whole) = TurnAfter(read) BY <1>2, <1>4 DEF SaysAll
<1> QED BY <1>4, <1>5, <1>6 DEF SaysTheSame

\* One system message that holds the system's texts and nothing else begins a request.
LEMMA MessagePrompts ==
  ASSUME NEW system \in Seq(Nat), NEW message \in Messages, message.role = "system",
         Holding(message.blocks, "text") = system,
         Holding(message.blocks, "call") = <<>>, Holding(message.blocks, "result") = <<>>
  PROVE  Prompts(<<message>>, system)
<1>1. PICK none \in Seq(Messages) : none = <<>> BY EmptySeq
<1>2. PICK start \in Seq(Messages) : start = none \o <<message>> BY Extended
<1>3. start = <<message>>
  <2>1. <<>> \o <<message>> = <<message>> OBVIOUS
  <2> QED BY <2>1, <1>1, <1>2
<1>4. TurnAfter(none) = 0 /\ \A role, kind, n : Said(none, role, kind, n) = <<>>
  BY <1>1, SaidOfNone
<1>5. TurnAfter(start) = 0 BY <1>2, <1>4, AnswersOf
<1>6. ASSUME NEW role, NEW kind, NEW n
      PROVE  Said(start, role, kind, n) = <<>> \o TurnPiece(message, 0, role, kind, n)
  <2>1. Said(none \o <<message>>, role, kind, n)
          = Said(none, role, kind, n) \o TurnPiece(message, TurnAfter(none), role, kind, n)
    BY SaidMore, ZenonT(30)
  <2> QED BY <2>1, <1>2, <1>4
<1>7. \A role, kind, n : Said(start, role, kind, n) = TurnPiece(message, 0, role, kind, n)
  BY <1>6, SaidTypes, ConcatEmptySeq
<1>8. \A role \in Roles \ {"system"} : \A kind, n : TurnPiece(message, 0, role, kind, n) = <<>>
  BY DEF TurnPiece
<1>9. \A n \in Nat : /\ TurnPiece(message, 0, "system", "text", n) = system
                     /\ TurnPiece(message, 0, "system", "call", n) = <<>>
                     /\ TurnPiece(message, 0, "system", "result", n) = <<>>
  BY DEF TurnPiece
<1>10. Prompts(start, system) BY <1>5, <1>7, <1>8, <1>9 DEF Prompts
<1> QED BY <1>3, <1>10

\* So does no message, if there are no such texts.
LEMMA NonePrompts == Prompts(<<>>, <<>>)
  BY SaidOfNone, EmptySeq DEF Prompts

\* The system prompt begins a request to an Anthropic upstream.
LEMMA PromptPrompts ==
  ASSUME NEW system \in Seq(Nat)
  PROVE  Prompts(Prompt(system), system)
<1>1. CASE system = <<>> BY <1>1, NonePrompts DEF Prompt
<1>2. CASE system # <<>>
  <2>1. PICK message \in Messages : message = Anthropic("system", TextBlock(system))
    <3>1. TextBlock(system) \in Seq(Blocks) BY TextBlockHolds
    <3> QED BY <3>1 DEF Anthropic, Messages
  <2>2. message.role = "system" /\ message.blocks = TextBlock(system) BY <2>1 DEF Anthropic
  <2>3. Prompt(system) = <<message>> BY <1>2, <2>1 DEF Prompt
  <2>4. Prompts(<<message>>, system) BY <2>2, TextBlockHolds, MessagePrompts
  <2> QED BY <2>3, <2>4
<1> QED BY <1>1, <1>2

\* And the preamble one to an OpenAI-compatible upstream.
LEMMA PreamblePrompts ==
  ASSUME NEW system \in Seq(Nat)
  PROVE  Prompts(Heard(Preamble(system)), system)
<1>1. CASE system = <<>>
  <2>1. Preamble(system) = <<>> BY <1>1 DEF Preamble
  <2> QED BY <1>1, <2>1, HeardFew, NonePrompts
<1>2. CASE system # <<>>
  <2>1. OpenAI("system", system, <<>>) \in OpenAIMessages
    BY EmptySeq DEF OpenAI, OpenAIMessages
  <2>2. PICK message \in OpenAIMessages : message = OpenAI("system", system, <<>>) BY <2>1
  <2>3. message.role = "system" /\ message.texts = system /\ message.calls = <<>>
    BY <2>2 DEF OpenAI
  <2>4. PICK heard \in Messages : heard = HeardOne(message) BY HeardHolds
  <2>5. Heard(Preamble(system)) = <<heard>>
    <3>1. Preamble(system) = <<message>> BY <1>2, <2>2 DEF Preamble
    <3> QED BY <3>1, <2>4, HeardFew
  <2>6. /\ heard.role = "system" /\ Holding(heard.blocks, "text") = system
        /\ Holding(heard.blocks, "call") = <<>> /\ Holding(heard.blocks, "result") = <<>>
    BY <2>3, <2>4, HeardHolds
  <2> QED BY <2>5, <2>6, MessagePrompts
<1> QED BY <1>1, <1>2

-----------------------------------------------------------------------------
(* What each upstream is sent *)

OneText(message) == \E x \in Nat : message.blocks = <<Block("text", <<x>>)>>

\* Messages a client of /v1/messages is not refused, and those of a client of chat.
WellFormed == {message \in Messages : /\ RightSides(message)
                                      /\ message.role = "system" => OneText(message)}
ChatMessages == {message \in OpenAIMessages :
    /\ message.role \in {"system", "user"} => message.calls = <<>>
    /\ message.role = "tool" => message.texts = <<>>}

Same == [message \in Messages |-> message]
FromHeard == [message \in Messages |-> Heard(FromMessage(message))]
LeftInPlace ==
    [message \in Messages |-> IF message.role = "system" THEN <<>> ELSE <<message>>]

\* A message that is one text holds nothing else.
LEMMA OneTextHolds ==
  ASSUME NEW message \in Messages, OneText(message)
  PROVE  Holding(message.blocks, "call") = <<>> /\ Holding(message.blocks, "result") = <<>>
<1>1. PICK x \in Nat : message.blocks = <<Block("text", <<x>>)>> BY DEF OneText
<1>2. Block("text", <<x>>) \in Blocks /\ Block("text", <<x>>).kind = "text"
  BY DEF Block, Blocks, Kinds
<1> QED BY <1>1, <1>2, HoldingOf

\* A dialogue that goes on as clients lead it, and is not refused.
LEMMA AllAccepted ==
  ASSUME NEW d \in Seq(Messages), Alternates(d), ~Refusable(d)
  PROVE  \A i \in 1..Len(d) : d[i] \in WellFormed
<1> SUFFICES ASSUME NEW i \in 1..Len(d) PROVE d[i] \in WellFormed OBVIOUS
<1>1. d[i] \in Messages OBVIOUS
<1>2. RightSides(d[i]) BY NotRefused
<1>3. d[i].role = "system" => OneText(d[i]) BY DEF Alternates, InPlace, OneText
<1> QED BY <1>1, <1>2, <1>3 DEF WellFormed

\* A dialogue read as it is.
LEMMA SameIs ==
  /\ Same \in [Messages -> Messages]
  /\ \A message \in Messages : Same[message] = message
  /\ \A d \in Seq(Messages) : Reading(Same, d) = d
<1>1. Same \in [Messages -> Messages] /\ \A message \in Messages : Same[message] = message
  BY DEF Same
<1> SUFFICES ASSUME NEW d \in Seq(Messages) PROVE Reading(Same, d) = d BY <1>1
<1>2. \A i \in DOMAIN d : Same[d[i]] = d[i] BY <1>1
<1>3. Reading(Same, d) = [i \in DOMAIN d |-> d[i]] BY <1>2 DEF Reading
<1> QED BY <1>3

\* The texts of a system message, and none of another.
LEMMA SystemsInAre ==
  ASSUME NEW message \in Messages
  PROVE  /\ message.role = "system" =>
              SystemsIn[message] = Holding(message.blocks, "text")
         /\ message.role # "system" => SystemsIn[message] = <<>>
BY DEF SystemsIn, SystemIn

\* from_anthropic_request's messages say what the client's do.
LEMMA FromTranslates == Translates(Messages, WellFormed, Same, FromHeard, SystemsIn)
<1>1. \A message \in Messages : Heard(FromMessage(message)) \in Seq(Messages)
  BY FromMessageOf, HeardOf
<1>2. FromHeard \in [Messages -> Seq(Messages)] BY <1>1 DEF FromHeard
<1>3. ASSUME NEW message \in Messages, message \in WellFormed
      PROVE  /\ message.role = "system" =>
                  /\ FromHeard[message] = <<>>
                  /\ SystemsIn[message] = Holding(message.blocks, "text")
                  /\ Holding(message.blocks, "call") = <<>>
                  /\ Holding(message.blocks, "result") = <<>>
             /\ message.role # "system" =>
                  /\ SystemsIn[message] = <<>>
                  /\ \A before \in Seq(Messages) :
                       SaysMore(before, before \o FromHeard[message], message)
  <2>1. RightSides(message) /\ (message.role = "system" => OneText(message))
    BY <1>3 DEF WellFormed
  <2>2. FromHeard[message] = Heard(FromMessage(message)) BY DEF FromHeard
  <2>3. message.role \in {"system", "user", "assistant"} BY DEF Messages
  <2>4. CASE message.role = "system"
    <3>1. FromMessage(message) = <<>> BY <2>4, FromMessageOf
    <3>2. FromHeard[message] = <<>> BY <2>2, <3>1, HeardFew
    <3> QED BY <2>1, <2>4, <3>2, OneTextHolds, SystemsInAre
  <2>5. CASE message.role = "user"
    <3>1. FromMessage(message) = FromUser(message) BY <2>5, FromMessageOf
    <3>2. \A before \in Seq(Messages) : SaysMore(before, before \o FromHeard[message], message)
      BY <2>1, <2>2, <2>5, <3>1, UserSaid
    <3> QED BY <2>5, <3>2, SystemsInAre
  <2>6. CASE message.role = "assistant"
    <3>1. \A before \in Seq(Messages) : SaysMore(before, before \o FromHeard[message], message)
      BY <2>1, <2>2, <2>6, AssistantSaid
    <3> QED BY <2>6, <3>1, SystemsInAre
  <2> QED BY <2>3, <2>4, <2>5, <2>6
<1> QED BY <1>2, <1>3, FromTypes, SameIs DEF Translates

\* So do the client's own, with the system messages hoisted out of them.
LEMMA InPlaceTranslates == Translates(Messages, WellFormed, Same, LeftInPlace, SystemsIn)
<1>1. \A message \in Messages : <<>> \in Seq(Messages) /\ <<message>> \in Seq(Messages)
  BY EmptySeq
<1>2. LeftInPlace \in [Messages -> Seq(Messages)] BY <1>1 DEF LeftInPlace
<1>3. ASSUME NEW message \in Messages, message \in WellFormed
      PROVE  /\ message.role = "system" =>
                  /\ LeftInPlace[message] = <<>>
                  /\ SystemsIn[message] = Holding(message.blocks, "text")
                  /\ Holding(message.blocks, "call") = <<>>
                  /\ Holding(message.blocks, "result") = <<>>
             /\ message.role # "system" =>
                  /\ SystemsIn[message] = <<>>
                  /\ \A before \in Seq(Messages) :
                       SaysMore(before, before \o LeftInPlace[message], message)
  <2>1. message.role = "system" => OneText(message) BY <1>3 DEF WellFormed
  <2>2. CASE message.role = "system"
    <3>1. LeftInPlace[message] = <<>> BY <2>2 DEF LeftInPlace
    <3> QED BY <2>1, <2>2, <3>1, OneTextHolds, SystemsInAre
  <2>3. CASE message.role # "system"
    <3>1. LeftInPlace[message] = <<message>> BY <2>3 DEF LeftInPlace
    <3>2. \A before \in Seq(Messages) : SaysMore(before, before \o LeftInPlace[message], message)
      BY <3>1, SaysOneMore
    <3> QED BY <2>3, <3>2, SystemsInAre
  <2> QED BY <2>2, <2>3
<1> QED BY <1>2, <1>3, FromTypes, SameIs DEF Translates

\* And to_anthropic_params's messages those of a chat client.
LEMMA ToTranslates ==
  Translates(OpenAIMessages, ChatMessages, HeardOnes, ToMessages, SystemTexts)
<1>1. ASSUME NEW message \in OpenAIMessages, message \in ChatMessages
      PROVE  LET heard == HeardOnes[message] IN
             /\ heard.role = "system" =>
                  /\ ToMessages[message] = <<>>
                  /\ SystemTexts[message] = Holding(heard.blocks, "text")
                  /\ Holding(heard.blocks, "call") = <<>>
                  /\ Holding(heard.blocks, "result") = <<>>
             /\ heard.role # "system" =>
                  /\ SystemTexts[message] = <<>>
                  /\ \A before \in Seq(Messages) :
                       SaysMore(before, before \o ToMessages[message], heard)
  <2>1. PICK heard \in Messages : heard = HeardOne(message) /\ heard = HeardOnes[message]
    BY HeardHolds
  <2>2. /\ message.role \in {"system", "user"} => message.calls = <<>>
        /\ message.role = "tool" => message.texts = <<>>
    BY <1>1 DEF ChatMessages
  <2>3. ToMessages[message] = ToMessage(message) BY ToMessageOf
  <2>4. CASE message.role = "system"
    <3>1. ToMessages[message] = <<>> BY <2>4, ToMessageOf
    <3>2. SystemTexts[message] = message.texts BY <2>4 DEF SystemTexts
    <3>3. /\ heard.role = "system" /\ Holding(heard.blocks, "text") = message.texts
          /\ Holding(heard.blocks, "call") = message.calls
          /\ Holding(heard.blocks, "result") = <<>>
      BY <2>1, <2>4, HeardHolds
    <3> QED BY <2>1, <2>2, <2>4, <3>1, <3>2, <3>3
  <2>5. CASE message.role # "system"
    <3>1. SystemTexts[message] = <<>> BY <2>5 DEF SystemTexts
    <3>2. heard.role # "system" BY <2>1, <2>5, HeardHolds
    <3>3. \A before \in Seq(Messages) : SaysMore(before, before \o ToMessages[message], heard)
      BY <2>1, <2>2, <2>3, <2>5, BlocksSaid
    <3> QED BY <2>1, <3>1, <3>2, <3>3
  <2> QED BY <2>4, <2>5
<1> QED BY <1>1, HeardOf, ToTypes DEF Translates

\* What becomes of a dialogue is heard message by message.
LEMMA FromHeardOf ==
  /\ FromHeard \in [Messages -> Seq(Messages)]
  /\ \A d \in Seq(Messages) : Heard(Through(FromMessages, d)) = Through(FromHeard, d)
<1>1. FromHeard \in [Messages -> Seq(Messages)] BY FromTranslates DEF Translates
<1> DEFINE S == {d \in Seq(Messages) : Heard(Through(FromMessages, d)) = Through(FromHeard, d)}
<1>2. <<>> \in S BY ThroughNone, HeardFew, EmptySeq
<1>3. ASSUME NEW d \in Seq(Messages), NEW message \in Messages, d \in S
      PROVE  d \o <<message>> \in S
  <2>1. PICK t \in Seq(OpenAIMessages), u \in Seq(OpenAIMessages) :
          t = Through(FromMessages, d) /\ u = FromMessage(message) /\ u = FromMessages[message]
    BY FromTypes, ThroughType, FromMessageOf
  <2>2. Through(FromMessages, d \o <<message>>) = t \o u BY <2>1, FromTypes, ThroughMore
  <2>3. Through(FromHeard, d \o <<message>>) = Through(FromHeard, d) \o FromHeard[message]
    BY <1>1, ThroughMore
  <2>4. FromHeard[message] = Heard(u) BY <2>1 DEF FromHeard
  <2>5. Heard(t \o u) = Heard(t) \o Heard(u) BY HeardJoined
  <2>6. Heard(t) = Through(FromHeard, d) BY <1>3, <2>1
  <2>7. d \o <<message>> \in Seq(Messages) BY Extended
  <2> QED BY <2>2, <2>3, <2>4, <2>5, <2>6, <2>7
<1>4. \A d \in Seq(Messages) : d \in S
  <2> HIDE DEF S
  <2> QED BY <1>2, <1>3, SeqInduction
<1> QED BY <1>1, <1>4

\* An OpenAI-compatible upstream hears all of a /v1/messages dialogue, each turn in its place.
LEMMA FromAnthropicSays ==
  ASSUME NEW d \in Seq(Messages), Alternates(d), ~Refusable(d)
  PROVE  SaysTheSame(Heard(FromAnthropic(d)), d)
<1>1. PICK system \in Seq(Nat) : system = Through(SystemsIn, d) BY FromTypes, ThroughType
<1>2. PICK preamble \in Seq(OpenAIMessages), turns \in Seq(OpenAIMessages) :
        preamble = Preamble(system) /\ turns = Through(FromMessages, d)
  BY PreambleOf, FromTypes, ThroughType
<1>3. FromAnthropic(d) = preamble \o turns BY <1>1, <1>2, FromAnthropicOf
<1>4. Heard(FromAnthropic(d)) = Heard(preamble) \o Through(FromHeard, d)
  BY <1>2, <1>3, HeardJoined, FromHeardOf
<1>5. Prompts(Heard(preamble), Through(SystemsIn, d)) BY <1>1, <1>2, PreamblePrompts
<1>6. \A i \in 1..Len(d) : d[i] \in WellFormed BY AllAccepted
<1>7. SaysTheSame(Heard(preamble) \o Through(FromHeard, d), Reading(Same, d))
  BY <1>5, <1>6, FromTranslates, NothingLost
<1> QED BY <1>4, <1>7, SameIs

\* The body an Anthropic upstream is sent, in terms of Through.
LEMMA HoistedOf ==
  ASSUME NEW d \in Seq(Messages)
  PROVE  /\ Hoisted(d) = Prompt(Through(SystemsIn, d)) \o Through(LeftInPlace, d)
         /\ Hoisted(d) \in Seq(Messages)
<1>1. \A i \in DOMAIN d : d[i] \in Messages OBVIOUS
<1>2. [i \in DOMAIN d |-> SystemIn(d[i])] = [i \in DOMAIN d |-> SystemsIn[d[i]]]
  BY <1>1, SystemInOf
<1>3. [i \in DOMAIN d |-> IF d[i].role = "system" THEN <<>> ELSE <<d[i]>>]
        = [i \in DOMAIN d |-> LeftInPlace[d[i]]]
  BY <1>1 DEF LeftInPlace
<1>4. Hoisted(d) = Prompt(Through(SystemsIn, d)) \o Through(LeftInPlace, d)
  BY <1>2, <1>3 DEF Hoisted, Through, Prompt
<1>5. LeftInPlace \in [Messages -> Seq(Messages)] BY InPlaceTranslates DEF Translates
<1>6. Through(LeftInPlace, d) \in Seq(Messages) BY <1>5, ThroughType
<1>7. Through(SystemsIn, d) \in Seq(Nat) BY FromTypes, ThroughType
<1>8. Prompt(Through(SystemsIn, d)) \in Seq(Messages) BY <1>7, PromptPrompts DEF Prompts
<1> QED BY <1>4, <1>6, <1>8, MessagesExtended

\* An Anthropic upstream gets all of a /v1/messages dialogue.
LEMMA HoistedSays ==
  ASSUME NEW d \in Seq(Messages), Alternates(d), ~Refusable(d)
  PROVE  SaysTheSame(Hoisted(d), d)
<1>1. Through(SystemsIn, d) \in Seq(Nat) BY FromTypes, ThroughType
<1>2. Prompts(Prompt(Through(SystemsIn, d)), Through(SystemsIn, d)) BY <1>1, PromptPrompts
<1>3. \A i \in 1..Len(d) : d[i] \in WellFormed BY AllAccepted
<1>4. SaysTheSame(Prompt(Through(SystemsIn, d)) \o Through(LeftInPlace, d), Reading(Same, d))
  BY <1>2, <1>3, InPlaceTranslates, NothingLost
<1> QED BY <1>4, HoistedOf, SameIs

\* An Anthropic upstream gets all of a chat dialogue.
LEMMA ToAnthropicSays ==
  ASSUME NEW d \in Seq(OpenAIMessages), \A i \in 1..Len(d) : d[i] \in ChatMessages
  PROVE  SaysTheSame(ToAnthropic(d), Heard(d)) /\ ToAnthropic(d) \in Seq(Messages)
<1>1. PICK system \in Seq(Nat), turns \in Seq(Messages) :
        system = Through(SystemTexts, d) /\ turns = Through(ToMessages, d)
  BY ToTypes, ThroughType
<1>2. Prompts(Prompt(system), system) BY PromptPrompts
<1>3. ToAnthropic(d) = Prompt(system) \o turns BY <1>1, ToAnthropicOf
<1>4. Heard(d) = Reading(HeardOnes, d) BY HeardOf DEF Reading
<1>5. Prompts(Prompt(system), Through(SystemTexts, d)) BY <1>1, <1>2
<1>6. SaysTheSame(Prompt(system) \o Through(ToMessages, d), Reading(HeardOnes, d))
  BY <1>5, ToTranslates, NothingLost
<1>7. Prompt(system) \in Seq(Messages) BY <1>2 DEF Prompts
<1>8. ToAnthropic(d) \in Seq(Messages) BY <1>3, <1>7, MessagesExtended
<1> QED BY <1>1, <1>3, <1>4, <1>6, <1>8

\* The last answer of a dialogue holds what the upstream answered.
AnswerKept(messages, blocks) ==
    \A i \in 1..Len(messages) :
        messages[i].role = "assistant"
          /\ (\A k \in (i + 1)..Len(messages) : messages[k].role # "assistant") =>
            \A kind \in {"text", "call"} :
               Holding(messages[i].blocks, kind) = Holding(blocks, kind)

TranslationTypes ==
    /\ turn \in {"client", "gateway", "upstream", "answer"}
    /\ api \in {"messages", "chat"} /\ to \in {"openai", "anthropic"}
    /\ made \in Nat
    /\ api = "messages" => dialogue \in Seq(Messages)
    /\ api = "chat" => dialogue \in Seq(ChatMessages)
    /\ to = "openai" => asked \in Seq(OpenAIMessages)
    /\ to = "anthropic" => asked \in Seq(Messages)
    /\ answer \in Seq(Blocks) /\ Len(answer) <= AnswerBlocks

\* Who spoke last.
Spoken ==
    /\ turn = "client" =>
         dialogue = <<>> \/ dialogue[Len(dialogue)].role = "assistant"
    /\ api = "messages" /\ turn # "client" =>
         Len(dialogue) > 0 /\ dialogue[Len(dialogue)].role = "user"
    /\ turn = "gateway" => made >= 2

\* What the upstream is sent is made of the dialogue.
Sent ==
    turn = "upstream" => /\ api = "messages" => ~Refusable(dialogue)
                         /\ asked = Request(to)

TranslationInductive ==
    /\ TranslationTypes
    /\ api = "messages" => Alternates(dialogue)
    /\ Spoken
    /\ Sent
    /\ api = "messages" /\ turn \in {"client", "gateway"} => AnswerKept(dialogue, answer)
    /\ api = "chat" /\ turn = "client" => AnswerKept(Heard(dialogue), answer)

-----------------------------------------------------------------------------
(* The steps of a conversation *)

\* The last answer stays the last when the client or the system speaks.
LEMMA AnswerKeptMore ==
  ASSUME NEW d \in Seq(Messages), NEW message \in Messages, NEW blocks,
         message.role # "assistant", AnswerKept(d, blocks)
  PROVE  AnswerKept(d \o <<message>>, blocks)
<1>1. PICK more \in Seq(Messages) :
        /\ more = d \o <<message>>
        /\ Len(more) = Len(d) + 1
        /\ \A i \in 1..Len(d) : more[i] = d[i]
        /\ more[Len(d) + 1] = message
  BY Extended
<1> SUFFICES ASSUME NEW i \in 1..Len(more), more[i].role = "assistant",
                    \A k \in (i + 1)..Len(more) : more[k].role # "assistant",
                    NEW kind \in {"text", "call"}
             PROVE  Holding(more[i].blocks, kind) = Holding(blocks, kind)
  BY <1>1 DEF AnswerKept
<1>2. i \in 1..Len(d) /\ more[i] = d[i] BY <1>1
<1>3. \A k \in (i + 1)..Len(d) : d[k].role # "assistant"
  <2> SUFFICES ASSUME NEW k \in (i + 1)..Len(d) PROVE d[k].role # "assistant" OBVIOUS
  <2>1. k \in (i + 1)..Len(more) /\ k \in 1..Len(d) BY <1>1, <1>2
  <2> QED BY <2>1, <1>1
<1> QED BY <1>2, <1>3 DEF AnswerKept

\* A new answer is the last one.
LEMMA AnswerKeptNow ==
  ASSUME NEW d \in Seq(Messages), NEW message \in Messages, NEW blocks,
         message.role = "assistant",
         \A kind \in {"text", "call"} : Holding(message.blocks, kind) = Holding(blocks, kind)
  PROVE  AnswerKept(d \o <<message>>, blocks)
<1>1. PICK more \in Seq(Messages) :
        /\ more = d \o <<message>>
        /\ Len(more) = Len(d) + 1
        /\ more[Len(d) + 1] = message
  BY Extended
<1> SUFFICES ASSUME NEW i \in 1..Len(more), more[i].role = "assistant",
                    \A k \in (i + 1)..Len(more) : more[k].role # "assistant",
                    NEW kind \in {"text", "call"}
             PROVE  Holding(more[i].blocks, kind) = Holding(blocks, kind)
  BY <1>1 DEF AnswerKept
<1>2. i = Len(d) + 1
  <2>1. CASE i <= Len(d)
    <3>1. Len(d) + 1 \in (i + 1)..Len(more) BY <2>1, <1>1
    <3> QED BY <3>1, <1>1
  <2> QED BY <2>1, <1>1
<1> QED BY <1>1, <1>2

\* A dialogue that alternates did so from its beginning.
LEMMA AlternatesPrefix ==
  ASSUME NEW d \in Seq(Messages), Alternates(d), NEW e \in Seq(Messages), Len(e) <= Len(d),
         \A i \in 1..Len(e) : e[i] = d[i]
  PROVE  Alternates(e)
<1> SUFFICES ASSUME NEW i \in 1..Len(e) PROVE InPlace(e, i) BY DEF Alternates
<1>1. i \in 1..Len(d) OBVIOUS
<1>2. InPlace(d, i) BY <1>1 DEF Alternates
<1>3. e[i] = d[i] OBVIOUS
<1>4. i > 1 => e[i - 1] = d[i - 1]
  <2> SUFFICES ASSUME i > 1 PROVE e[i - 1] = d[i - 1] OBVIOUS
  <2>1. i - 1 \in 1..Len(e) OBVIOUS
  <2> QED BY <2>1
<1>5. PICK before : before = Before(d, i) OBVIOUS
<1>6. Before(e, i) = before BY <1>4, <1>5 DEF Before
<1>7. before # 0 => e[before] = d[before]
  <2>1. before \in 0..(i - 1) BY <1>5 DEF Before
  <2>2. before # 0 => before \in 1..Len(e) BY <2>1
  <2> QED BY <2>2
<1>8. e[i].role = "system" =>
        /\ i = 1 \/ e[i - 1].role = "assistant"
        /\ \E x \in Nat : e[i].blocks = <<Block("text", <<x>>)>>
  BY <1>2, <1>3, <1>4 DEF InPlace
<1>9. e[i].role = "assistant" => i > 1 /\ e[i - 1].role = "user"
  BY <1>2, <1>3, <1>4 DEF InPlace
<1>10. e[i].role = "user" /\ before = 0 => Holding(e[i].blocks, "result") = <<>>
  BY <1>2, <1>3, <1>5 DEF InPlace
<1>11. e[i].role = "user" /\ before # 0 =>
         LET results == Holding(e[i].blocks, "result")
             calls == Holding(e[before].blocks, "call")
         IN  /\ e[before].role = "assistant"
             /\ ToSet(results) = ToSet(calls) /\ Len(results) = Len(calls)
  BY <1>2, <1>3, <1>5, <1>7 DEF InPlace
<1> QED BY <1>6, <1>8, <1>9, <1>10, <1>11 DEF InPlace

\* A part of a sequence.
LEMMA PartOf ==
  ASSUME NEW A, NEW s \in Seq(A), NEW m \in 1..(Len(s) + 1), NEW n \in (m - 1)..Len(s)
  PROVE  /\ SubSeq(s, m, n) \in Seq(A)
         /\ Len(SubSeq(s, m, n)) = n - m + 1
         /\ \A i \in 1..(n - m + 1) : SubSeq(s, m, n)[i] = s[m + i - 1]
<1>1. \A i \in m..n : s[i] \in A OBVIOUS
<1> QED BY <1>1, SubSeqProperties

\* Where the last answer stands.
LEMMA LastAnswerIs ==
  ASSUME NEW d \in Seq(Messages), NEW n,
         n = SelectLastInSeq(d, LAMBDA m : m.role = "assistant")
  PROVE  /\ n \in 0..Len(d)
         /\ n > 0 => d[n].role = "assistant"
         /\ \A k \in (n + 1)..Len(d) : d[k].role # "assistant"
<1> DEFINE I == {i \in 1..Len(d) : d[i].role = "assistant"}
<1>1. n = IF I # {} THEN Max(I) ELSE 0 BY DEF SelectLastInSeq
<1>2. /\ n \in 0..Len(d)
      /\ n > 0 => d[n].role = "assistant"
      /\ \A k \in (n + 1)..Len(d) : d[k].role # "assistant"
  <2>1. CASE I = {} BY <2>1, <1>1
  <2>2. CASE I # {}
    <3>1. I \subseteq Int /\ \A x \in I : x <= Len(d) /\ Len(d) \in Int OBVIOUS
    <3>2. Max(I) \in I /\ \A x \in I : x <= Max(I) BY <3>1, <2>2, GreatestOf
    <3>3. n = Max(I) BY <1>1, <2>2
    <3>4. n \in I BY <3>2, <3>3
    <3>5. n \in 1..Len(d) /\ d[n].role = "assistant" BY <3>4
    <3>6. ASSUME NEW k \in (n + 1)..Len(d) PROVE d[k].role # "assistant"
      <4>1. CASE d[k].role = "assistant"
        <5>1. k \in I BY <4>1, <3>5
        <5>2. k <= n BY <5>1, <3>2, <3>3
        <5> QED BY <5>2, <3>5
      <4> QED BY <4>1
    <3> QED BY <3>5, <3>6
  <2> QED BY <2>1, <2>2
<1> HIDE DEF I
<1> QED BY <1>2

\* Back to the last answer, a dialogue is as it was then.
LEMMA TakenBack ==
  ASSUME NEW d \in Seq(Messages), Alternates(d), NEW blocks, AnswerKept(d, blocks),
         NEW n \in 0..Len(d), n > 0 => d[n].role = "assistant",
         \A k \in (n + 1)..Len(d) : d[k].role # "assistant",
         NEW e, e = SubSeq(d, 1, n)
  PROVE  /\ e \in Seq(Messages) /\ Alternates(e) /\ AnswerKept(e, blocks)
         /\ e = <<>> \/ e[Len(e)].role = "assistant"
<1>3. /\ e \in Seq(Messages) /\ Len(e) = n
      /\ \A i \in 1..n : e[i] = d[i]
  <2>1. 1 \in 1..(Len(d) + 1) /\ n \in (1 - 1)..Len(d) OBVIOUS
  <2>2. e \in Seq(Messages) /\ Len(e) = n - 1 + 1 BY <2>1, PartOf
  <2>3. \A i \in 1..(n - 1 + 1) : e[i] = d[1 + i - 1] BY <2>1, PartOf
  <2> QED BY <2>2, <2>3
<1>4. Alternates(e)
  <2>1. e \in Seq(Messages) /\ Len(e) <= Len(d) BY <1>3
  <2>2. \A i \in 1..Len(e) : e[i] = d[i] BY <1>3
  <2> QED BY <2>1, <2>2, AlternatesPrefix
<1>5. AnswerKept(e, blocks)
  <2> SUFFICES ASSUME NEW i \in 1..Len(e), e[i].role = "assistant",
                      \A k \in (i + 1)..Len(e) : e[k].role # "assistant",
                      NEW kind \in {"text", "call"}
               PROVE  Holding(e[i].blocks, kind) = Holding(blocks, kind)
    BY DEF AnswerKept
  <2>1. i \in 1..Len(d) /\ e[i] = d[i] BY <1>3
  <2>2. \A k \in (i + 1)..Len(d) : d[k].role # "assistant"
    <3> SUFFICES ASSUME NEW k \in (i + 1)..Len(d) PROVE d[k].role # "assistant" OBVIOUS
    <3>1. CASE k <= n
      <4>1. k \in (i + 1)..Len(e) /\ k \in 1..n BY <3>1, <1>3
      <4> QED BY <4>1, <1>3
    <3>2. CASE k > n
      <4>1. k \in (n + 1)..Len(d) BY <3>2
      <4> QED BY <4>1
    <3> QED BY <3>1, <3>2
  <2> QED BY <2>1, <2>2 DEF AnswerKept
<1>6. e = <<>> \/ e[Len(e)].role = "assistant"
  <2>1. CASE n = 0 BY <2>1, <1>3, EmptySeq
  <2>2. CASE n > 0 BY <2>2, <1>3
  <2> QED BY <2>1, <2>2
<1> QED BY <1>3, <1>4, <1>5, <1>6

\* The blocks of a client's turn.
TurnBlocks(results, at, kind, x) ==
    IF kind = "none" THEN Each("result", results)
    ELSE InsertAt(Each("result", results), at, Block(kind, <<x>>))

\* The results of a client's turn are all in its blocks, in the order they came in.
LEMMA TurnBlocksHold ==
  ASSUME NEW results \in Seq(Nat), NEW at \in 1..(Len(results) + 1), NEW x \in Nat,
         NEW kind \in {"text", "image", "call", "none"}
  PROVE  /\ TurnBlocks(results, at, kind, x) \in Seq(Blocks)
         /\ Holding(TurnBlocks(results, at, kind, x), "result") = results
<1>1. PICK blocks \in Seq(Blocks) : /\ blocks = Each("result", results)
                                    /\ Len(blocks) = Len(results)
  BY EachOf DEF Kinds
<1>2. Holding(blocks, "result") = results
  <2>1. "result" \in Kinds /\ "text" \in Kinds BY DEF Kinds
  <2> QED BY <2>1, <1>1, EachHolds
<1>3. CASE kind = "none" BY <1>1, <1>2, <1>3 DEF TurnBlocks
<1>4. CASE kind # "none"
  <2>0. /\ Block(kind, <<x>>) \in Blocks /\ Block(kind, <<x>>).kind = kind
        /\ kind # "result"
    BY <1>4 DEF Block, Blocks, Kinds
  <2>1. PICK said \in Blocks : said = Block(kind, <<x>>) /\ said.kind # "result"
    BY <2>0
  <2>2. PICK one \in Seq(Blocks) : one = SubSeq(blocks, 1, at - 1)
    <3>1. 1 \in 1..(Len(blocks) + 1) /\ at - 1 \in (1 - 1)..Len(blocks) BY <1>1
    <3>2. SubSeq(blocks, 1, at - 1) \in Seq(Blocks) BY <3>1, PartOf
    <3> QED BY <3>2
  <2>3. PICK rest \in Seq(Blocks) : rest = SubSeq(blocks, at, Len(blocks))
    <3>1. at \in 1..(Len(blocks) + 1) /\ Len(blocks) \in (at - 1)..Len(blocks) BY <1>1
    <3>2. SubSeq(blocks, at, Len(blocks)) \in Seq(Blocks) BY <3>1, PartOf
    <3> QED BY <3>2
  <2>4. blocks = one \o rest
    <3>1. /\ Len(one) = at - 1 /\ Len(rest) = Len(blocks) - at + 1
          /\ \A i \in 1..(at - 1) : one[i] = blocks[i]
          /\ \A i \in 1..(Len(blocks) - at + 1) : rest[i] = blocks[at + i - 1]
      BY <2>2, <2>3, <1>1
    <3>2. /\ one \o rest \in Seq(Blocks)
          /\ Len(one \o rest) = Len(one) + Len(rest)
          /\ \A i \in 1..Len(one) : (one \o rest)[i] = one[i]
          /\ \A i \in 1..Len(rest) : (one \o rest)[Len(one) + i] = rest[i]
      BY Joined
    <3>3. PICK both \in Seq(Blocks) : both = one \o rest BY <3>2
    <3>4. Len(both) = Len(blocks) BY <3>1, <3>2, <3>3
    <3>5. ASSUME NEW i \in 1..Len(blocks) PROVE blocks[i] = both[i]
      <4>1. CASE i < at BY <4>1, <3>1, <3>2, <3>3
      <4>2. CASE i >= at
        <5>1. PICK j \in 1..Len(rest) : i = Len(one) + j /\ i = at + j - 1
          <6>1. i - Len(one) \in 1..Len(rest) BY <4>2, <3>1, <1>1
          <6> QED BY <6>1, <3>1
        <5>2. both[i] = rest[j] BY <5>1, <3>2, <3>3
        <5>3. rest[j] = blocks[at + j - 1] BY <5>1, <3>1
        <5> QED BY <5>1, <5>2, <5>3
      <4> QED BY <4>1, <4>2
    <3>6. blocks = both BY <3>4, <3>5, SeqEqual
    <3> QED BY <3>3, <3>6
  <2>5. PICK some \in Seq(Blocks) : some = one \o <<said>> BY Extended
  <2>6. PICK all \in Seq(Blocks) : all = some \o rest BY Joined
  <2>7. TurnBlocks(results, at, kind, x) = all
    BY <1>1, <1>4, <2>1, <2>2, <2>3, <2>5, <2>6 DEF TurnBlocks, InsertAt
  <2>8. <<said>> \in Seq(Blocks) OBVIOUS
  <2>9. Holding(one \o <<said>>, "result") = Holding(one, "result") \o Holding(<<said>>, "result")
    BY <2>8, HoldingOf
  <2>10. Holding(<<said>>, "result") = <<>> BY <2>1, HoldingOf
  <2>11. Holding(one, "result") \in Seq(Nat) BY HoldingOf
  <2>12. Holding(some, "result") = Holding(one, "result")
    BY <2>5, <2>9, <2>10, <2>11, ConcatEmptySeq
  <2>13. Holding(some \o rest, "result") = Holding(some, "result") \o Holding(rest, "result")
    BY HoldingOf
  <2>14. Holding(one \o rest, "result") = Holding(one, "result") \o Holding(rest, "result")
    BY HoldingOf
  <2>15. Holding(all, "result") = results BY <2>4, <2>6, <2>12, <2>13, <2>14, <1>2
  <2> QED BY <2>7, <2>15
<1> QED BY <1>3, <1>4

\* A message added to others.
LEMMA MessageAdded ==
  ASSUME NEW d \in Seq(Messages), NEW message \in Messages
  PROVE  \E more \in Seq(Messages) :
           /\ more = d \o <<message>>
           /\ Len(more) = Len(d) + 1
           /\ \A i \in 1..Len(d) : more[i] = d[i]
           /\ more[Len(d) + 1] = message
BY Extended

\* A user's message that answers the calls before it is in its place.
LEMMA AnswersInPlace ==
  ASSUME NEW messages, NEW n, NEW before, before # 0, Before(messages, n) = before,
         messages[n].role = "user", messages[before].role = "assistant",
         NEW results, results = Holding(messages[n].blocks, "result"),
         NEW calls, calls = Holding(messages[before].blocks, "call"),
         ToSet(results) = ToSet(calls), Len(results) = Len(calls)
  PROVE  InPlace(messages, n)
BY DEF InPlace

PromptAfter(d, mid) ==
    \E prompt \in Messages : prompt.role = "system" /\ mid = d \o <<prompt>>

\* What a client says in its turn is in its place.
LEMMA TurnTaken ==
  ASSUME NEW d \in Seq(Messages), Alternates(d),
         d = <<>> \/ d[Len(d)].role = "assistant",
         NEW calls, d = <<>> => calls = <<>>,
         d # <<>> => calls = Holding(d[Len(d)].blocks, "call"),
         NEW message \in Messages, message.role = "user",
         NEW results, results = Holding(message.blocks, "result"),
         ToSet(results) = ToSet(calls), Len(results) = Len(calls),
         NEW mid \in Seq(Messages), Alternates(mid),
         mid = d \/ PromptAfter(d, mid)
  PROVE  Alternates(mid \o <<message>>)
<1>1. PICK more \in Seq(Messages) :
        /\ more = mid \o <<message>>
        /\ Len(more) = Len(mid) + 1
        /\ \A i \in 1..Len(mid) : more[i] = mid[i]
        /\ more[Len(mid) + 1] = message
  BY MessageAdded
<1>2. /\ Before(more, Len(mid) + 1) = Len(d)
      /\ Len(d) > 0 => more[Len(d)] = d[Len(d)]
  <2>1. CASE mid = d BY <2>1, <1>1 DEF Before
  <2>2. CASE mid # d
    <3>1. PICK prompt \in Messages : prompt.role = "system" /\ mid = d \o <<prompt>>
      BY <2>2 DEF PromptAfter
    <3>2. /\ Len(mid) = Len(d) + 1
          /\ \A i \in 1..Len(d) : mid[i] = d[i]
          /\ mid[Len(d) + 1] = prompt
      BY <3>1, Extended
    <3>3. more[Len(mid)] = prompt /\ Len(mid) > 0 BY <3>2, <1>1
    <3>4. Before(more, Len(mid) + 1) = Len(d) BY <3>1, <3>2, <3>3 DEF Before
    <3>5. Len(d) > 0 => more[Len(d)] = d[Len(d)] BY <3>2, <1>1
    <3> QED BY <3>4, <3>5
  <2> QED BY <2>1, <2>2
<1>3. CASE Len(d) = 0
  <2>1. d = <<>> BY <1>3
  <2>2. calls = <<>> BY <2>1
  <2>3. Len(results) = 0 BY <2>2
  <2>4. message.blocks \in Seq(Blocks) BY DEF Messages
  <2>5. results \in Seq(Nat) BY <2>4, HoldingOf
  <2>6. results = <<>> BY <2>3, <2>5
  <2>7. InPlace(more, Len(mid) + 1) BY <1>1, <1>2, <1>3, <2>6 DEF InPlace
  <2> QED BY <1>1, <2>7, AlternatesMore
<1>4. CASE Len(d) > 0
  <2>1. d # <<>> BY <1>4
  <2>2. d[Len(d)].role = "assistant" BY <2>1
  <2>3. calls = Holding(d[Len(d)].blocks, "call") BY <2>1
  <2>4. more[Len(d)].role = "assistant" /\ calls = Holding(more[Len(d)].blocks, "call")
    BY <1>2, <1>4, <2>2, <2>3
  <2>5. more[Len(mid) + 1].role = "user" /\ results = Holding(more[Len(mid) + 1].blocks, "result")
    BY <1>1
  <2>6. InPlace(more, Len(mid) + 1) BY <1>2, <1>4, <2>4, <2>5, AnswersInPlace
  <2> QED BY <1>1, <2>6, AlternatesMore
<1> QED BY <1>3, <1>4

\* A system message of one text after an answer is in its place.
LEMMA PromptInPlace ==
  ASSUME NEW messages, NEW n, messages[n].role = "system", OneText(messages[n]),
         n = 1 \/ messages[n - 1].role = "assistant"
  PROVE  InPlace(messages, n)
BY DEF InPlace, OneText

\* A system message may follow an answer.
LEMMA PromptPlaced ==
  ASSUME NEW d \in Seq(Messages), Alternates(d),
         d = <<>> \/ d[Len(d)].role = "assistant",
         NEW prompt \in Messages, prompt.role = "system", OneText(prompt)
  PROVE  Alternates(d \o <<prompt>>)
<1>1. PICK more \in Seq(Messages) :
        /\ more = d \o <<prompt>>
        /\ \A i \in 1..Len(d) : more[i] = d[i]
        /\ more[Len(d) + 1] = prompt
  BY MessageAdded
<1>2. Len(d) + 1 = 1 \/ more[Len(d) + 1 - 1].role = "assistant"
  <2>1. CASE d = <<>> BY <2>1
  <2>2. CASE d # <<>> BY <2>2, <1>1
  <2> QED BY <2>1, <2>2
<1>3. more[Len(d) + 1].role = "system" /\ OneText(more[Len(d) + 1]) BY <1>1
<1>4. InPlace(more, Len(d) + 1) BY <1>2, <1>3, PromptInPlace
<1> QED BY <1>1, <1>4, AlternatesMore

\* An answer may follow a user's message.
LEMMA AnswerPlaced ==
  ASSUME NEW d \in Seq(Messages), Alternates(d), Len(d) > 0, d[Len(d)].role = "user",
         NEW message \in Messages, message.role = "assistant"
  PROVE  Alternates(d \o <<message>>)
<1>1. PICK more \in Seq(Messages) :
        /\ more = d \o <<message>>
        /\ \A i \in 1..Len(d) : more[i] = d[i]
        /\ more[Len(d) + 1] = message
  BY MessageAdded
<1>2. more[Len(d) + 1 - 1].role = "user" BY <1>1
<1>3. InPlace(more, Len(d) + 1) BY <1>1, <1>2 DEF InPlace
<1> QED BY <1>1, <1>3, AlternatesMore

\* The messages of a chat client are OpenAI messages.
LEMMA ChatAre ==
  ASSUME NEW d \in Seq(ChatMessages)
  PROVE  d \in Seq(OpenAIMessages) /\ \A i \in 1..Len(d) : d[i] \in ChatMessages
<1>1. \A i \in 1..Len(d) : d[i] \in ChatMessages OBVIOUS
<1>2. \A i \in 1..Len(d) : d[i] \in OpenAIMessages BY <1>1 DEF ChatMessages
<1> QED BY <1>1, <1>2

\* The type of a translated request.
LEMMA FromAnthropicTypes ==
  ASSUME NEW d \in Seq(Messages)
  PROVE  FromAnthropic(d) \in Seq(OpenAIMessages)
<1>1. Through(SystemsIn, d) \in Seq(Nat) BY FromTypes, ThroughType
<1>2. Preamble(Through(SystemsIn, d)) \in Seq(OpenAIMessages) BY <1>1, PreambleOf
<1>3. Through(FromMessages, d) \in Seq(OpenAIMessages) BY FromTypes, ThroughType
<1> QED BY <1>2, <1>3, FromAnthropicOf, MessagesJoined

\* What a translated dialogue is to a strict upstream.
LEMMA TranslationStrict ==
  ASSUME NEW d \in Seq(Messages), Alternates(d)
  PROVE  StrictlyOrdered(FromAnthropic(d))
<1>1. PICK system \in Seq(Nat) : system = Through(SystemsIn, d) BY FromTypes, ThroughType
<1>2. OrderedSoFar(Preamble(system) \o Through(FromMessages, d), d) BY TranslationOrdered
<1>3. FromAnthropic(d) = Preamble(system) \o Through(FromMessages, d)
  BY <1>1, FromAnthropicOf
<1>4. OrderedSoFar(FromAnthropic(d), d) BY <1>2, <1>3
<1>5. FromAnthropic(d) \in Seq(OpenAIMessages) BY FromAnthropicTypes
<1> QED BY <1>4, <1>5, OrderedIsStrict

\* A message has the role and the blocks it was made of.
LEMMA AnthropicIs ==
  ASSUME NEW role \in Roles, NEW blocks \in Seq(Blocks)
  PROVE  /\ Anthropic(role, blocks) \in Messages
         /\ Anthropic(role, blocks).role = role /\ Anthropic(role, blocks).blocks = blocks
BY DEF Anthropic, Messages, Roles

\* A conversation that has not begun.
LEMMA InitiallyTranslated ==
  TranslationInit => TranslationInductive
<1> SUFFICES ASSUME TranslationInit PROVE TranslationInductive OBVIOUS
<1>1. TranslationTypes
  BY MessageTranslationAssumption, EmptySeq DEF TranslationInit, TranslationTypes
<1>2. Alternates(dialogue) /\ AnswerKept(dialogue, answer) /\ AnswerKept(Heard(dialogue), answer)
  <2>1. dialogue = <<>> /\ Heard(dialogue) = <<>> BY HeardFew DEF TranslationInit
  <2>2. 1..Len(<<>>) = {} OBVIOUS
  <2> QED BY <2>1, <2>2 DEF Alternates, AnswerKept
<1>3. Spoken /\ Sent BY DEF TranslationInit, Spoken, Sent
<1> QED BY <1>1, <1>2, <1>3 DEF TranslationInductive

\* The open calls are those of the last message.
LEMMA OpenCallsOf ==
  ASSUME api = "messages", dialogue \in Seq(Messages)
  PROVE  /\ OpenCalls \in Seq(Nat)
         /\ dialogue = <<>> => OpenCalls = <<>>
         /\ dialogue # <<>> => OpenCalls = Holding(dialogue[Len(dialogue)].blocks, "call")
<1>1. CASE dialogue = <<>> BY <1>1, EmptySeq DEF OpenCalls
<1>2. CASE dialogue # <<>>
  <2>1. dialogue[Len(dialogue)] \in Messages BY <1>2
  <2>2. dialogue[Len(dialogue)].blocks \in Seq(Blocks) BY <2>1 DEF Messages
  <2>3. Holding(dialogue[Len(dialogue)].blocks, "call") \in Seq(Nat) BY <2>2, HoldingOf
  <2>4. OpenCalls = Holding(dialogue[Len(dialogue)].blocks, "call") BY <1>2 DEF OpenCalls, Last
  <2> QED BY <1>2, <2>3, <2>4
<1> QED BY <1>1, <1>2

\* So are those of a chat dialogue.
LEMMA ChatCallsOf ==
  ASSUME api = "chat", dialogue \in Seq(ChatMessages)
  PROVE  OpenCalls \in Seq(Nat)
<1>1. CASE dialogue = <<>> BY <1>1, EmptySeq DEF OpenCalls
<1>2. CASE dialogue # <<>>
  <2>1. dialogue[Len(dialogue)] \in ChatMessages BY <1>2
  <2>2. dialogue[Len(dialogue)].calls \in Seq(Nat) BY <2>1 DEF ChatMessages, OpenAIMessages
  <2>3. OpenCalls = dialogue[Len(dialogue)].calls BY <1>2 DEF OpenCalls, Last
  <2> QED BY <2>2, <2>3
<1> QED BY <1>1, <1>2

\* Results in either order are a sequence.
LEMMA ResultsType ==
  ASSUME NEW calls \in Seq(Nat), NEW results \in {calls, Reverse(calls)}
  PROVE  results \in Seq(Nat) /\ Len(results) = Len(calls)
<1>1. \A i \in 1..Len(calls) : calls[(Len(calls) - i) + 1] \in Nat OBVIOUS
<1>2. Reverse(calls) \in Seq(Nat) /\ Len(Reverse(calls)) = Len(calls) BY <1>1 DEF Reverse
<1> QED BY <1>2

\* The client's turn.
LEMMA ClientTurnKeeps ==
  ASSUME TranslationInductive,
         NEW results \in {OpenCalls, Reverse(OpenCalls)}, NEW at \in 1..(Len(OpenCalls) + 1),
         NEW kind \in {"text", "image", "call", "none"}, NEW system \in BOOLEAN,
         ClientTurn(results, at, kind, system)
  PROVE  TranslationInductive'
<1>1. /\ TranslationTypes /\ Alternates(dialogue) /\ Spoken /\ turn = "client"
      /\ api = "messages" /\ AnswerKept(dialogue, answer)
  BY DEF TranslationInductive, ClientTurn
<1>2. dialogue \in Seq(Messages) /\ made \in Nat BY <1>1 DEF TranslationTypes
<1>3. OpenCalls \in Seq(Nat) BY <1>1, <1>2, OpenCallsOf
<1>4. results \in Seq(Nat) /\ Len(results) = Len(OpenCalls) BY <1>3, ResultsType
<1>5. at \in 1..(Len(results) + 1) BY <1>4
<1>6. PICK blocks \in Seq(Blocks) : /\ blocks = TurnBlocks(results, at, kind, made + 1)
                                    /\ Holding(blocks, "result") = results
  <2>1. made + 1 \in Nat BY <1>2
  <2> QED BY <2>1, <1>4, <1>5, TurnBlocksHold
<1>7. PICK message \in Messages : /\ message = Anthropic("user", blocks)
                                  /\ message.role = "user" /\ message.blocks = blocks
  BY AnthropicIs DEF Roles
<1>8. PICK prompt \in Messages :
        /\ prompt = Anthropic("system", <<Block("text", <<made + 2>>)>>)
        /\ prompt.role = "system" /\ OneText(prompt)
  <2>1. made + 2 \in Nat BY <1>2
  <2>2. Block("text", <<made + 2>>) \in Blocks BY <2>1 DEF Block, Blocks, Kinds
  <2>3. <<Block("text", <<made + 2>>)>> \in Seq(Blocks) BY <2>2
  <2>4. Anthropic("system", <<Block("text", <<made + 2>>)>>) \in Messages
    BY <2>3 DEF Anthropic, Messages
  <2>5. OneText(Anthropic("system", <<Block("text", <<made + 2>>)>>))
    BY <2>1 DEF OneText, Anthropic
  <2>6. Anthropic("system", <<Block("text", <<made + 2>>)>>).role = "system" BY DEF Anthropic
  <2> QED BY <2>4, <2>5, <2>6
<1>9. PICK mid \in Seq(Messages) :
        /\ mid = dialogue \o (IF system THEN <<prompt>> ELSE <<>>)
        /\ Alternates(mid) /\ AnswerKept(mid, answer)
        /\ mid = dialogue \/ PromptAfter(dialogue, mid)
  <2>1. dialogue = <<>> \/ dialogue[Len(dialogue)].role = "assistant" BY <1>1 DEF Spoken
  <2>2. CASE system
    <3>1. dialogue \o <<prompt>> \in Seq(Messages) BY <1>2, Extended
    <3>2. Alternates(dialogue \o <<prompt>>) BY <1>1, <1>2, <1>8, <2>1, PromptPlaced
    <3>3. AnswerKept(dialogue \o <<prompt>>, answer) BY <1>1, <1>2, <1>8, AnswerKeptMore
    <3>4. PromptAfter(dialogue, dialogue \o <<prompt>>) BY <1>8 DEF PromptAfter
    <3> QED BY <2>2, <3>1, <3>2, <3>3, <3>4
  <2>3. CASE ~system
    <3>1. dialogue \o <<>> = dialogue BY <1>2, ConcatEmptySeq
    <3> QED BY <2>3, <3>1, <1>1, <1>2
  <2> QED BY <2>2, <2>3
<1>10. dialogue' = mid \o <<message>>
  BY <1>6, <1>7, <1>8, <1>9 DEF ClientTurn, TurnBlocks, Each
<1>11. /\ turn' = "gateway" /\ api' = "messages" /\ made' = made + 2
       /\ to' = to /\ asked' = asked /\ answer' = answer
       /\ ToSet(results) = ToSet(OpenCalls)
  BY DEF ClientTurn
<1>12. /\ dialogue' \in Seq(Messages) /\ Len(dialogue') = Len(mid) + 1
       /\ dialogue'[Len(mid) + 1] = message
  BY <1>10, Extended
<1>13. TranslationTypes' BY <1>1, <1>2, <1>11, <1>12 DEF TranslationTypes
<1>14. Alternates(dialogue')
  <2>1. dialogue = <<>> \/ dialogue[Len(dialogue)].role = "assistant" BY <1>1 DEF Spoken
  <2>2. results = Holding(message.blocks, "result") BY <1>6, <1>7
  <2>3. /\ dialogue = <<>> => OpenCalls = <<>>
        /\ dialogue # <<>> => OpenCalls = Holding(dialogue[Len(dialogue)].blocks, "call")
    BY <1>1, <1>2, OpenCallsOf
  <2>4. Alternates(mid \o <<message>>)
    BY <1>1, <1>2, <1>4, <1>7, <1>9, <1>11, <2>1, <2>2, <2>3, TurnTaken
  <2> QED BY <1>10, <2>4
<1>15. AnswerKept(dialogue', answer')
  <2>1. AnswerKept(mid \o <<message>>, answer) BY <1>7, <1>9, AnswerKeptMore
  <2> QED BY <2>1, <1>10, <1>11
<1>16. Spoken' /\ Sent'
  <2>1. Len(dialogue') > 0 /\ dialogue'[Len(dialogue')].role = "user" BY <1>7, <1>12
  <2>2. made' >= 2 BY <1>2, <1>11
  <2> QED BY <2>1, <2>2, <1>11 DEF Spoken, Sent
<1> QED BY <1>11, <1>13, <1>14, <1>15, <1>16 DEF TranslationInductive

\* Tool messages are such as a chat client sends.
LEMMA ToolsAreChat ==
  ASSUME NEW results \in Seq(Nat)
  PROVE  ToolMessages(results) \in Seq(ChatMessages)
<1>1. \A i \in 1..Len(results) : OpenAI("tool", <<>>, <<results[i]>>) \in ChatMessages
  <2> SUFFICES ASSUME NEW i \in 1..Len(results)
               PROVE  OpenAI("tool", <<>>, <<results[i]>>) \in ChatMessages
    OBVIOUS
  <2>1. OpenAI("tool", <<>>, <<results[i]>>) \in OpenAIMessages
    BY EmptySeq DEF OpenAI, OpenAIMessages
  <2>2. /\ OpenAI("tool", <<>>, <<results[i]>>).role = "tool"
        /\ OpenAI("tool", <<>>, <<results[i]>>).texts = <<>>
    BY DEF OpenAI
  <2> QED BY <2>1, <2>2 DEF ChatMessages
<1>2. DOMAIN results = 1..Len(results) /\ Len(results) \in Nat OBVIOUS
<1>3. ToolMessages(results)
        = [i \in 1..Len(results) |-> OpenAI("tool", <<>>, <<results[i]>>)]
  BY <1>2 DEF ToolMessages
<1> QED BY <1>1, <1>2, <1>3

\* So is a text of the user or of the system, if there is one.
LEMMA TextIsChat ==
  ASSUME NEW role \in {"user", "system"}, NEW x \in Nat, NEW given \in BOOLEAN
  PROVE  (IF given THEN <<OpenAI(role, <<x>>, <<>>)>> ELSE <<>>) \in Seq(ChatMessages)
<1>1. OpenAI(role, <<x>>, <<>>) \in OpenAIMessages BY EmptySeq DEF OpenAI, OpenAIMessages
<1>2. OpenAI(role, <<x>>, <<>>).role = role /\ OpenAI(role, <<x>>, <<>>).calls = <<>>
  BY DEF OpenAI
<1>3. OpenAI(role, <<x>>, <<>>) \in ChatMessages BY <1>1, <1>2 DEF ChatMessages
<1> QED BY <1>3, EmptySeq

\* The turn of a chat client.
LEMMA ChatTurnKeeps ==
  ASSUME TranslationInductive,
         NEW results \in {OpenCalls, Reverse(OpenCalls)},
         NEW said \in BOOLEAN, NEW system \in BOOLEAN,
         ChatTurn(results, said, system)
  PROVE  TranslationInductive'
<1>1. /\ TranslationTypes /\ turn = "client" /\ api = "chat"
      /\ turn' = "gateway" /\ api' = "chat" /\ to' = to /\ made' = made + 2
      /\ asked' = asked /\ answer' = answer
  BY DEF TranslationInductive, ChatTurn
<1>2. dialogue \in Seq(ChatMessages) /\ made \in Nat BY <1>1 DEF TranslationTypes
<1>3. OpenCalls \in Seq(Nat) BY <1>1, <1>2, ChatCallsOf
<1>4. results \in Seq(Nat) BY <1>3, ResultsType
<1>5. PICK tools \in Seq(ChatMessages), prompt \in Seq(ChatMessages), text \in Seq(ChatMessages) :
        /\ tools = ToolMessages(results)
        /\ prompt = IF system THEN <<OpenAI("system", <<made + 2>>, <<>>)>> ELSE <<>>
        /\ text = IF said THEN <<OpenAI("user", <<made + 1>>, <<>>)>> ELSE <<>>
  <2>1. made + 1 \in Nat /\ made + 2 \in Nat BY <1>2
  <2> QED BY <2>1, <1>4, ToolsAreChat, TextIsChat
<1>6. dialogue' = ((dialogue \o tools) \o prompt) \o text BY <1>5 DEF ChatTurn
<1>7. dialogue' \in Seq(ChatMessages)
  <2>1. PICK one \in Seq(ChatMessages) : one = dialogue \o tools BY <1>2, Joined
  <2>2. PICK two \in Seq(ChatMessages) : two = one \o prompt BY Joined
  <2>3. two \o text \in Seq(ChatMessages) BY Joined
  <2> QED BY <2>1, <2>2, <2>3, <1>6
<1>8. TranslationTypes' BY <1>1, <1>2, <1>7 DEF TranslationTypes
<1>9. Spoken' /\ Sent' BY <1>1, <1>2 DEF Spoken, Sent
<1> QED BY <1>1, <1>8, <1>9 DEF TranslationInductive

\* The 400.
LEMMA RefuseKeeps ==
  ASSUME TranslationInductive, Refuse
  PROVE  TranslationInductive'
<1>1. /\ TranslationTypes /\ Alternates(dialogue) /\ Spoken /\ turn = "gateway"
      /\ api = "messages" /\ AnswerKept(dialogue, answer)
  BY DEF TranslationInductive, Refuse
<1>2. dialogue \in Seq(Messages) /\ made \in Nat BY <1>1 DEF TranslationTypes
<1>3. /\ turn' = "client" /\ api' = "messages" /\ made' = made - 2
      /\ to' = to /\ asked' = asked /\ answer' = answer
  BY DEF Refuse
<1>4. PICK n : n = SelectLastInSeq(dialogue, LAMBDA m : m.role = "assistant") OBVIOUS
<1>5. /\ n \in 0..Len(dialogue)
      /\ n > 0 => dialogue[n].role = "assistant"
      /\ \A k \in (n + 1)..Len(dialogue) : dialogue[k].role # "assistant"
  BY <1>2, <1>4, LastAnswerIs
<1>6. dialogue' = SubSeq(dialogue, 1, n) BY <1>4 DEF Refuse
<1>7. /\ dialogue' \in Seq(Messages) /\ Alternates(dialogue') /\ AnswerKept(dialogue', answer)
      /\ dialogue' = <<>> \/ dialogue'[Len(dialogue')].role = "assistant"
  BY <1>1, <1>2, <1>5, <1>6, TakenBack
<1>8. made - 2 \in Nat BY <1>1, <1>2 DEF Spoken
<1>9. TranslationTypes' BY <1>1, <1>3, <1>7, <1>8 DEF TranslationTypes
<1>10. Spoken' /\ Sent' BY <1>3, <1>7 DEF Spoken, Sent
<1> QED BY <1>3, <1>7, <1>9, <1>10 DEF TranslationInductive

\* What an upstream of either kind is sent has its type.
LEMMA RequestTypes ==
  ASSUME TranslationTypes, NEW kind \in {"openai", "anthropic"}
  PROVE  /\ kind = "openai" => Request(kind) \in Seq(OpenAIMessages)
         /\ kind = "anthropic" => Request(kind) \in Seq(Messages)
<1>1. CASE api = "messages"
  <2>1. dialogue \in Seq(Messages) BY <1>1 DEF TranslationTypes
  <2>2. FromAnthropic(dialogue) \in Seq(OpenAIMessages) /\ Hoisted(dialogue) \in Seq(Messages)
    BY <2>1, FromAnthropicTypes, HoistedOf
  <2> QED BY <1>1, <2>2 DEF Request
<1>2. CASE api = "chat"
  <2>1. dialogue \in Seq(OpenAIMessages) /\ \A i \in 1..Len(dialogue) : dialogue[i] \in ChatMessages
    BY <1>2, ChatAre DEF TranslationTypes
  <2>2. ToAnthropic(dialogue) \in Seq(Messages) BY <2>1, ToAnthropicSays
  <2> QED BY <1>2, <2>1, <2>2 DEF Request
<1> QED BY <1>1, <1>2 DEF TranslationTypes

\* The upstream is asked.
LEMMA AskKeeps ==
  ASSUME TranslationInductive, NEW kind \in {"openai", "anthropic"}, Ask(kind)
  PROVE  TranslationInductive'
<1>1. /\ TranslationTypes /\ Spoken /\ turn = "gateway"
      /\ api = "messages" => Alternates(dialogue)
      /\ api = "messages" => ~Refusable(dialogue)
  BY DEF TranslationInductive, Ask
<1>2. /\ turn' = "upstream" /\ api' = api /\ dialogue' = dialogue /\ made' = made
      /\ to' = kind /\ asked' = Request(kind) /\ answer' = <<>>
  BY DEF Ask
<1>3. /\ kind = "openai" => asked' \in Seq(OpenAIMessages)
      /\ kind = "anthropic" => asked' \in Seq(Messages)
  BY <1>1, <1>2, RequestTypes
<1>4. answer' \in Seq(Blocks) /\ Len(answer') <= AnswerBlocks
  BY <1>2, MessageTranslationAssumption, EmptySeq
<1>5. TranslationTypes' BY <1>1, <1>2, <1>3, <1>4 DEF TranslationTypes
<1>6. Spoken' BY <1>1, <1>2 DEF Spoken
<1>7. Sent'
  <2>1. Request(kind)' = Request(kind) BY <1>2 DEF Request
  <2>2. asked' = Request(to)' BY <2>1, <1>2 DEF Request
  <2> QED BY <2>2, <1>1, <1>2 DEF Sent
<1>8. (api = "messages" => Alternates(dialogue))' BY <1>1, <1>2
<1> QED BY <1>2, <1>5, <1>6, <1>7, <1>8 DEF TranslationInductive

\* The upstream's answer.
LEMMA UpstreamAnswersKeeps ==
  ASSUME TranslationInductive,
         NEW n \in 0..AnswerBlocks, NEW kinds \in [1..n -> {"text", "call"}],
         UpstreamAnswers(kinds)
  PROVE  TranslationInductive'
<1>1. /\ TranslationTypes /\ Spoken /\ turn = "upstream"
      /\ api = "messages" => Alternates(dialogue)
  BY DEF TranslationInductive, UpstreamAnswers
<1>2. /\ turn' = "answer" /\ api' = api /\ dialogue' = dialogue /\ made' = made + Len(kinds)
      /\ to' = to /\ asked' = asked
      /\ answer' = [i \in DOMAIN kinds |-> Block(kinds[i], <<made + i>>)]
  BY DEF UpstreamAnswers
<1>3. n \in Nat /\ n <= AnswerBlocks BY MessageTranslationAssumption
<1>4. Len(kinds) = n /\ DOMAIN kinds = 1..n BY <1>3
<1>5. made \in Nat BY <1>1 DEF TranslationTypes
<1>6. \A i \in 1..n : Block(kinds[i], <<made + i>>) \in Blocks
  BY <1>3, <1>5 DEF Block, Blocks, Kinds
<1>7. answer' \in Seq(Blocks) /\ Len(answer') = n
  <2>1. PICK f : f = [i \in 1..n |-> Block(kinds[i], <<made + i>>)] OBVIOUS
  <2>2. f \in [1..n -> Blocks] BY <1>6, <2>1
  <2>3. f \in Seq(Blocks) /\ Len(f) = n BY <1>3, <2>2
  <2> QED BY <1>2, <1>4, <2>1, <2>3
<1>8. TranslationTypes' BY <1>1, <1>2, <1>3, <1>4, <1>5, <1>7 DEF TranslationTypes
<1>9. Spoken' /\ Sent' /\ (api = "messages" => Alternates(dialogue))'
  BY <1>1, <1>2 DEF Spoken, Sent
<1> QED BY <1>2, <1>8, <1>9 DEF TranslationInductive

\* from_anthropic_response and to_anthropic_response.
LEMMA MessagesAnswerKeeps ==
  ASSUME TranslationInductive, TranslateAnswer, api = "messages"
  PROVE  TranslationInductive'
<1>1. /\ TranslationTypes /\ Alternates(dialogue) /\ Spoken /\ turn = "answer"
  BY DEF TranslationInductive, TranslateAnswer
<1>2. dialogue \in Seq(Messages) /\ answer \in Seq(Blocks) BY <1>1 DEF TranslationTypes
<1>3. PICK blocks \in Seq(Blocks) :
        /\ blocks = AssistantBlocks(TextsOf(answer), Holding(answer, "call"))
        /\ Holding(blocks, "text") = Holding(answer, "text")
        /\ Holding(blocks, "call") = Holding(answer, "call")
  <2>1. Holding(answer, "text") \in Seq(Nat) /\ Holding(answer, "call") \in Seq(Nat)
    BY <1>2, HoldingOf
  <2> QED BY <2>1, AssistantBlocksHold DEF TextsOf
<1>4. PICK message \in Messages : /\ message = Anthropic("assistant", blocks)
                                  /\ message.role = "assistant" /\ message.blocks = blocks
  BY AnthropicIs DEF Roles
<1>5. /\ turn' = "client" /\ api' = "messages" /\ made' = made /\ answer' = answer
      /\ to' = to /\ asked' = <<>>
      /\ dialogue' = Append(dialogue, message)
  BY <1>3, <1>4 DEF TranslateAnswer
<1>6. /\ dialogue' = dialogue \o <<message>>
      /\ dialogue' \in Seq(Messages) /\ Len(dialogue') = Len(dialogue) + 1
      /\ dialogue'[Len(dialogue) + 1] = message
  BY <1>2, <1>5, Extended
<1>7. TranslationTypes' BY <1>1, <1>5, <1>6, EmptySeq DEF TranslationTypes
<1>8. Alternates(dialogue') BY <1>1, <1>2, <1>4, <1>6, AnswerPlaced DEF Spoken
<1>9. AnswerKept(dialogue', answer')
  <2>1. \A kind \in {"text", "call"} : Holding(message.blocks, kind) = Holding(answer, kind)
    BY <1>3, <1>4
  <2>2. AnswerKept(dialogue \o <<message>>, answer) BY <1>2, <1>4, <2>1, AnswerKeptNow
  <2> QED BY <2>2, <1>5, <1>6
<1>10. Spoken' /\ Sent'
  <2>1. dialogue'[Len(dialogue')].role = "assistant" BY <1>4, <1>6
  <2> QED BY <2>1, <1>5 DEF Spoken, Sent
<1> QED BY <1>5, <1>7, <1>8, <1>9, <1>10 DEF TranslationInductive

\* from_anthropic_response, for a chat client.
LEMMA ChatAnswerKeeps ==
  ASSUME TranslationInductive, TranslateAnswer, api = "chat"
  PROVE  TranslationInductive'
<1>1. TranslationTypes /\ turn = "answer" BY DEF TranslationInductive, TranslateAnswer
<1>2. dialogue \in Seq(ChatMessages) /\ answer \in Seq(Blocks) BY <1>1 DEF TranslationTypes
<1>3. PICK texts \in Seq(Nat), calls \in Seq(Nat) :
        texts = Holding(answer, "text") /\ calls = Holding(answer, "call")
  BY <1>2, HoldingOf
<1>4. PICK message \in OpenAIMessages : message = OpenAI("assistant", texts, calls)
  BY DEF OpenAI, OpenAIMessages
<1>5. message.role = "assistant" /\ message.texts = texts /\ message.calls = calls
  BY <1>4 DEF OpenAI
<1>6. message \in ChatMessages BY <1>5 DEF ChatMessages
<1>7. /\ turn' = "client" /\ api' = "chat" /\ made' = made /\ answer' = answer
      /\ to' = to /\ asked' = <<>>
      /\ dialogue' = Append(dialogue, message)
  BY <1>3, <1>4 DEF TranslateAnswer, TextsOf
<1>8. /\ dialogue' = dialogue \o <<message>>
      /\ dialogue' \in Seq(ChatMessages) /\ Len(dialogue') = Len(dialogue) + 1
      /\ dialogue'[Len(dialogue) + 1] = message
  BY <1>2, <1>6, <1>7, Extended
<1>9. TranslationTypes' BY <1>1, <1>7, <1>8, EmptySeq DEF TranslationTypes
<1>10. AnswerKept(Heard(dialogue'), answer')
  <2>1. PICK d \in Seq(OpenAIMessages) : d = dialogue BY <1>2, ChatAre
  <2>2. PICK heard \in Seq(Messages) : heard = Heard(d) BY HeardOf
  <2>3. PICK one \in Messages : one = HeardOne(message) BY HeardHolds
  <2>4. Heard(dialogue') = heard \o <<one>> BY <1>8, <2>1, <2>2, <2>3, HeardMore
  <2>5. /\ one.role = "assistant"
        /\ Holding(one.blocks, "text") = texts /\ Holding(one.blocks, "call") = calls
    BY <1>5, <2>3, HeardHolds
  <2>6. \A kind \in {"text", "call"} : Holding(one.blocks, kind) = Holding(answer, kind)
    BY <1>3, <2>5
  <2>7. AnswerKept(heard \o <<one>>, answer) BY <2>5, <2>6, AnswerKeptNow
  <2> QED BY <1>7, <2>4, <2>7
<1>11. Spoken' /\ Sent'
  <2>1. dialogue'[Len(dialogue')].role = "assistant" BY <1>5, <1>8
  <2> QED BY <2>1, <1>7 DEF Spoken, Sent
<1> QED BY <1>7, <1>9, <1>10, <1>11 DEF TranslationInductive

\* A step of another part of the program.
LEMMA StutterKeeps ==
  ASSUME TranslationInductive, UNCHANGED translationVars
  PROVE  TranslationInductive'
<1>1. /\ api' = api /\ turn' = turn /\ dialogue' = dialogue /\ made' = made
      /\ to' = to /\ asked' = asked /\ answer' = answer
  BY DEF translationVars
<1>2. Sent'
  <2>1. Request(to)' = Request(to) BY <1>1 DEF Request
  <2> QED BY <1>1, <2>1 DEF TranslationInductive, Sent
<1> QED BY <1>1, <1>2 DEF TranslationInductive, TranslationTypes, Spoken

(* The inductive invariant behind the next two: the turns of a /v1/messages dialogue alternate
   and every call of an answer is answered in the turn after it, a system message stands only
   where the client puts it; what is sent is made of the dialogue, for either API and either
   kind of upstream, and a refused dialogue is not sent; and the last answer in the dialogue
   holds what the upstream answered, from from_anthropic_response on and when the client takes
   a refused turn back. *)
THEOREM TranslationInvariant ==
  TranslationSpec => []TranslationInductive
<1>1. TranslationInit => TranslationInductive BY InitiallyTranslated
<1>2. TranslationInductive /\ [TranslationNext]_translationVars => TranslationInductive'
  <2> SUFFICES ASSUME TranslationInductive, [TranslationNext]_translationVars
               PROVE  TranslationInductive'
    OBVIOUS
  <2>1. ASSUME NEW results \in {OpenCalls, Reverse(OpenCalls)},
               NEW at \in 1..(Len(OpenCalls) + 1),
               NEW kind \in {"text", "image", "call", "none"}, NEW system \in BOOLEAN,
               ClientTurn(results, at, kind, system)
        PROVE  TranslationInductive'
    BY <2>1, ClientTurnKeeps
  <2>2. ASSUME NEW results \in {OpenCalls, Reverse(OpenCalls)},
               NEW said \in BOOLEAN, NEW system \in BOOLEAN,
               ChatTurn(results, said, system)
        PROVE  TranslationInductive'
    BY <2>2, ChatTurnKeeps
  <2>3. CASE Refuse BY <2>3, RefuseKeeps
  <2>4. ASSUME NEW kind \in {"openai", "anthropic"}, Ask(kind)
        PROVE  TranslationInductive'
    BY <2>4, AskKeeps
  <2>5. ASSUME NEW n \in 0..AnswerBlocks, NEW kinds \in [1..n -> {"text", "call"}],
               UpstreamAnswers(kinds)
        PROVE  TranslationInductive'
    BY <2>5, UpstreamAnswersKeeps
  <2>6. CASE TranslateAnswer
    <3>1. api \in {"messages", "chat"} BY DEF TranslationInductive, TranslationTypes
    <3> QED BY <2>6, <3>1, MessagesAnswerKeeps, ChatAnswerKeeps
  <2>7. CASE UNCHANGED translationVars BY <2>7, StutterKeeps
  <2> QED BY <2>1, <2>2, <2>3, <2>4, <2>5, <2>6, <2>7 DEF TranslationNext
<1> QED BY <1>1, <1>2, PTL DEF TranslationSpec

\* What the upstream is sent says what the dialogue says, on each of the four paths.
LEMMA RequestSays ==
  ASSUME TranslationInductive, turn = "upstream"
  PROVE  SaysTheSame(Received, Conversation)
<1>1. /\ TranslationTypes /\ asked = Request(to)
      /\ api = "messages" => Alternates(dialogue) /\ ~Refusable(dialogue)
  BY DEF TranslationInductive, Sent
<1>2. api \in {"messages", "chat"} /\ to \in {"openai", "anthropic"} BY <1>1 DEF TranslationTypes
<1>3. CASE api = "messages"
  <2>1. dialogue \in Seq(Messages) /\ Conversation = dialogue
    BY <1>1, <1>3 DEF TranslationTypes, Conversation
  <2>2. CASE to = "openai"
    <3>1. Received = Heard(FromAnthropic(dialogue)) BY <1>1, <1>3, <2>2 DEF Received, Request
    <3> QED BY <1>1, <1>3, <2>1, <3>1, FromAnthropicSays
  <2>3. CASE to = "anthropic"
    <3>1. Received = Hoisted(dialogue) BY <1>1, <1>3, <2>3 DEF Received, Request
    <3> QED BY <1>1, <1>3, <2>1, <3>1, HoistedSays
  <2> QED BY <1>2, <2>2, <2>3
<1>4. CASE api = "chat"
  <2>1. /\ dialogue \in Seq(OpenAIMessages) /\ Conversation = Heard(dialogue)
        /\ \A i \in 1..Len(dialogue) : dialogue[i] \in ChatMessages
    BY <1>1, <1>4, ChatAre DEF TranslationTypes, Conversation
  <2>2. CASE to = "openai"
    <3>1. Received = Heard(dialogue) BY <1>1, <1>4, <2>2 DEF Received, Request
    <3> QED BY <2>1, <3>1 DEF SaysTheSame
  <2>3. CASE to = "anthropic"
    <3>1. Received = ToAnthropic(dialogue) BY <1>1, <1>4, <2>3 DEF Received, Request
    <3> QED BY <2>1, <3>1, ToAnthropicSays
  <2> QED BY <1>2, <2>2, <2>3
<1> QED BY <1>2, <1>3, <1>4

\* A last answer that is kept is what the client holds last.
LEMMA LastKept ==
  ASSUME NEW d \in Seq(Messages), NEW blocks, AnswerKept(d, blocks), d # <<>>,
         Last(d).role = "assistant", NEW kind \in {"text", "call"}
  PROVE  Holding(Last(d).blocks, kind) = Holding(blocks, kind)
<1>1. PICK n \in 1..Len(d) : n = Len(d) OBVIOUS
<1>2. d[n] = Last(d) BY <1>1 DEF Last
<1>3. \A k \in (n + 1)..Len(d) : d[k].role # "assistant" BY <1>1
<1> QED BY <1>2, <1>3 DEF AnswerKept

\* The invariant implies that nothing is lost.
LEMMA InductiveKeeps ==
  ASSUME TranslationInductive
  PROVE  ConversationSurvives
<1>1. TranslationTypes BY DEF TranslationInductive
<1>2. turn = "upstream" /\ api = "messages" /\ to = "openai" => StrictlyOrdered(asked)
  <2> SUFFICES ASSUME turn = "upstream", api = "messages", to = "openai"
               PROVE  StrictlyOrdered(asked)
    OBVIOUS
  <2>1. asked = FromAnthropic(dialogue) BY DEF TranslationInductive, Sent, Request
  <2>2. dialogue \in Seq(Messages) /\ Alternates(dialogue)
    BY <1>1 DEF TranslationInductive, TranslationTypes
  <2> QED BY <2>1, <2>2, TranslationStrict
<1>3. ASSUME turn = "upstream",
             NEW role \in {"system", "user", "assistant"},
             NEW kind \in {"text", "call", "result"}, NEW n \in 0..Len(dialogue)
      PROVE  Said(Received, role, kind, n) = Said(Conversation, role, kind, n)
  <2>1. SaysTheSame(Received, Conversation) BY <1>3, RequestSays
  <2>2. Len(dialogue) \in Nat
    <3>1. CASE api = "messages" BY <3>1, <1>1 DEF TranslationTypes
    <3>2. CASE api = "chat" BY <3>2, <1>1 DEF TranslationTypes
    <3> QED BY <3>1, <3>2, <1>1 DEF TranslationTypes
  <2>3. role \in Roles /\ kind \in SaidKinds /\ n \in Nat BY <2>2 DEF Roles, SaidKinds
  <2> QED BY <2>1, <2>3 DEF SaysTheSame
<1>4. ASSUME turn = "upstream"
      PROVE  Answers(Received, Len(Received) + 1) = Answers(Conversation, Len(Conversation) + 1)
  <2>1. TurnAfter(Received) = TurnAfter(Conversation) BY <1>4, RequestSays DEF SaysTheSame
  <2> QED BY <2>1 DEF TurnAfter
<1>5. ASSUME turn = "client", dialogue # <<>>, Last(dialogue).role = "assistant",
             NEW kind \in {"text", "call"}
      PROVE  Holding(Last(Conversation).blocks, kind) = Holding(answer, kind)
  <2>1. CASE api = "messages"
    <3>1. dialogue \in Seq(Messages) /\ Conversation = dialogue /\ AnswerKept(dialogue, answer)
      BY <1>1, <1>5, <2>1 DEF TranslationInductive, TranslationTypes, Conversation
    <3> QED BY <1>5, <3>1, LastKept
  <2>2. CASE api = "chat"
    <3>1. dialogue \in Seq(OpenAIMessages) /\ AnswerKept(Heard(dialogue), answer)
      BY <1>1, <1>5, <2>2, ChatAre DEF TranslationInductive, TranslationTypes
    <3>2. PICK heard \in Seq(Messages) :
            /\ heard = Heard(dialogue) /\ Len(heard) = Len(dialogue)
            /\ heard[Len(dialogue)] = HeardOnes[dialogue[Len(dialogue)]]
      <4>1. Len(dialogue) \in 1..Len(dialogue) BY <1>5, <3>1
      <4> QED BY <3>1, <4>1, HeardOf
    <3>3. dialogue[Len(dialogue)] \in OpenAIMessages
          /\ dialogue[Len(dialogue)].role = "assistant"
      BY <1>5, <3>1 DEF Last
    <3>4. Last(heard).role = "assistant" /\ heard # <<>>
      <4>1. Last(heard) = HeardOne(dialogue[Len(dialogue)])
        BY <3>2, <3>3, HeardHolds DEF Last
      <4> QED BY <1>5, <3>1, <3>2, <3>3, <4>1, HeardHolds
    <3>5. Holding(Last(heard).blocks, kind) = Holding(answer, kind)
      BY <3>1, <3>2, <3>4, <1>5, LastKept
    <3>6. Conversation = heard BY <2>2, <3>2 DEF Conversation
    <3> QED BY <3>5, <3>6
  <2> QED BY <1>1, <2>1, <2>2 DEF TranslationTypes
<1> QED BY <1>2, <1>3, <1>4, <1>5 DEF ConversationSurvives

\* And the types.
LEMMA InductiveTypes ==
  ASSUME TranslationInductive
  PROVE  TranslationTypeOK
<1>1. TranslationTypes BY DEF TranslationInductive
<1>2. Conversation \in Seq(Messages)
  <2>1. CASE api = "messages" BY <1>1, <2>1 DEF TranslationTypes, Conversation
  <2>2. CASE api = "chat"
    <3>1. dialogue \in Seq(OpenAIMessages) BY <1>1, <2>2, ChatAre DEF TranslationTypes
    <3>2. Heard(dialogue) \in Seq(Messages) BY <3>1, HeardOf
    <3> QED BY <2>2, <3>2 DEF Conversation
  <2> QED BY <1>1, <2>1, <2>2 DEF TranslationTypes
<1>3. Received \in Seq(Messages)
  <2>1. CASE to = "anthropic" BY <1>1, <2>1 DEF TranslationTypes, Received
  <2>2. CASE to = "openai"
    <3>1. Heard(asked) \in Seq(Messages) BY <1>1, <2>2, HeardOf DEF TranslationTypes
    <3> QED BY <2>2, <3>1 DEF Received
  <2> QED BY <1>1, <2>1, <2>2 DEF TranslationTypes
<1>4. \A messages \in Seq(Messages) :
        \A i \in DOMAIN messages : messages[i].role \in {"system", "user", "assistant"}
  <2> SUFFICES ASSUME NEW messages \in Seq(Messages), NEW i \in DOMAIN messages
               PROVE  messages[i].role \in {"system", "user", "assistant"}
    OBVIOUS
  <2>1. messages[i] \in Messages OBVIOUS
  <2> QED BY <2>1 DEF Messages
<1> QED BY <1>1, <1>2, <1>3, <1>4 DEF TranslationTypes, TranslationTypeOK

(* ConversationSurvives, for conversations, answers and system prompts of any length, on either
   API: what from_anthropic_request makes of a dialogue is in the order strict upstreams
   demand; an OpenAI-compatible upstream hears in it, and an Anthropic one reads in the body
   that _build_params passes on or in what to_anthropic_params makes of a chat, every text,
   call and result in its turn; and the client gets the whole answer. *)
THEOREM ConversationIsKept ==
  TranslationSpec => []ConversationSurvives
<1>1. TranslationInductive => ConversationSurvives BY InductiveKeeps
<1> QED BY <1>1, TranslationInvariant, PTL

\* Every variable of a conversation keeps its type, and no answer is longer than the bound.
THEOREM TranslationTypeCorrect ==
  TranslationSpec => []TranslationTypeOK
<1>1. TranslationInductive => TranslationTypeOK BY InductiveTypes
<1> QED BY <1>1, TranslationInvariant, PTL
=============================================================================
