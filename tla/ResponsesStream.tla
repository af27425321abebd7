--------------------------- MODULE ResponsesStream ---------------------------
(***************************************************************************)
(* A streamed /v1/responses answer: OpenAI chunks, turned into the events  *)
(* of the Responses API (ResponsesStreamTranslator, _sse_responses).       *)
(*                                                                         *)
(* The stream is opened on the adapter that was routed to and, if it fails *)
(* before its first chunk, on the fallback.  A chunk is translated as a    *)
(* whole; its events are then yielded one by one, and only then the next   *)
(* chunk is pulled.  A chunk carries one part here: translate_chunk treats *)
(* the content and the tool calls of a larger one in turn.  Usage counts   *)
(* and made-up ids are left out.                                           *)
(***************************************************************************)
EXTENDS Integers, Sequences, SequencesExt

CONSTANTS MaxParts,   \* bound on the parts an upstream sends
          MaxCalls    \* bound on the tool calls among them

ASSUME ResponsesStreamAssumption == MaxParts \in Nat /\ MaxCalls \in Nat

VARIABLES upstream,     \* how far the upstream's stream is
          given,        \* history: the parts it sent
          translator,   \* the ResponsesStreamTranslator
          events,       \* translated and not yielded yet, with their sequence numbers
          seen,         \* what the client made of those it was sent
          expected      \* the next sequence number it has not seen

responsesVars == <<upstream, given, translator, events, seen, expected>>

-----------------------------------------------------------------------------
(* Values *)

NoIndex == -1
Message == -1          \* the text, among the tool_call indexes

\* A part: text, a tool call's name or arguments by its index; piece 0 for no arguments.
GivenParts == [of : {Message} \cup 0..(MaxCalls - 1), named : BOOLEAN, piece : 0..MaxParts]

Item(kind, name, pieces) == [kind |-> kind, name |-> name, pieces |-> pieces]
NoItem == Item("none", 0, <<>>)

Event(type, index, item) ==
    [type |-> type, index |-> index, item |-> item, output |-> <<>>]

ResponsesInit ==
    /\ upstream = "primary"
    /\ given = <<>>
    /\ translator = [created |-> FALSE, seq |-> 0, next |-> 0, textIndex |-> NoIndex,
                     text |-> <<>>, tools |-> <<>>]
    /\ events = <<>>
    /\ seen = [phase |-> "none", items |-> <<>>, output |-> <<>>] /\ expected = 0

\* Function f with f[x] = y besides, or instead.
Update(f, x, y) == [z \in DOMAIN f \cup {x} |-> IF z = x THEN y ELSE f[z]]

-----------------------------------------------------------------------------
(* ResponsesStreamTranslator.translate_chunk *)

\* The next chunk is awaited.
Open == events = <<>> /\ upstream \in {"primary", "fallback", "open"}

\* Mutant: that it was created is not remembered.
CreatedAlways == <<Event("created", 0, NoItem)>>

\* response.created comes before anything else, once.
CreatedOnce == IF translator.created THEN <<>> ELSE <<Event("created", 0, NoItem)>>

\* The events are numbered as they are made.
Emit(list, state) ==
    /\ events' = [i \in DOMAIN list |-> [seq |-> translator.seq + i - 1, event |-> list[i]]]
    /\ translator' = [state EXCEPT !.created = TRUE, !.seq = @ + Len(list)]

OpensText(index) ==
    <<Event("item_added", index, Item("message", 0, <<>>)), Event("part_added", index, NoItem)>>

Receives(part) ==
    /\ Open /\ Len(given) < MaxParts
    /\ upstream' = "open"
    /\ given' = Append(given, part)
    /\ UNCHANGED <<seen, expected>>

TextPart ==
    LET piece == Len(given) + 1
        opens == translator.textIndex = NoIndex
        index == IF opens THEN translator.next ELSE translator.textIndex
    IN  /\ Receives([of |-> Message, named |-> FALSE, piece |-> piece])
        /\ Emit(CreatedOnce \o (IF opens THEN OpensText(index) ELSE <<>>)
                  \o <<Event("delta", index, Item("message", 0, <<piece>>))>>,
                [translator EXCEPT !.textIndex = index, !.text = Append(@, piece),
                                   !.next = IF opens THEN @ + 1 ELSE @])

\* The upstream's name for a tool call, 0 where a delta has none.
NameIn(call, named) == IF named THEN call + 1 ELSE 0

\* Mutant: a name that comes after the first delta is not taken.
FilledFirst(tool, name, pieces) == [tool EXCEPT !.args = @ \o pieces]

\* The first name a call is given stays.
Filled(tool, name, pieces) ==
    [tool EXCEPT !.name = IF @ = 0 THEN name ELSE @, !.args = @ \o pieces]

\* _handle_tool_delta; providers number the calls of a message from 0 on.
ToolPart(call, named, filled) ==
    LET name == NameIn(call, named)
        piece == Len(given) + 1
        pieces == IF filled THEN <<piece>> ELSE <<>>
        opens == call \notin DOMAIN translator.tools
        tool == IF opens THEN [index |-> translator.next, name |-> name, args |-> <<>>]
                ELSE translator.tools[call]
    IN  /\ \A earlier \in 0..(call - 1) : earlier \in DOMAIN translator.tools
        /\ Receives([of |-> call, named |-> named, piece |-> IF filled THEN piece ELSE 0])
        /\ Emit(CreatedOnce
                  \o (IF opens
                      THEN <<Event("item_added", tool.index, Item("call", name, <<>>))>>
                      ELSE <<>>)
                  \o (IF filled THEN <<Event("delta", tool.index, Item("call", 0, pieces))>>
                      ELSE <<>>),
                [translator EXCEPT !.tools = Update(@, call, Filled(tool, name, pieces)),
                                   !.next = IF opens THEN @ + 1 ELSE @])

\* A role, a finish reason or usage: no part.
OtherChunk ==
    /\ Open /\ upstream' = "open"
    /\ Emit(CreatedOnce, translator)
    /\ UNCHANGED <<given, seen, expected>>

-----------------------------------------------------------------------------
(* How a stream fails or ends, and ResponsesStreamTranslator.finalize *)

\* No first chunk: the fallback is opened, if there is one; then it is a 502.
OpenFails ==
    /\ Open /\ upstream \in {"primary", "fallback"}
    /\ upstream' \in IF upstream = "primary" THEN {"fallback", "refused"} ELSE {"refused"}
    /\ UNCHANGED <<given, translator, events, seen, expected>>

\* The generator ends without a terminal event.
Breaks ==
    /\ Open /\ upstream = "open"
    /\ upstream' = "broken"
    /\ UNCHANGED <<given, translator, events, seen, expected>>

Ends ==
    /\ Open
    /\ upstream' = "ended"
    /\ UNCHANGED <<given, translator, events, seen, expected>>

\* The item with an output_index, whole.
ItemAt(state, index) ==
    IF index = state.textIndex THEN Item("message", 0, state.text)
    ELSE LET call == CHOOSE c \in DOMAIN state.tools : state.tools[c].index = index
         IN  Item("call", state.tools[call].name, state.tools[call].args)

Closes(state, index) ==
    LET done(type) == Event(type, index, ItemAt(state, index))
    IN  IF index = state.textIndex
        THEN <<done("content_done"), done("part_done"), done("item_done")>>
        ELSE <<done("content_done"), done("item_done")>>

\* A response has at least one item.
NonEmpty(state) ==
    IF state.next = 0 THEN [state EXCEPT !.textIndex = 0, !.next = 1] ELSE state

\* The text is closed first and then the calls, by their output_index.
ClosingOrder(state) ==
    LET indexes == [i \in 1..state.next |-> i - 1]
    IN  IF state.textIndex = NoIndex THEN indexes
        ELSE <<state.textIndex>> \o RemoveAt(indexes, state.textIndex + 1)

Closing(state) ==
    FlattenSeq([i \in 1..state.next |-> Closes(state, ClosingOrder(state)[i])])

Completes(state) ==
    [Event("completed", 0, NoItem) EXCEPT !.output =
        [i \in 1..state.next |-> ItemAt(state, i - 1)]]

Finalize ==
    /\ upstream = "ended" /\ events = <<>>
    /\ upstream' = "finished"
    /\ LET state == NonEmpty(translator)
       IN  Emit(CreatedOnce \o (IF translator.next < state.next THEN OpensText(0) ELSE <<>>)
                  \o Closing(state) \o <<Completes(state)>>,
                state)
    /\ UNCHANGED <<given, seen, expected>>

-----------------------------------------------------------------------------
(* The client, and the events it is sent *)

\* An item's entry after an event that is about it.
Changed(entry, event) ==
    CASE event.type = "part_added" -> [entry EXCEPT !.state = "part"]
      [] event.type = "delta" -> [entry EXCEPT !.pieces = @ \o event.item.pieces]
      [] event.type = "content_done" ->
            [entry EXCEPT !.state = "content", !.final = event.item.pieces]
      [] event.type = "part_done" ->
            [entry EXCEPT !.state = "partDone", !.final = event.item.pieces]
      [] event.type = "item_done" ->
            [entry EXCEPT !.state = "done", !.name = event.item.name,
                          !.final = event.item.pieces]

SeenAfter(client, event) ==
    LET added == [kind |-> event.item.kind, name |-> event.item.name, pieces |-> <<>>,
                  state |-> "added", final |-> <<>>]
    IN  [phase |-> CASE event.type \in {"created", "completed"} -> event.type
                     [] event.type = "content_done" -> "closing"
                     [] OTHER -> client.phase,
         items |-> CASE event.type \in {"created", "completed"} -> client.items
                     [] event.type = "item_added" -> Update(client.items, event.index, added)
                     [] OTHER -> [client.items EXCEPT ![event.index] = Changed(@, event)],
         output |-> event.output]

Yield ==
    /\ events # <<>>
    /\ seen' = SeenAfter(seen, Head(events).event)
    /\ expected' = Head(events).seq + 1
    /\ events' = Tail(events)
    /\ UNCHANGED <<upstream, given, translator>>

ResponsesNext ==
    \/ TextPart
    \/ \E call \in 0..(MaxCalls - 1), named \in BOOLEAN, filled \in BOOLEAN :
         ToolPart(call, named, filled)
    \/ OtherChunk
    \/ OpenFails \/ Breaks \/ Ends
    \/ Finalize \/ Yield

ResponsesSpec == ResponsesInit /\ [][ResponsesNext]_responsesVars

-----------------------------------------------------------------------------
(* What must hold *)

(* Whatever the upstream sends, and wherever its stream ends or breaks, the client is sent
   a stream of the Responses API: items filled side by side, each closed with the whole of
   what its deltas brought, sequence numbers without a gap, and a last event that holds
   the items it saw. *)
ResponsesWireOf == INSTANCE ResponsesWire WITH
    Names <- 1..MaxCalls, Pieces <- 1..MaxParts,
    phase <- seen.phase, count <- expected, items <- seen.items, output <- seen.output

ImplementsResponsesWire == ResponsesWireOf!Spec

\* These are the pieces the upstream sent of a call, or of the text, all and in order.
ArePiecesOf(pieces, of) ==
    /\ {pieces[i] : i \in DOMAIN pieces} =
         {given[i].piece : i \in {n \in DOMAIN given : given[n].of = of}} \ {0}
    /\ \A i, j \in DOMAIN pieces : i < j => pieces[i] < pieces[j]

Named(call) == \E i \in DOMAIN given : given[i].of = call /\ given[i].named

IsAllOf(item, of) ==
    /\ item.kind = IF of = Message THEN "message" ELSE "call"
    /\ item.name = IF of = Message THEN 0 ELSE NameIn(of, Named(of))
    /\ ArePiecesOf(item.pieces, of)

Sources == {given[i].of : i \in DOMAIN given}

FirstOf(of) == CHOOSE i \in DOMAIN given :
                  given[i].of = of /\ \A j \in 1..(i - 1) : given[j].of # of

(* A response that is called completed holds all its upstream sent, and its upstream's
   stream did end: the text and each tool call once, in the order they first came up, with
   all pieces of each in their order, and each call under its name, in whichever delta
   that came. *)
OutputHoldsStream ==
    seen.phase = "completed" =>
        /\ upstream = "finished"
        /\ IF given = <<>> THEN seen.output = <<Item("message", 0, <<>>)>>
           ELSE \E order \in [1..Len(seen.output) -> Sources] :
                  /\ Sources = {order[i] : i \in DOMAIN order}
                  /\ \A i, j \in DOMAIN order : i < j => FirstOf(order[i]) < FirstOf(order[j])
                  /\ \A i \in DOMAIN order : IsAllOf(seen.output[i], order[i])

ResponsesTypeOK ==
    /\ upstream \in {"primary", "fallback", "open", "ended", "broken", "refused", "finished"}
    /\ given \in Seq(GivenParts) /\ Len(given) <= MaxParts
    /\ translator.next \in 0..(MaxCalls + 1)
    /\ translator.textIndex \in {NoIndex} \cup 0..MaxCalls
    /\ DOMAIN translator.tools \subseteq 0..(MaxCalls - 1)
    /\ seen.phase \in {"none", "created", "closing", "completed"}
    /\ expected \in 0..translator.seq
=============================================================================
