---------------------------- MODULE AnthropicWire ----------------------------
(* The SSE stream an Anthropic client may be sent for one message: one         *)
(* message_start, content blocks one after the other, each started once at the *)
(* next index, given deltas of its own kind while it is open and stopped       *)
(* before the next one starts, at least one of them, then one message_delta    *)
(* and one message_stop.  A stream may be cut short anywhere.                  *)
(*                                                                             *)
(* One licence the protocol does not give: a piece of arguments the source     *)
(* gave away late may reach a tool_use block that is stopped already.          *)
EXTENDS Integers, Sequences

CONSTANTS Ids,       \* ids of tool_use blocks; 0 for a text block
          Pieces,    \* numbers of the pieces of text or of arguments
          Reasons    \* stop_reason

VARIABLES phase,     \* how far the message is
          blocks,    \* the content blocks started so far
          open,      \* the indexes of those not stopped yet
          content,   \* what they brought: tool calls, and pieces of each block
          stop,      \* the stop_reason of the message_delta, or "none"
          late       \* the pieces that came late

wire == <<phase, blocks, open, content, stop, late>>

Init ==
    /\ phase = "none" /\ stop = "none"
    /\ blocks = <<>> /\ content = <<>> /\ open = {} /\ late = {}

MessageStart ==
    /\ phase = "none" /\ phase' = "started"
    /\ UNCHANGED <<blocks, open, content, stop, late>>

BlockStart ==
    /\ phase = "started" /\ open = {}
    /\ open' = {Len(blocks)}
    /\ \/ /\ blocks' = Append(blocks, [kind |-> "text", id |-> 0])
          /\ content' = content
       \/ \E i \in Ids :
            /\ blocks' = Append(blocks, [kind |-> "tool", id |-> i])
            /\ content' = Append(content, [kind |-> "tool", id |-> i, piece |-> 0])
    /\ UNCHANGED <<phase, stop, late>>

BlockDelta ==
    /\ phase = "started"
    /\ \E i \in 1..Len(blocks), n \in Pieces :
         /\ open = {i - 1} \/ (n \in late /\ blocks[i].kind = "tool")
         /\ content' = Append(content, [kind |-> blocks[i].kind, id |-> blocks[i].id,
                                        piece |-> n])
    /\ UNCHANGED <<phase, blocks, open, stop, late>>

\* The source sends a piece late.
Delay ==
    /\ \E n \in Pieces : late' = late \cup {n}
    /\ UNCHANGED <<phase, blocks, open, content, stop>>

BlockStop ==
    /\ phase = "started" /\ open # {}
    /\ open' = {}
    /\ UNCHANGED <<phase, blocks, content, stop, late>>

MessageDelta ==
    /\ phase = "started" /\ open = {} /\ blocks # <<>>
    /\ phase' = "closing" /\ stop' \in Reasons
    /\ UNCHANGED <<blocks, open, content, late>>

MessageStop ==
    /\ phase = "closing" /\ phase' = "stopped"
    /\ UNCHANGED <<blocks, open, content, stop, late>>

Next ==
    \/ MessageStart \/ BlockStart \/ BlockDelta \/ BlockStop
    \/ MessageDelta \/ MessageStop \/ Delay

Spec == Init /\ [][Next]_wire
=============================================================================
