---------------------------- MODULE ResponsesWire ----------------------------
(* The SSE stream a Responses client may be sent: response.created, then       *)
(* output items, each added at the next output_index, a message with one       *)
(* content part, and filled by deltas, several of them open at a time; then    *)
(* every item is closed with the whole of what its deltas brought; then        *)
(* response.completed, which holds the items, at least one.  sequence_number   *)
(* counts the events.  A stream may be cut short anywhere.                     *)
EXTENDS Integers, Sequences, FiniteSets

CONSTANTS Names,     \* names of function calls; 0 for none
          Pieces     \* numbers of the pieces of text or of arguments

VARIABLES phase,     \* how far the response is
          count,     \* the events so far
          items,     \* the output items, on their output_index
          output     \* the items of response.completed

wire == <<phase, count, items, output>>

Init == phase = "none" /\ count = 0 /\ items = <<>> /\ output = <<>>

Counted == count' = count + 1

Created ==
    /\ phase = "none" /\ phase' = "created"
    /\ Counted /\ UNCHANGED <<items, output>>

\* The next output_index; they start at 0.
NextIndex == Cardinality(DOMAIN items)

ItemAdded ==
    /\ phase = "created"
    /\ \E kind \in {"message", "call"}, name \in Names \cup {0} :
         /\ kind = "message" => name = 0
         /\ items' = [i \in 0..NextIndex |->
                        IF i \in DOMAIN items THEN items[i]
                        ELSE [kind |-> kind, name |-> name, pieces |-> <<>>,
                              state |-> "added", final |-> <<>>]]
    /\ Counted /\ UNCHANGED <<phase, output>>

\* An item moves from one state to the next, without what it holds.
Moves(i, from, to) ==
    /\ items[i].state = from
    /\ items' = [items EXCEPT ![i].state = to]
    /\ Counted /\ UNCHANGED <<phase, output>>

PartAdded ==
    /\ phase = "created"
    /\ \E i \in DOMAIN items : items[i].kind = "message" /\ Moves(i, "added", "part")

Fillable(item) == item.state = IF item.kind = "message" THEN "part" ELSE "added"

Delta ==
    /\ phase = "created"
    /\ \E i \in DOMAIN items, n \in Pieces :
         /\ Fillable(items[i])
         /\ items' = [items EXCEPT ![i].pieces = Append(@, n)]
    /\ Counted /\ UNCHANGED <<phase, output>>

\* The whole text, or the whole arguments; nothing is added to any item from here on.
ContentDone ==
    /\ phase \in {"created", "closing"} /\ phase' = "closing"
    /\ \E i \in DOMAIN items :
         /\ Fillable(items[i])
         /\ items' = [items EXCEPT ![i].state = "content", ![i].final = items[i].pieces]
    /\ Counted /\ UNCHANGED output

PartDone ==
    /\ phase = "closing"
    /\ \E i \in DOMAIN items : items[i].kind = "message" /\ Moves(i, "content", "partDone")

\* The item as it is now: a call's name may have come after its item was added.
ItemDone ==
    /\ phase = "closing"
    /\ \E i \in DOMAIN items, name \in Names \cup {0} :
         /\ items[i].state = IF items[i].kind = "message" THEN "partDone" ELSE "content"
         /\ name = items[i].name \/ (items[i].kind = "call" /\ items[i].name = 0)
         /\ items' = [items EXCEPT ![i].state = "done", ![i].name = name]
    /\ Counted /\ UNCHANGED <<phase, output>>

Completed ==
    /\ phase = "closing" /\ phase' = "completed"
    /\ \A i \in DOMAIN items : items[i].state = "done"
    /\ output' = [n \in 1..NextIndex |->
                    [kind |-> items[n - 1].kind, name |-> items[n - 1].name,
                     pieces |-> items[n - 1].final]]
    /\ Counted /\ UNCHANGED items

Next ==
    \/ Created \/ ItemAdded \/ PartAdded \/ Delta
    \/ ContentDone \/ PartDone \/ ItemDone \/ Completed

Spec == Init /\ [][Next]_wire
=============================================================================
