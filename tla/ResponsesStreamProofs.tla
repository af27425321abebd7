------------------------ MODULE ResponsesStreamProofs ------------------------
(***************************************************************************)
(* Proofs about ResponsesStream for any number of parts and tool calls.    *)
(*                                                                         *)
(* The translator runs ahead of the client: the events of a chunk are made *)
(* at once and yielded one by one, those of finalize all in one list.  The *)
(* invariant says that the events that are pending, each one allowed where *)
(* the ones before it lead (Leads), bring the client to where the          *)
(* translator is: to the same items (InStep), or to the completed response *)
(* (Done).  To yield one is then a step of the Responses API by itself.    *)
(* How the closing events of all items lead there is an induction over the *)
(* number of items.                                                        *)
(*                                                                         *)
(* Of the translator it says that every item has an output index of its    *)
(* own (Placed) and holds all of what the parts so far brought for it      *)
(* (HoldsPieces).                                                                *)
(***************************************************************************)
EXTENDS ResponsesStream, DataLemmas

-----------------------------------------------------------------------------
(* Where the pending events lead the client *)

Items == [kind : {"message", "call", "none"}, name : 0..MaxCalls, pieces : Seq(1..MaxParts)]
ItemEntries ==
    [kind : {"message", "call"}, name : 0..MaxCalls, pieces : Seq(1..MaxParts),
     state : {"added", "part", "content", "partDone", "done"}, final : Seq(1..MaxParts)]
Outputs == Seq(Items)
EventRecords ==
    [type : {"created", "item_added", "part_added", "delta", "content_done", "part_done",
             "item_done", "completed"},
     index : Nat, item : Items, output : Outputs]

CanFill(entry) == entry.state = IF entry.kind = "message" THEN "part" ELSE "added"

\* The event is about an item the client has.
AboutItem(client, e) == e.index \in DOMAIN client.items /\ e.output = client.output

\* What the protocol allows to come next.
Allowed(client, e) ==
    /\ \E n \in Nat : client.items \in [0..(n - 1) -> ItemEntries]
    /\ client.output = <<>>
    /\ CASE e.type = "created" -> client.phase = "none" /\ e.output = <<>>
         [] e.type = "item_added" ->
              /\ client.phase = "created" /\ e.output = <<>>
              /\ DOMAIN client.items = 0..(e.index - 1)
              /\ e.item.kind \in {"message", "call"} /\ e.item.name \in 0..MaxCalls
              /\ e.item.kind = "message" => e.item.name = 0
         [] e.type = "part_added" ->
              /\ client.phase = "created" /\ AboutItem(client, e)
              /\ client.items[e.index].kind = "message"
              /\ client.items[e.index].state = "added"
         [] e.type = "delta" ->
              /\ client.phase = "created" /\ AboutItem(client, e)
              /\ CanFill(client.items[e.index])
              /\ \E n \in 1..MaxParts : e.item.pieces = <<n>>
         [] e.type = "content_done" ->
              /\ client.phase \in {"created", "closing"} /\ AboutItem(client, e)
              /\ CanFill(client.items[e.index])
              /\ e.item.pieces = client.items[e.index].pieces
         [] e.type = "part_done" ->
              /\ client.phase = "closing" /\ AboutItem(client, e)
              /\ client.items[e.index].kind = "message"
              /\ client.items[e.index].state = "content"
              /\ e.item.pieces = client.items[e.index].final
         [] e.type = "item_done" ->
              /\ client.phase = "closing" /\ AboutItem(client, e)
              /\ LET entry == client.items[e.index]
                 IN  /\ entry.state = IF entry.kind = "message" THEN "partDone" ELSE "content"
                     /\ \/ e.item.name = entry.name
                        \/ entry.kind = "call" /\ entry.name = 0
                     /\ e.item.pieces = entry.final
         [] e.type = "completed" ->
              /\ client.phase = "closing"
              /\ \E n \in Nat :
                   /\ DOMAIN client.items = 0..(n - 1)
                   /\ \A i \in 0..(n - 1) : client.items[i].state = "done"
                   /\ e.output = [i \in 1..n |-> [kind |-> client.items[i - 1].kind,
                                                  name |-> client.items[i - 1].name,
                                                  pieces |-> client.items[i - 1].final]]

\* These events, one after the other and each allowed where it comes, lead there.
Leads(client, list, end) ==
    /\ list \in Seq(EventRecords)
    /\ \E play :
         /\ play[1] = client /\ play[Len(list) + 1] = end
         /\ \A k \in 1..Len(list) : /\ Allowed(play[k], list[k])
                                    /\ play[k + 1] = SeenAfter(play[k], list[k])

\* No event leads the client to where it is.
LEMMA LeadsNowhere == ASSUME NEW c PROVE Leads(c, <<>>, c)
<1> DEFINE play == [i \in {1} |-> c]
<1>1. play[1] = c /\ Len(<<>>) = 0 OBVIOUS
<1>2. \A k \in 1..0 : FALSE OBVIOUS
<1> HIDE DEF play
<1> QED BY <1>1, <1>2 DEF Leads

\* An event that is allowed leads to what the client makes of it.
LEMMA LeadsOn ==
  ASSUME NEW c, NEW e \in EventRecords, Allowed(c, e)
  PROVE  Leads(c, <<e>>, SeenAfter(c, e))
<1> DEFINE play == [i \in {1, 2} |-> IF i = 1 THEN c ELSE SeenAfter(c, e)]
<1>1. play[1] = c /\ play[2] = SeenAfter(c, e) OBVIOUS
<1>2. <<e>> \in Seq(EventRecords) /\ Len(<<e>>) = 1 /\ <<e>>[1] = e OBVIOUS
<1> HIDE DEF play
<1>3. \A k \in 1..1 : Allowed(play[k], <<e>>[k]) /\ play[k + 1] = SeenAfter(play[k], <<e>>[k])
  <2> SUFFICES ASSUME NEW k \in 1..1
      PROVE Allowed(play[k], <<e>>[k]) /\ play[k + 1] = SeenAfter(play[k], <<e>>[k])
    OBVIOUS
  <2>1. k = 1 /\ k + 1 = 2 OBVIOUS
  <2> QED BY <1>1, <1>2, <2>1
<1> QED BY <1>1, <1>2, <1>3 DEF Leads

\* Events that lead to where others lead on from.
LEMMA LeadsJoined ==
  ASSUME NEW c, NEW d, NEW e, NEW left, NEW right, Leads(c, left, d), Leads(d, right, e)
  PROVE  Leads(c, left \o right, e)
<1>1. left \in Seq(EventRecords) /\ right \in Seq(EventRecords) BY DEF Leads
<1>2. PICK p : /\ p[1] = c /\ p[Len(left) + 1] = d
               /\ \A k \in 1..Len(left) : /\ Allowed(p[k], left[k])
                                          /\ p[k + 1] = SeenAfter(p[k], left[k])
  BY DEF Leads
<1>3. PICK q : /\ q[1] = d /\ q[Len(right) + 1] = e
               /\ \A k \in 1..Len(right) : /\ Allowed(q[k], right[k])
                                           /\ q[k + 1] = SeenAfter(q[k], right[k])
  BY DEF Leads
<1>4. PICK m \in Nat, n \in Nat : m = Len(left) /\ n = Len(right) BY <1>1
<1>5. /\ left \o right \in Seq(EventRecords) /\ Len(left \o right) = m + n
      /\ \A k \in 1..m : (left \o right)[k] = left[k]
      /\ \A k \in (m + 1)..(m + n) : (left \o right)[k] = right[k - m]
  BY <1>1, <1>4, ConcatProperties
<1> DEFINE play == [k \in 1..(m + n + 1) |-> IF k <= m THEN p[k] ELSE q[k - m]]
<1>6. play[1] = c
  <2>1. CASE m = 0
    <3>1. play[1] = q[1] BY <1>4, <2>1
    <3> QED BY <1>2, <1>3, <1>4, <2>1, <3>1
  <2>2. CASE m > 0 BY <1>2, <2>2
  <2> QED BY <2>1, <2>2
<1>7. play[m + n + 1] = e
  <2>1. m + n + 1 - m = n + 1 /\ ~(m + n + 1 <= m) /\ m + n + 1 \in 1..(m + n + 1) OBVIOUS
  <2>2. play[m + n + 1] = q[n + 1] BY <2>1
  <2> QED BY <1>3, <1>4, <2>2
<1>8. ASSUME NEW k \in 1..(m + n)
      PROVE /\ Allowed(play[k], (left \o right)[k])
            /\ play[k + 1] = SeenAfter(play[k], (left \o right)[k])
  <2>1. CASE k <= m
    <3>1. k \in 1..m /\ play[k] = p[k] /\ (left \o right)[k] = left[k] BY <1>5, <2>1
    <3>2. play[k + 1] = p[k + 1]
      <4>1. CASE k < m BY <4>1
      <4>2. CASE k = m
        <5>1. play[k + 1] = q[1]
          <6>1. k + 1 - m = 1 /\ ~(k + 1 <= m) /\ k + 1 \in 1..(m + n + 1) BY <4>2
          <6> QED BY <6>1
        <5> QED BY <1>2, <1>3, <1>4, <4>2, <5>1
      <4> QED BY <2>1, <4>1, <4>2
    <3> QED BY <1>2, <1>4, <3>1, <3>2
  <2>2. CASE k > m
    <3>1. k - m \in 1..n /\ k - m + 1 = k + 1 - m BY <2>2
    <3>2. play[k] = q[k - m] /\ play[k + 1] = q[k - m + 1] BY <2>2, <3>1
    <3>3. (left \o right)[k] = right[k - m] BY <1>5, <2>2
    <3> QED BY <1>3, <1>4, <3>1, <3>2, <3>3
  <2>3. k <= m \/ k > m OBVIOUS
  <2> HIDE DEF play
  <2> QED BY <2>1, <2>2, <2>3, Zenon
<1> HIDE DEF play
<1>9. \E any : /\ any[1] = c /\ any[m + n + 1] = e
               /\ \A k \in 1..(m + n) :
                    /\ Allowed(any[k], (left \o right)[k])
                    /\ any[k + 1] = SeenAfter(any[k], (left \o right)[k])
  BY <1>6, <1>7, <1>8
<1> QED BY <1>5, <1>9 DEF Leads

\* The first of the pending events is allowed, and the others lead on from it.
LEMMA LeadsAlong ==
  ASSUME NEW c, NEW list, NEW e, Leads(c, list, e), list # <<>>
  PROVE  Allowed(c, Head(list)) /\ Leads(SeenAfter(c, Head(list)), Tail(list), e)
<1>1. list \in Seq(EventRecords) BY DEF Leads
<1>2. PICK n \in Nat : Len(list) = n + 1
  <2>1. Len(list) - 1 \in Nat /\ Len(list) = Len(list) - 1 + 1 BY <1>1
  <2> QED BY <2>1
<1>3. PICK p : /\ p[1] = c /\ p[n + 2] = e
               /\ \A k \in 1..(n + 1) : /\ Allowed(p[k], list[k])
                                        /\ p[k + 1] = SeenAfter(p[k], list[k])
  <2>1. n + 1 + 1 = n + 2 OBVIOUS
  <2> QED BY <1>2, <2>1 DEF Leads
<1>4. /\ Head(list) = list[1] /\ Tail(list) \in Seq(EventRecords) /\ Len(Tail(list)) = n
      /\ \A k \in 1..n : Tail(list)[k] = list[k + 1]
  BY <1>1, <1>2, HeadTailProperties
<1>5. Allowed(c, Head(list)) /\ p[2] = SeenAfter(c, Head(list))
  <2>1. 1 \in 1..(n + 1) /\ 1 + 1 = 2 OBVIOUS
  <2> QED BY <1>3, <1>4, <2>1
<1> DEFINE play == [k \in 1..(n + 1) |-> p[k + 1]]
<1>6. play[1] = p[2] /\ play[n + 1] = e
  <2>1. 1 + 1 = 2 /\ n + 1 + 1 = n + 2 /\ 1 \in 1..(n + 1) /\ n + 1 \in 1..(n + 1) OBVIOUS
  <2> QED BY <1>3, <2>1
<1>7. ASSUME NEW k \in 1..n
      PROVE  Allowed(play[k], Tail(list)[k]) /\ play[k + 1] = SeenAfter(play[k], Tail(list)[k])
  <2>1. play[k] = p[k + 1] /\ play[k + 1] = p[k + 1 + 1] /\ k + 1 \in 1..(n + 1) OBVIOUS
  <2> QED BY <1>3, <1>4, <2>1
<1> HIDE DEF play
<1>8. \E any : /\ any[1] = SeenAfter(c, Head(list)) /\ any[n + 1] = e
               /\ \A k \in 1..n : /\ Allowed(any[k], Tail(list)[k])
                                  /\ any[k + 1] = SeenAfter(any[k], Tail(list)[k])
  BY <1>5, <1>6, <1>7
<1> QED BY <1>4, <1>5, <1>8 DEF Leads
-----------------------------------------------------------------------------
(* What is allowed is a step of the protocol *)

\* There are n output indexes below n.
LEMMA IndexesCounted ==
  ASSUME NEW n \in Nat PROVE Cardinality(0..(n - 1)) = n
<1>1. n - 1 >= 0 \/ n = 0 OBVIOUS
<1> QED BY <1>1, FS_Interval

\* What an event makes of an entry is an entry, of the same kind.
LEMMA EntryChanges ==
  ASSUME NEW entry \in ItemEntries, NEW e \in EventRecords
  PROVE  /\ e.type \in {"part_added", "delta", "content_done", "part_done", "item_done"} =>
              Changed(entry, e) \in ItemEntries
         /\ Changed(entry, e).kind = entry.kind \/ e.type \in {"created", "item_added", "completed"}
<1>1. entry.pieces \o e.item.pieces \in Seq(1..MaxParts) BY DEF ItemEntries, EventRecords, Items
<1> QED BY <1>1 DEF Changed, ItemEntries, EventRecords, Items

\* To be sent an event that is allowed is a step of the abstract stream.
LEMMA YieldIsAStepOnTheWire ==
  ASSUME NEW e \in EventRecords, Allowed(seen, e), seen' = SeenAfter(seen, e),
         expected' = expected + 1
  PROVE  ResponsesWireOf!Next
<1>1. PICK n \in Nat : seen.items \in [0..(n - 1) -> ItemEntries] BY DEF Allowed
<1>2. DOMAIN seen.items = 0..(n - 1) /\ ResponsesWireOf!NextIndex = n
  <2>1. DOMAIN seen.items = 0..(n - 1) BY <1>1
  <2>2. ResponsesWireOf!NextIndex = Cardinality(DOMAIN seen.items)
    BY DEF ResponsesWireOf!NextIndex, ResponsesWireOf!Cardinality, Cardinality
  <2> QED BY <2>1, <2>2, IndexesCounted
<1>3. ResponsesWireOf!Counted BY DEF ResponsesWireOf!Counted
<1>4. seen.output = <<>> BY DEF Allowed
<1>5. 1..MaxCalls \cup {0} = 0..MaxCalls BY ResponsesStreamAssumption
<1>6. CASE e.type = "created"
  <2>1. ResponsesWireOf!Created
    BY <1>3, <1>4, <1>6 DEF Allowed, SeenAfter, ResponsesWireOf!Created
  <2> QED BY <2>1 DEF ResponsesWireOf!Next
<1>7. CASE e.type = "item_added"
  <2>1. e.index \in Nat BY DEF EventRecords
  <2>2. 0..(n - 1) = 0..(e.index - 1) BY <1>2, <1>7 DEF Allowed
  <2>3. e.index = n
    <3>1. Cardinality(0..(e.index - 1)) = e.index BY <2>1, IndexesCounted
    <3>2. Cardinality(0..(n - 1)) = n BY IndexesCounted
    <3> QED BY <2>2, <3>1, <3>2
  <2> DEFINE added == [kind |-> e.item.kind, name |-> e.item.name, pieces |-> <<>>,
                       state |-> "added", final |-> <<>>]
  <2>4. seen'.items = [i \in 0..n |-> IF i \in DOMAIN seen.items THEN seen.items[i] ELSE added]
    <3>1. seen'.items = Update(seen.items, n, added) BY <1>7, <2>3 DEF SeenAfter
    <3>2. 0..(n - 1) \cup {n} = 0..n OBVIOUS
    <3> QED BY <1>2, <3>1, <3>2 DEF Update
  <2>5. ResponsesWireOf!ItemAdded
    <3>1. seen.phase = "created" /\ seen'.phase = seen.phase /\ seen'.output = seen.output
      BY <1>4, <1>7 DEF Allowed, SeenAfter
    <3>2. /\ e.item.kind \in {"message", "call"} /\ e.item.name \in 1..MaxCalls \cup {0}
          /\ e.item.kind = "message" => e.item.name = 0
      BY <1>5, <1>7 DEF Allowed
    <3> QED BY <1>2, <1>3, <2>4, <3>1, <3>2 DEF ResponsesWireOf!ItemAdded
  <2> QED BY <2>5 DEF ResponsesWireOf!Next
<1>8. CASE e.type \notin {"created", "item_added", "completed"}
  <2>1. AboutItem(seen, e) BY <1>8 DEF Allowed, EventRecords
  <2>2. e.index \in DOMAIN seen.items /\ e.output = seen.output BY <2>1 DEF AboutItem
  <2> DEFINE entry == seen.items[e.index]
  <2>3. /\ seen'.items = [seen.items EXCEPT ![e.index] = Changed(@, e)]
        /\ seen'.output = seen.output
        /\ seen'.phase = IF e.type = "content_done" THEN "closing" ELSE seen.phase
    BY <1>8, <2>2 DEF SeenAfter
  <2>4. entry \in ItemEntries BY <1>1, <1>2, <2>2
  <2>5. CASE e.type = "part_added"
    <3>1. Changed(entry, e) = [entry EXCEPT !.state = "part"] BY <2>5 DEF Changed
    <3>2. ResponsesWireOf!PartAdded
      BY <1>3, <2>2, <2>3, <2>5, <3>1
      DEF Allowed, ResponsesWireOf!PartAdded, ResponsesWireOf!Moves
    <3> QED BY <3>2 DEF ResponsesWireOf!Next
  <2>6. CASE e.type = "delta"
    <3>1. Changed(entry, e) = [entry EXCEPT !.pieces = @ \o e.item.pieces]
      BY <2>6 DEF Changed
    <3>2. PICK piece \in 1..MaxParts : e.item.pieces = <<piece>> BY <2>6 DEF Allowed
    <3>3. entry.pieces \o <<piece>> = Append(entry.pieces, piece)
      BY <2>4, AppendIsConcat DEF ItemEntries
    <3>4. seen'.items = [seen.items EXCEPT ![e.index].pieces = Append(@, piece)]
      BY <2>3, <3>1, <3>2, <3>3
    <3>5. ResponsesWireOf!Fillable(entry)
      BY <2>6 DEF Allowed, CanFill, ResponsesWireOf!Fillable
    <3>6. ResponsesWireOf!Delta
      BY <1>3, <2>2, <2>3, <2>6, <3>4, <3>5 DEF Allowed, ResponsesWireOf!Delta
    <3> QED BY <3>6 DEF ResponsesWireOf!Next
  <2>7. CASE e.type = "content_done"
    <3>1. Changed(entry, e) = [entry EXCEPT !.state = "content", !.final = e.item.pieces]
      BY <2>7 DEF Changed
    <3>2. ResponsesWireOf!Fillable(entry) /\ e.item.pieces = entry.pieces
      BY <2>7 DEF Allowed, CanFill, ResponsesWireOf!Fillable
    <3>3. seen'.items =
            [seen.items EXCEPT ![e.index].state = "content",
                               ![e.index].final = seen.items[e.index].pieces]
      BY <2>3, <3>1, <3>2
    <3>4. ResponsesWireOf!ContentDone
      BY <1>3, <2>2, <2>3, <2>7, <3>2, <3>3 DEF Allowed, ResponsesWireOf!ContentDone
    <3> QED BY <3>4 DEF ResponsesWireOf!Next
  <2>8. CASE e.type = "part_done"
    <3>1. e.item.pieces = entry.final BY <2>8 DEF Allowed
    <3>2. Changed(entry, e) = [entry EXCEPT !.state = "partDone"]
      <4>1. Changed(entry, e) = [entry EXCEPT !.state = "partDone", !.final = e.item.pieces]
        BY <2>8 DEF Changed
      <4> QED BY <2>4, <3>1, <4>1 DEF ItemEntries
    <3>3. ResponsesWireOf!PartDone
      BY <1>3, <2>2, <2>3, <2>8, <3>2
      DEF Allowed, ResponsesWireOf!PartDone, ResponsesWireOf!Moves
    <3> QED BY <3>3 DEF ResponsesWireOf!Next
  <2>9. CASE e.type = "item_done"
    <3>1. e.item.pieces = entry.final BY <2>9 DEF Allowed
    <3>2. Changed(entry, e) = [entry EXCEPT !.state = "done", !.name = e.item.name]
      <4>1. Changed(entry, e) = [entry EXCEPT !.state = "done", !.name = e.item.name,
                                              !.final = e.item.pieces]
        BY <2>9 DEF Changed
      <4> QED BY <2>4, <3>1, <4>1 DEF ItemEntries
    <3>3. e.item.name \in 1..MaxCalls \cup {0} BY <1>5 DEF EventRecords, Items
    <3>4. seen'.items = [seen.items EXCEPT ![e.index].state = "done",
                                           ![e.index].name = e.item.name]
      BY <2>3, <3>2
    <3>5. ResponsesWireOf!ItemDone
      <4>1. seen.phase = "closing" /\ seen'.phase = seen.phase BY <2>3, <2>9 DEF Allowed
      <4>2. /\ entry.state = IF entry.kind = "message" THEN "partDone" ELSE "content"
            /\ e.item.name = entry.name \/ (entry.kind = "call" /\ entry.name = 0)
        BY <2>9 DEF Allowed
      <4> QED BY <1>3, <2>2, <2>3, <3>3, <3>4, <4>1, <4>2 DEF ResponsesWireOf!ItemDone
    <3> QED BY <3>5 DEF ResponsesWireOf!Next
  <2> QED BY <1>8, <2>5, <2>6, <2>7, <2>8, <2>9 DEF EventRecords
<1>9. CASE e.type = "completed"
  <2>1. /\ seen.phase = "closing" /\ seen'.phase = "completed" /\ seen'.items = seen.items
        /\ seen'.output = e.output
    BY <1>9 DEF Allowed, SeenAfter
  <2>2. PICK m \in Nat :
          /\ DOMAIN seen.items = 0..(m - 1)
          /\ \A i \in 0..(m - 1) : seen.items[i].state = "done"
          /\ e.output = [i \in 1..m |-> [kind |-> seen.items[i - 1].kind,
                                         name |-> seen.items[i - 1].name,
                                         pieces |-> seen.items[i - 1].final]]
    BY <1>9 DEF Allowed
  <2>3. m = n BY <1>2, <2>2, IndexesCounted
  <2>4. ResponsesWireOf!Completed
    BY <1>2, <1>3, <2>1, <2>2, <2>3 DEF ResponsesWireOf!Completed
  <2> QED BY <2>4 DEF ResponsesWireOf!Next
<1> QED BY <1>6, <1>7, <1>8, <1>9 DEF EventRecords
-----------------------------------------------------------------------------
(* What the events of a chunk do to the client *)

Entry(kind, name, pieces, state) ==
    [kind |-> kind, name |-> name, pieces |-> pieces, state |-> state, final |-> <<>>]

\* A client that is being sent items, and has n of them.
Ready(client, n) ==
    /\ client = [phase |-> "created", items |-> client.items, output |-> <<>>]
    /\ client.items \in [0..(n - 1) -> ItemEntries]

WithItem(client, x, entry) ==
    [phase |-> "created", items |-> Update(client.items, x, entry), output |-> <<>>]

\* The later entry of an item stays.
LEMMA WithTwice ==
  ASSUME NEW c, NEW x, NEW one, NEW other
  PROVE  WithItem(WithItem(c, x, one), x, other) = WithItem(c, x, other)
BY DEF WithItem, Update

\* The client with an entry that is new, or instead of one it has.
LEMMA ReadyWith ==
  ASSUME NEW c, NEW n \in Nat, NEW m \in Nat, NEW x \in 0..(m - 1), NEW entry \in ItemEntries,
         Ready(c, n), 0..(m - 1) = 0..(n - 1) \cup {x}
  PROVE  /\ Ready(WithItem(c, x, entry), m)
         /\ WithItem(c, x, entry).items[x] = entry
         /\ \A y \in 0..(n - 1) : y # x => WithItem(c, x, entry).items[y] = c.items[y]
<1>1. DOMAIN c.items = 0..(n - 1) BY DEF Ready
<1>2. WithItem(c, x, entry).items = [z \in 0..(m - 1) |-> IF z = x THEN entry ELSE c.items[z]]
  BY <1>1 DEF WithItem, Update
<1>3. WithItem(c, x, entry).items \in [0..(m - 1) -> ItemEntries]
  <2>1. \A z \in 0..(m - 1) : z # x => c.items[z] \in ItemEntries BY DEF Ready
  <2> QED BY <1>2, <2>1
<1>4. Ready(WithItem(c, x, entry), m) BY <1>3 DEF Ready, WithItem
<1> QED BY <1>2, <1>4

\* An entry for an item the client has replaces that item's.
LEMMA WithReplaced ==
  ASSUME NEW c, NEW n \in Nat, NEW x \in 0..(n - 1), NEW entry, Ready(c, n)
  PROVE  WithItem(c, x, entry).items = [c.items EXCEPT ![x] = entry]
<1>1. c.items = [z \in 0..(n - 1) |-> c.items[z]] BY DEF Ready
<1>2. 0..(n - 1) \cup {x} = 0..(n - 1) OBVIOUS
<1> QED BY <1>1, <1>2 DEF WithItem, Update

\* An entry for the next output index makes one item more.
LEMMA ReadyWithNew ==
  ASSUME NEW c, NEW n \in Nat, NEW entry \in ItemEntries, Ready(c, n)
  PROVE  Ready(WithItem(c, n, entry), n + 1) /\ WithItem(c, n, entry).items[n] = entry
<1>1. PICK m \in Nat : m = n + 1 OBVIOUS
<1>2. n \in 0..(m - 1) /\ 0..(m - 1) = 0..(n - 1) \cup {n} BY <1>1
<1> QED BY <1>1, <1>2, ReadyWith

\* response.created comes first.
LEMMA CreatedLeads ==
  ASSUME NEW c, NEW n \in Nat, c.items \in [0..(n - 1) -> ItemEntries],
         c = [phase |-> "none", items |-> c.items, output |-> <<>>]
  PROVE  Leads(c, <<Event("created", 0, NoItem)>>,
               [phase |-> "created", items |-> c.items, output |-> <<>>])
<1> DEFINE e == Event("created", 0, NoItem)
<1>1. e \in EventRecords
  BY ResponsesStreamAssumption DEF Event, NoItem, Item, EventRecords, Items, Outputs
<1>2. Allowed(c, e) BY DEF Allowed, Event
<1>3. SeenAfter(c, e) = [phase |-> "created", items |-> c.items, output |-> <<>>]
  BY DEF SeenAfter, Event
<1> QED BY <1>1, <1>2, <1>3, LeadsOn

\* An item is added under the next output index.
LEMMA ItemAddedLeads ==
  ASSUME NEW n \in Nat, NEW c, Ready(c, n), NEW kind \in {"message", "call"},
         NEW name \in 0..MaxCalls, kind = "message" => name = 0
  PROVE  Leads(c, <<Event("item_added", n, Item(kind, name, <<>>))>>,
               WithItem(c, n, Entry(kind, name, <<>>, "added")))
<1> DEFINE e == Event("item_added", n, Item(kind, name, <<>>))
<1>1. /\ e \in EventRecords /\ e.type = "item_added" /\ e.index = n /\ e.output = <<>>
      /\ e.item.kind = kind /\ e.item.name = name
  BY DEF Event, Item, EventRecords, Items, Outputs
<1>2. Allowed(c, e)
  <2>1. c.phase = "created" /\ c.output = <<>> /\ DOMAIN c.items = 0..(n - 1) BY DEF Ready
  <2>2. c.items \in [0..(n - 1) -> ItemEntries] BY DEF Ready
  <2> HIDE DEF e
  <2> QED BY <1>1, <2>1, <2>2 DEF Allowed
<1>3. SeenAfter(c, e) = WithItem(c, n, Entry(kind, name, <<>>, "added"))
  BY <1>1 DEF SeenAfter, WithItem, Entry, Ready
<1> QED BY <1>1, <1>2, <1>3, LeadsOn

\* The part of a message that was added.
LEMMA PartAddedLeads ==
  ASSUME NEW n \in Nat, NEW c, Ready(c, n), NEW x \in 0..(n - 1),
         c.items[x] = Entry("message", 0, <<>>, "added")
  PROVE  Leads(c, <<Event("part_added", x, NoItem)>>,
               WithItem(c, x, Entry("message", 0, <<>>, "part")))
<1> DEFINE e == Event("part_added", x, NoItem)
           entry == Entry("message", 0, <<>>, "part")
<1>1. /\ e \in EventRecords /\ e.type = "part_added" /\ e.index = x /\ e.output = <<>>
  BY ResponsesStreamAssumption DEF Event, NoItem, Item, EventRecords, Items, Outputs
<1>2. Allowed(c, e) BY <1>1, SMTT(30) DEF Allowed, Ready, AboutItem, Entry
<1>3. Changed(c.items[x], e) = entry BY <1>1 DEF Changed, Entry
<1>4. entry \in ItemEntries BY ResponsesStreamAssumption DEF Entry, ItemEntries
<1>5. WithItem(c, x, entry).items = [c.items EXCEPT ![x] = entry] BY WithReplaced
<1>6. SeenAfter(c, e) = WithItem(c, x, entry)
  <2>1. SeenAfter(c, e) = [phase |-> c.phase, items |-> [c.items EXCEPT ![x] = Changed(@, e)],
                           output |-> <<>>]
    BY <1>1 DEF SeenAfter
  <2>2. c.phase = "created" BY DEF Ready
  <2> HIDE DEF entry, e
  <2> QED BY <1>3, <1>5, <2>1, <2>2 DEF WithItem
<1> QED BY <1>1, <1>2, <1>6, LeadsOn

\* A delta, of an item that is not closed.
LEMMA DeltaLeads ==
  ASSUME NEW n \in Nat, NEW c, Ready(c, n), NEW x \in 0..(n - 1), CanFill(c.items[x]),
         NEW kind \in {"message", "call"}, NEW piece \in 1..MaxParts
  PROVE  /\ Leads(c, <<Event("delta", x, Item(kind, 0, <<piece>>))>>,
                  WithItem(c, x, [c.items[x] EXCEPT !.pieces = @ \o <<piece>>]))
         /\ [c.items[x] EXCEPT !.pieces = @ \o <<piece>>] \in ItemEntries
<1> DEFINE e == Event("delta", x, Item(kind, 0, <<piece>>))
           entry == [c.items[x] EXCEPT !.pieces = @ \o <<piece>>]
<1>1. /\ e \in EventRecords /\ e.type = "delta" /\ e.index = x /\ e.output = <<>>
      /\ e.item.pieces = <<piece>>
  BY ResponsesStreamAssumption DEF Event, Item, EventRecords, Items, Outputs
<1>2. Allowed(c, e)
  <2>1. c.phase = "created" /\ c.output = <<>> /\ x \in DOMAIN c.items BY DEF Ready
  <2>2. c.items \in [0..(n - 1) -> ItemEntries] BY DEF Ready
  <2>3. AboutItem(c, e) BY <1>1, <2>1 DEF AboutItem
  <2> HIDE DEF e
  <2> QED BY <1>1, <2>1, <2>2, <2>3 DEF Allowed
<1>3. Changed(c.items[x], e) = entry BY <1>1 DEF Changed
<1>4. entry \in ItemEntries
  <2>1. c.items[x] \in ItemEntries BY DEF Ready
  <2>2. c.items[x].pieces \o <<piece>> \in Seq(1..MaxParts) BY <2>1 DEF ItemEntries
  <2> QED BY <2>1, <2>2 DEF ItemEntries
<1> HIDE DEF entry
<1>5. WithItem(c, x, entry).items = [c.items EXCEPT ![x] = entry] BY WithReplaced
<1>6. SeenAfter(c, e) = WithItem(c, x, entry)
  <2>1. SeenAfter(c, e) = [phase |-> c.phase, items |-> [c.items EXCEPT ![x] = Changed(@, e)],
                           output |-> <<>>]
    BY <1>1 DEF SeenAfter
  <2>2. c.phase = "created" BY DEF Ready
  <2> HIDE DEF e
  <2> QED BY <1>3, <1>5, <2>1, <2>2 DEF WithItem
<1>7. Leads(c, <<e>>, WithItem(c, x, entry)) BY <1>1, <1>2, <1>6, LeadsOn
<1> QED BY <1>4, <1>7 DEF entry
-----------------------------------------------------------------------------
(* What the translator holds *)

\* The output_index of the text, or of a call.
Position(tr, of) == IF of = Message THEN tr.textIndex ELSE tr.tools[of].index

ItemOf(tr, of) ==
    IF of = Message THEN Item("message", 0, tr.text)
    ELSE Item("call", tr.tools[of].name, tr.tools[of].args)

\* What it has items for.
Carried(tr) == DOMAIN tr.tools \cup IF tr.textIndex = NoIndex THEN {} ELSE {Message}

CallItems == [index : Nat, name : 0..MaxCalls, args : Seq(1..MaxParts)]

TranslatorTyped(tr) ==
    /\ tr \in [created : BOOLEAN, seq : Nat, next : Nat, textIndex : {NoIndex} \cup Nat,
               text : Seq(1..MaxParts), tools : {tr.tools}]
    /\ DOMAIN tr.tools \subseteq 0..(MaxCalls - 1)
    /\ tr.tools \in [DOMAIN tr.tools -> CallItems]
    /\ tr.textIndex = NoIndex => tr.text = <<>>

\* The items have one output_index each, and there is none without an item.
Placed(tr) ==
    /\ \A of \in Carried(tr) : Position(tr, of) \in 0..(tr.next - 1)
    /\ \A one, other \in Carried(tr) :
         Position(tr, one) = Position(tr, other) => one = other
    /\ \A x \in 0..(tr.next - 1) : \E of \in Carried(tr) : Position(tr, of) = x
    /\ tr.next > 0 => tr.created

\* One more piece, or name, or item.
Adds(tr, t, of, name, pieces) ==
    /\ t.created
    /\ Carried(t) = Carried(tr) \cup {of}
    /\ \A one \in Carried(tr) : Position(t, one) = Position(tr, one)
    /\ \A one \in Carried(tr) \ {of} : ItemOf(t, one) = ItemOf(tr, one)
    /\ of \in Carried(tr) =>
         /\ t.next = tr.next
         /\ ItemOf(t, of) = Item(ItemOf(tr, of).kind,
                                 IF ItemOf(tr, of).name = 0 THEN name ELSE ItemOf(tr, of).name,
                                 ItemOf(tr, of).pieces \o pieces)
    /\ of \notin Carried(tr) =>
         /\ t.next = tr.next + 1 /\ Position(t, of) = tr.next
         /\ ItemOf(t, of) = Item(IF of = Message THEN "message" ELSE "call", name, pieces)

\* What the client has of an item that is not closed yet: perhaps not its name.
Agrees(entry, item) ==
    /\ entry \in ItemEntries /\ CanFill(entry)
    /\ entry.kind = item.kind /\ entry.pieces = item.pieces
    /\ (entry.name = item.name \/ (entry.kind = "call" /\ entry.name = 0))

InStep(client, tr) ==
    /\ client = [phase |-> IF tr.created THEN "created" ELSE "none",
                 items |-> client.items, output |-> <<>>]
    /\ client.items \in [0..(tr.next - 1) -> ItemEntries]
    /\ \A of \in Carried(tr) : Agrees(client.items[Position(tr, of)], ItemOf(tr, of))

\* The items keep their places, and a new one takes the next.
LEMMA PlacedWithOneMore ==
  ASSUME NEW tr, NEW t, NEW of, NEW name, NEW pieces, TranslatorTyped(tr), Placed(tr),
         Adds(tr, t, of, name, pieces)
  PROVE  Placed(t)
<1>1. tr.next \in Nat BY DEF TranslatorTyped
<1>2. CASE of \in Carried(tr)
  <2>1. Carried(t) = Carried(tr) /\ t.next = tr.next /\ t.created BY <1>2 DEF Adds
  <2>2. \A one \in Carried(tr) : Position(t, one) = Position(tr, one) BY DEF Adds
  <2> QED BY <2>1, <2>2 DEF Placed
<1>3. CASE of \notin Carried(tr)
  <2>1. /\ Carried(t) = Carried(tr) \cup {of} /\ t.next = tr.next + 1 /\ t.created
        /\ Position(t, of) = tr.next
    BY <1>3 DEF Adds
  <2>2. \A one \in Carried(tr) : Position(t, one) = Position(tr, one) BY DEF Adds
  <2>3. \A one \in Carried(tr) : Position(tr, one) \in 0..(tr.next - 1) BY DEF Placed
  <2>4. \A one \in Carried(t) : Position(t, one) \in 0..(t.next - 1)
    BY <1>1, <2>1, <2>2, <2>3
  <2>5. \A one \in Carried(tr) : Position(t, one) # tr.next BY <1>1, <2>2, <2>3
  <2>6. \A one, other \in Carried(t) : Position(t, one) = Position(t, other) => one = other
    BY <2>1, <2>2, <2>5 DEF Placed
  <2>7. \A x \in 0..(t.next - 1) : \E one \in Carried(t) : Position(t, one) = x
    <3> SUFFICES ASSUME NEW x \in 0..(t.next - 1)
        PROVE \E one \in Carried(t) : Position(t, one) = x
      OBVIOUS
    <3>1. x = tr.next \/ x \in 0..(tr.next - 1) BY <1>1, <2>1
    <3>2. CASE x \in 0..(tr.next - 1)
      <4>1. PICK one \in Carried(tr) : Position(tr, one) = x BY <3>2 DEF Placed
      <4> QED BY <2>1, <2>2, <4>1
    <3> QED BY <2>1, <3>1, <3>2
  <2> QED BY <2>1, <2>4, <2>6, <2>7 DEF Placed
<1> QED BY <1>2, <1>3

\* The client is in step with the translator when it has the item that was added to.
LEMMA InStepWithOneMore ==
  ASSUME NEW tr, NEW t, NEW of, NEW name, NEW pieces, TranslatorTyped(tr), Placed(tr),
         Adds(tr, t, of, name, pieces), NEW c, Ready(c, tr.next),
         \A one \in Carried(tr) : Agrees(c.items[Position(tr, one)], ItemOf(tr, one)),
         NEW entry, Agrees(entry, ItemOf(t, of))
  PROVE  InStep(WithItem(c, Position(t, of), entry), t)
<1> DEFINE x == Position(t, of)
           d == WithItem(c, x, entry)
<1>1. tr.next \in Nat BY DEF TranslatorTyped
<1>2. entry \in ItemEntries BY DEF Agrees
<1>3. /\ x \in Nat /\ t.next \in Nat
      /\ \/ x < tr.next /\ t.next = tr.next
         \/ x = tr.next /\ t.next = tr.next + 1
  <2>1. CASE of \in Carried(tr)
    <3>1. x \in 0..(tr.next - 1) /\ t.next = tr.next BY <2>1 DEF Adds, Placed
    <3> QED BY <1>1, <3>1
  <2>2. CASE of \notin Carried(tr) BY <1>1, <2>2 DEF Adds
  <2> QED BY <2>1, <2>2
<1> HIDE DEF x
<1>4. /\ Ready(d, t.next) /\ d.items[x] = entry
      /\ \A y \in 0..(tr.next - 1) : y # x => d.items[y] = c.items[y]
  <2>1. PICK n \in Nat, m \in Nat : n = tr.next /\ m = t.next BY <1>1, <1>3
  <2>2. x \in 0..(m - 1) /\ 0..(m - 1) = 0..(n - 1) \cup {x} BY <1>3, <2>1
  <2>3. Ready(c, n) BY <2>1
  <2> QED BY <1>2, <2>1, <2>2, <2>3, ReadyWith
<1>5. ASSUME NEW one \in Carried(t)
      PROVE  Agrees(d.items[Position(t, one)], ItemOf(t, one))
  <2>1. CASE one = of BY <1>4, <2>1 DEF x
  <2>2. CASE one # of
    <3>1. one \in Carried(tr) /\ of \in Carried(t) BY <2>2 DEF Adds
    <3>2. Position(t, one) = Position(tr, one) /\ ItemOf(t, one) = ItemOf(tr, one)
      BY <2>2, <3>1 DEF Adds
    <3>3. Position(t, one) # x BY <2>2, <3>1, PlacedWithOneMore DEF Placed, x
    <3>4. Position(tr, one) \in 0..(tr.next - 1) BY <3>1 DEF Placed
    <3> QED BY <1>4, <3>1, <3>2, <3>3, <3>4
  <2> QED BY <2>1, <2>2
<1>6. t.created BY DEF Adds
<1> QED BY <1>4, <1>5, <1>6 DEF InStep, Ready, x
\* The translator after it made n events.
Emitted(state, n) == [state EXCEPT !.created = TRUE, !.seq = @ + n]

WithText(tr, index, piece) ==
    [tr EXCEPT !.textIndex = index, !.text = Append(@, piece),
               !.next = IF tr.textIndex = NoIndex THEN @ + 1 ELSE @]

\* The call as the chunk finds it.
ToolOf(tr, call, name) ==
    IF call \notin DOMAIN tr.tools THEN [index |-> tr.next, name |-> name, args |-> <<>>]
    ELSE tr.tools[call]

WithTool(tr, call, tool) ==
    [tr EXCEPT !.tools = Update(@, call, tool),
               !.next = IF call \notin DOMAIN tr.tools THEN @ + 1 ELSE @]

\* A part of text adds to the message, or opens it.
LEMMA TextAdds ==
  ASSUME NEW tr, TranslatorTyped(tr), NEW piece \in 1..MaxParts, NEW n \in Nat, NEW index,
         index = IF tr.textIndex = NoIndex THEN tr.next ELSE tr.textIndex
  PROVE  /\ TranslatorTyped(Emitted(WithText(tr, index, piece), n))
         /\ Adds(tr, Emitted(WithText(tr, index, piece), n), Message, 0, <<piece>>)
         /\ Position(Emitted(WithText(tr, index, piece), n), Message) = index
<1> DEFINE state == WithText(tr, index, piece)
           t == Emitted(state, n)
<1>1. /\ t.created /\ t.seq = tr.seq + n /\ t.textIndex = index /\ index \in Nat
      /\ t.next = IF tr.textIndex = NoIndex THEN tr.next + 1 ELSE tr.next
      /\ t.text = Append(tr.text, piece) /\ t.tools = tr.tools
      /\ t \in [created : BOOLEAN, seq : Nat, next : Nat, textIndex : {NoIndex} \cup Nat,
                text : Seq(1..MaxParts), tools : {tr.tools}]
  <2> DEFINE next == IF tr.textIndex = NoIndex THEN tr.next + 1 ELSE tr.next
             text == Append(tr.text, piece)
  <2>1. tr \in [created : BOOLEAN, seq : Nat, next : Nat, textIndex : {NoIndex} \cup Nat,
                text : Seq(1..MaxParts), tools : {tr.tools}]
    BY DEF TranslatorTyped
  <2>2. index \in Nat /\ next \in Nat /\ text \in Seq(1..MaxParts) BY <2>1
  <2>3. state = [tr EXCEPT !.textIndex = index, !.text = text, !.next = next]
    BY DEF WithText
  <2> HIDE DEF next, text, state
  <2>4. state \in [created : BOOLEAN, seq : {tr.seq}, next : {next},
                   textIndex : {index}, text : {text}, tools : {tr.tools}]
    BY <2>1, <2>3
  <2>5. /\ t.created /\ t.seq = tr.seq + n /\ t.next = next /\ t.textIndex = index
        /\ t.text = text /\ t.tools = tr.tools
        /\ t \in [created : BOOLEAN, seq : Nat, next : Nat, textIndex : {NoIndex} \cup Nat,
                  text : Seq(1..MaxParts), tools : {tr.tools}]
    <3>1. tr.seq + n \in Nat BY <2>1
    <3>2. t \in [created : BOOLEAN, seq : {tr.seq + n}, next : {next},
                 textIndex : {index}, text : {text}, tools : {tr.tools}]
      BY <2>4 DEF Emitted
    <3>3. t.created = TRUE BY <2>4 DEF Emitted
    <3> HIDE DEF t
    <3> QED BY <2>2, <3>1, <3>2, <3>3
  <2> HIDE DEF t
  <2> QED BY <2>2, <2>5 DEF next, text
<1>2. tr.text \in Seq(1..MaxParts) /\ t.text = tr.text \o <<piece>> /\ t.text \in Seq(1..MaxParts)
  <2>1. tr.text \in Seq(1..MaxParts) BY DEF TranslatorTyped
  <2> HIDE DEF t
  <2> QED BY <1>1, <2>1, AppendIsConcat
<1>3. tr.textIndex = NoIndex => tr.text = <<>> BY DEF TranslatorTyped
<1>4. Message \notin DOMAIN tr.tools BY ResponsesStreamAssumption DEF TranslatorTyped, Message
<1> HIDE DEF t
<1>5. TranslatorTyped(t) BY <1>1, <1>2 DEF TranslatorTyped, NoIndex
<1>6. Carried(t) = Carried(tr) \cup {Message} BY <1>1 DEF Carried, NoIndex
<1>7. \A one \in Carried(tr) : Position(t, one) = Position(tr, one)
  BY <1>1, <1>4 DEF Position, Carried
<1>8. \A one \in Carried(tr) \ {Message} : ItemOf(t, one) = ItemOf(tr, one)
  BY <1>1 DEF ItemOf
<1>9. Message \in Carried(tr) <=> tr.textIndex # NoIndex BY <1>4 DEF Carried
<1>10. /\ ItemOf(tr, Message).kind = "message" /\ ItemOf(tr, Message).name = 0
       /\ ItemOf(tr, Message).pieces = tr.text /\ ItemOf(t, Message) = Item("message", 0, t.text)
  BY DEF ItemOf, Item
<1>11. tr.textIndex = NoIndex => t.text = <<piece>>
  <2>1. <<>> \o <<piece>> = <<piece>> OBVIOUS
  <2> QED BY <1>2, <1>3, <2>1
<1>12. Position(t, Message) = index BY <1>1 DEF Position
<1>13. Adds(tr, t, Message, 0, <<piece>>)
  BY <1>1, <1>2, <1>6, <1>7, <1>8, <1>9, <1>10, <1>11, <1>12 DEF Adds
<1> QED BY <1>5, <1>12, <1>13 DEF t

\* A part of a tool call adds to the call, or opens it.
LEMMA ToolAdds ==
  ASSUME NEW tr, TranslatorTyped(tr), NEW call \in 0..(MaxCalls - 1), NEW n \in Nat,
         NEW name \in 0..MaxCalls, NEW pieces \in Seq(1..MaxParts), NEW tool,
         tool = ToolOf(tr, call, name)
  PROVE  /\ TranslatorTyped(Emitted(WithTool(tr, call, Filled(tool, name, pieces)), n))
         /\ Adds(tr, Emitted(WithTool(tr, call, Filled(tool, name, pieces)), n), call,
                 name, pieces)
         /\ Position(Emitted(WithTool(tr, call, Filled(tool, name, pieces)), n), call) =
              tool.index
<1> DEFINE full == Filled(tool, name, pieces)
           state == WithTool(tr, call, full)
           t == Emitted(state, n)
<1>1. /\ t.created /\ t.seq = tr.seq + n /\ t.textIndex = tr.textIndex
      /\ t.next = IF call \notin DOMAIN tr.tools THEN tr.next + 1 ELSE tr.next
      /\ t.text = tr.text /\ t.tools = Update(tr.tools, call, full)
      /\ t \in [created : BOOLEAN, seq : Nat, next : Nat, textIndex : {NoIndex} \cup Nat,
                text : Seq(1..MaxParts), tools : {t.tools}]
  <2> DEFINE next == IF call \notin DOMAIN tr.tools THEN tr.next + 1 ELSE tr.next
             tools == Update(tr.tools, call, full)
  <2>1. tr \in [created : BOOLEAN, seq : Nat, next : Nat, textIndex : {NoIndex} \cup Nat,
                text : Seq(1..MaxParts), tools : {tr.tools}]
    BY DEF TranslatorTyped
  <2>2. next \in Nat /\ tr.textIndex \in {NoIndex} \cup Nat /\ tr.text \in Seq(1..MaxParts)
    BY <2>1
  <2>3. state = [tr EXCEPT !.tools = tools, !.next = next] BY DEF WithTool
  <2> HIDE DEF next, tools, full, state
  <2>4. state \in [created : BOOLEAN, seq : {tr.seq}, next : {next},
                   textIndex : {tr.textIndex}, text : {tr.text}, tools : {tools}]
    BY <2>1, <2>3
  <2>5. /\ t.created /\ t.seq = tr.seq + n /\ t.next = next /\ t.textIndex = tr.textIndex
        /\ t.text = tr.text /\ t.tools = tools
        /\ t \in [created : BOOLEAN, seq : Nat, next : Nat, textIndex : {NoIndex} \cup Nat,
                  text : Seq(1..MaxParts), tools : {tools}]
    <3>1. tr.seq + n \in Nat BY <2>1
    <3>2. t \in [created : BOOLEAN, seq : {tr.seq + n}, next : {next},
                 textIndex : {tr.textIndex}, text : {tr.text}, tools : {tools}]
      BY <2>4 DEF Emitted
    <3>3. t.created = TRUE BY <2>4 DEF Emitted
    <3> HIDE DEF t
    <3> QED BY <2>2, <3>1, <3>2, <3>3
  <2> HIDE DEF t
  <2> QED BY <2>5 DEF next, tools
<1>2. tool \in CallItems
  <2>1. CASE call \notin DOMAIN tr.tools
    <3>1. tr.next \in Nat BY DEF TranslatorTyped
    <3> QED BY <2>1, <3>1 DEF CallItems, ToolOf
  <2>2. CASE call \in DOMAIN tr.tools BY <2>2 DEF TranslatorTyped, ToolOf
  <2> QED BY <2>1, <2>2
<1>3. /\ full \in CallItems /\ full.index = tool.index /\ full.args = tool.args \o pieces
      /\ full.name = IF tool.name = 0 THEN name ELSE tool.name
  <2>0. tool.args \in Seq(1..MaxParts) BY <1>2 DEF CallItems
  <2>1. tool.args \o pieces \in Seq(1..MaxParts) BY <2>0, ConcatProperties, Zenon
  <2> QED BY <1>2, <2>1 DEF Filled, CallItems
<1>4. call # Message BY DEF Message
<1> HIDE DEF t, full, state
<1>5. /\ DOMAIN t.tools = DOMAIN tr.tools \cup {call} /\ t.tools[call] = full
      /\ \A one \in DOMAIN tr.tools : one # call => t.tools[one] = tr.tools[one]
      /\ t.tools \in [DOMAIN t.tools -> CallItems]
  <2>1. /\ DOMAIN tr.tools \subseteq 0..(MaxCalls - 1) /\ tr.tools \in [DOMAIN tr.tools -> CallItems]
    BY DEF TranslatorTyped
  <2> QED BY <1>1, <1>3, <2>1 DEF Update
<1>6. TranslatorTyped(t)
  <2>1. /\ DOMAIN tr.tools \subseteq 0..(MaxCalls - 1)
        /\ tr.textIndex = NoIndex => tr.text = <<>>
    BY DEF TranslatorTyped
  <2> QED BY <1>1, <1>5, <2>1 DEF TranslatorTyped
<1>7. call \in Carried(tr) <=> call \in DOMAIN tr.tools BY <1>4 DEF Carried
<1>8. Carried(t) = Carried(tr) \cup {call} BY <1>1, <1>5 DEF Carried
<1>9. \A one \in Carried(tr) : Position(t, one) = Position(tr, one)
  <2>1. \A one \in DOMAIN tr.tools : t.tools[one].index = tr.tools[one].index
    BY <1>3, <1>5 DEF ToolOf
  <2> QED BY <1>1, <2>1 DEF Position, Carried
<1>10. \A one \in Carried(tr) \ {call} : ItemOf(t, one) = ItemOf(tr, one)
  BY <1>1, <1>5 DEF ItemOf, Carried
<1>11. Position(t, call) = tool.index BY <1>3, <1>4, <1>5 DEF Position
<1>12. ItemOf(t, call) = Item("call", full.name, full.args) BY <1>4, <1>5 DEF ItemOf
<1>13. ASSUME call \in Carried(tr)
       PROVE  /\ t.next = tr.next
              /\ ItemOf(t, call) =
                   Item(ItemOf(tr, call).kind,
                        IF ItemOf(tr, call).name = 0 THEN name ELSE ItemOf(tr, call).name,
                        ItemOf(tr, call).pieces \o pieces)
  <2>1. call \in DOMAIN tr.tools /\ tool = tr.tools[call] BY <1>7, <1>13 DEF ToolOf
  <2>2. /\ ItemOf(tr, call).kind = "call" /\ ItemOf(tr, call).name = tool.name
        /\ ItemOf(tr, call).pieces = tool.args
    BY <1>4, <2>1 DEF ItemOf, Item
  <2> QED BY <1>1, <1>3, <1>12, <2>1, <2>2
<1>14. ASSUME call \notin Carried(tr)
       PROVE  /\ t.next = tr.next + 1 /\ Position(t, call) = tr.next
              /\ ItemOf(t, call) = Item("call", name, pieces)
  <2>1. call \notin DOMAIN tr.tools /\ tool = [index |-> tr.next, name |-> name, args |-> <<>>]
    BY <1>7, <1>14 DEF ToolOf
  <2>2. tool.name = 0 \/ tool.name = name BY <2>1
  <2>3. full.name = name /\ full.args = pieces BY <1>3, <2>1
  <2> QED BY <1>1, <1>11, <1>12, <2>1, <2>3
<1>15. Adds(tr, t, call, name, pieces)
  BY <1>1, <1>4, <1>8, <1>9, <1>10, <1>13, <1>14 DEF Adds
<1> QED BY <1>6, <1>11, <1>15 DEF t, state, full
-----------------------------------------------------------------------------
(* A chunk *)

\* The sequence numbers go on from the ones that were given.
LEMMA SeqCounts ==
  ASSUME NEW tr, TranslatorTyped(tr), NEW n \in Nat
  PROVE  /\ \A index, piece : Emitted(WithText(tr, index, piece), n).seq = tr.seq + n
         /\ \A call, tool : Emitted(WithTool(tr, call, tool), n).seq = tr.seq + n
<1>1. tr \in [created : BOOLEAN, seq : Nat, next : Nat, textIndex : {NoIndex} \cup Nat,
             text : Seq(1..MaxParts), tools : {tr.tools}]
  BY DEF TranslatorTyped
<1>2. ASSUME NEW state, DOMAIN state = DOMAIN tr, state.seq = tr.seq
      PROVE  Emitted(state, n).seq = tr.seq + n
  BY <1>1, <1>2 DEF Emitted
<1>3. \A index, piece : /\ DOMAIN WithText(tr, index, piece) = DOMAIN tr
                        /\ WithText(tr, index, piece).seq = tr.seq
  BY <1>1 DEF WithText
<1>4. \A call, tool : /\ DOMAIN WithTool(tr, call, tool) = DOMAIN tr
                      /\ WithTool(tr, call, tool).seq = tr.seq
  BY <1>1 DEF WithTool
<1> QED BY <1>2, <1>3, <1>4

\* An entry that agrees with the item still does when both take the pieces.
LEMMA AgreesWithMore ==
  ASSUME NEW entry, NEW item, Agrees(entry, item), NEW name, NEW pieces \in Seq(1..MaxParts),
         entry.kind = "message" => name = 0
  PROVE  Agrees([entry EXCEPT !.pieces = @ \o pieces],
                Item(item.kind, IF item.name = 0 THEN name ELSE item.name,
                     item.pieces \o pieces))
<1> DEFINE more == entry.pieces \o pieces
           added == [entry EXCEPT !.pieces = more]
<1>1. entry \in ItemEntries BY DEF Agrees
<1>2. more \in Seq(1..MaxParts)
  <2>1. entry.pieces \in Seq(1..MaxParts) BY <1>1 DEF ItemEntries
  <2> QED BY <2>1, ConcatProperties, Zenon
<1> HIDE DEF more
<1>3. /\ added \in ItemEntries /\ added.kind = entry.kind /\ added.name = entry.name
      /\ added.pieces = more /\ added.state = entry.state
  BY <1>1, <1>2 DEF ItemEntries
<1>4. /\ CanFill(entry) /\ entry.kind = item.kind /\ entry.pieces = item.pieces
      /\ (entry.name = item.name \/ (entry.kind = "call" /\ entry.name = 0))
      /\ entry.kind \in {"message", "call"}
  BY <1>1 DEF Agrees, ItemEntries
<1> HIDE DEF added
<1>5. CanFill(added) BY <1>3, <1>4 DEF CanFill
<1>6. LET filled == IF item.name = 0 THEN name ELSE item.name
      IN  added.name = filled \/ (added.kind = "call" /\ added.name = 0)
  BY <1>3, <1>4
<1>7. more = item.pieces \o pieces BY <1>4 DEF more
<1>8. Agrees(added, Item(item.kind, IF item.name = 0 THEN name ELSE item.name, more))
  BY <1>3, <1>4, <1>5, <1>6 DEF Agrees, Item
<1> QED BY <1>7, <1>8 DEF added, more

\* After response.created, or if it was sent before, the client can take items.
LEMMA CreatedOnceLeads ==
  ASSUME TranslatorTyped(translator), Placed(translator), NEW c, InStep(c, translator)
  PROVE  \E d : /\ Leads(c, CreatedOnce, d) /\ Ready(d, translator.next)
                /\ d.items = c.items
<1>1. translator.next \in Nat /\ translator.created \in BOOLEAN BY DEF TranslatorTyped
<1>2. c.items \in [0..(translator.next - 1) -> ItemEntries] BY DEF InStep
<1>3. CASE translator.created
  <2>1. CreatedOnce = <<>> BY <1>3 DEF CreatedOnce
  <2>2. Ready(c, translator.next) BY <1>2, <1>3 DEF InStep, Ready
  <2> QED BY <2>1, <2>2, LeadsNowhere
<1>4. CASE ~translator.created
  <2> DEFINE d == [phase |-> "created", items |-> c.items, output |-> <<>>]
  <2>1. CreatedOnce = <<Event("created", 0, NoItem)>> BY <1>4 DEF CreatedOnce
  <2>2. c = [phase |-> "none", items |-> c.items, output |-> <<>>] BY <1>4 DEF InStep
  <2>3. Leads(c, CreatedOnce, d)
    <3>1. PICK n \in Nat : n = translator.next BY <1>1
    <3>2. c.items \in [0..(n - 1) -> ItemEntries] BY <1>2, <3>1
    <3> QED BY <2>1, <2>2, <3>2, CreatedLeads
  <2>4. Ready(d, translator.next) BY <1>2 DEF Ready
  <2>5. d.items = c.items OBVIOUS
  <2> HIDE DEF d
  <2> QED BY <2>3, <2>4, <2>5
<1> QED BY <1>1, <1>3, <1>4

\* A chunk without a part.
LEMMA OtherLeads ==
  ASSUME TranslatorTyped(translator), Placed(translator), NEW c, InStep(c, translator),
         NEW n \in Nat
  PROVE  LET t == Emitted(translator, n)
         IN  /\ TranslatorTyped(t) /\ Placed(t) /\ t.seq = translator.seq + n
             /\ Carried(t) = Carried(translator)
             /\ \A of \in Carried(t) : /\ Position(t, of) = Position(translator, of)
                                       /\ ItemOf(t, of) = ItemOf(translator, of)
             /\ t.text = translator.text /\ t.next = translator.next
             /\ \E d : Leads(c, CreatedOnce, d) /\ InStep(d, t)
<1> DEFINE t == Emitted(translator, n)
<1>1. /\ translator \in [created : BOOLEAN, seq : Nat, next : Nat,
                         textIndex : {NoIndex} \cup Nat, text : Seq(1..MaxParts),
                         tools : {translator.tools}]
      /\ translator.seq + n \in Nat
  BY DEF TranslatorTyped
<1>2. /\ t \in [created : BOOLEAN, seq : {translator.seq + n}, next : {translator.next},
                textIndex : {translator.textIndex}, text : {translator.text},
                tools : {translator.tools}]
      /\ t.created = TRUE
  BY <1>1 DEF Emitted
<1> HIDE DEF t
<1>3. /\ t.created /\ t.next = translator.next /\ t.textIndex = translator.textIndex
      /\ t.text = translator.text /\ t.tools = translator.tools
      /\ t.seq = translator.seq + n
  BY <1>2
<1>4. TranslatorTyped(t) BY <1>1, <1>2, <1>3 DEF TranslatorTyped
<1>5. Carried(t) = Carried(translator) BY <1>3 DEF Carried
<1>6. \A of : Position(t, of) = Position(translator, of) BY <1>3 DEF Position
<1>7. \A of : ItemOf(t, of) = ItemOf(translator, of) BY <1>3 DEF ItemOf
<1>8. Placed(t) BY <1>3, <1>5, <1>6 DEF Placed
<1>9. PICK d : /\ Leads(c, CreatedOnce, d) /\ Ready(d, translator.next)
               /\ d.items = c.items
  BY CreatedOnceLeads
<1>10. InStep(d, t) BY <1>3, <1>5, <1>6, <1>7, <1>9 DEF InStep, Ready
<1> QED BY <1>3, <1>4, <1>5, <1>6, <1>7, <1>8, <1>9, <1>10 DEF t

\* The two events that open the message.
LEMMA OpensTextLeads ==
  ASSUME NEW n \in Nat, NEW c, Ready(c, n)
  PROVE  Leads(c, OpensText(n), WithItem(c, n, Entry("message", 0, <<>>, "part")))
<1> DEFINE added == Entry("message", 0, <<>>, "added")
           opened == Entry("message", 0, <<>>, "part")
           d == WithItem(c, n, added)
<1>1. Leads(c, <<Event("item_added", n, Item("message", 0, <<>>))>>, d)
  BY ItemAddedLeads, ResponsesStreamAssumption
<1>2. Ready(d, n + 1) /\ d.items[n] = added
  <2>1. added \in ItemEntries BY ResponsesStreamAssumption DEF Entry, ItemEntries
  <2> HIDE DEF added
  <2> QED BY <2>1, ReadyWithNew
<1>3. WithItem(d, n, opened) = WithItem(c, n, opened) BY WithTwice
<1> HIDE DEF d, opened
<1>4. Leads(d, <<Event("part_added", n, NoItem)>>, WithItem(d, n, opened))
  <2>1. n + 1 \in Nat /\ n \in 0..(n + 1 - 1) OBVIOUS
  <2> QED BY <1>2, <2>1, PartAddedLeads DEF opened
<1>5. OpensText(n) = <<Event("item_added", n, Item("message", 0, <<>>))>>
                       \o <<Event("part_added", n, NoItem)>>
  BY DEF OpensText
<1> QED BY <1>1, <1>3, <1>4, <1>5, LeadsJoined DEF opened

\* A chunk with text.
LEMMA TextLeads ==
  ASSUME TranslatorTyped(translator), Placed(translator), NEW c, InStep(c, translator),
         NEW piece \in 1..MaxParts, NEW n \in Nat, NEW index,
         index = IF translator.textIndex = NoIndex THEN translator.next
                 ELSE translator.textIndex
  PROVE  \E d :
           /\ Leads(c, CreatedOnce
                         \o (IF translator.textIndex = NoIndex THEN OpensText(index) ELSE <<>>)
                         \o <<Event("delta", index, Item("message", 0, <<piece>>))>>, d)
           /\ InStep(d, Emitted(WithText(translator, index, piece), n))
<1> DEFINE t == Emitted(WithText(translator, index, piece), n)
           opens == translator.textIndex = NoIndex
           starts == IF opens THEN OpensText(index) ELSE <<>>
           delta == Event("delta", index, Item("message", 0, <<piece>>))
<1>1. /\ TranslatorTyped(t) /\ Adds(translator, t, Message, 0, <<piece>>)
      /\ Position(t, Message) = index
  BY TextAdds
<1>2. PICK m \in Nat : m = translator.next BY DEF TranslatorTyped
<1>3. PICK d : Leads(c, CreatedOnce, d) /\ Ready(d, m) /\ d.items = c.items
  BY <1>2, CreatedOnceLeads
<1>4. \A one \in Carried(translator) :
        Agrees(d.items[Position(translator, one)], ItemOf(translator, one))
  BY <1>3 DEF InStep
<1> HIDE DEF t
<1>5. ASSUME NEW entry, Agrees(entry, ItemOf(t, Message))
      PROVE  InStep(WithItem(d, index, entry), t)
  <2>1. Ready(d, translator.next) BY <1>2, <1>3
  <2>2. InStep(WithItem(d, Position(t, Message), entry), t)
    BY <1>1, <1>4, <1>5, <2>1, InStepWithOneMore
  <2> QED BY <1>1, <2>2
<1>6. CASE opens
  <2> DEFINE opened == Entry("message", 0, <<>>, "part")
             e == WithItem(d, m, opened)
             filled == [opened EXCEPT !.pieces = @ \o <<piece>>]
  <2>1. index = m /\ starts = OpensText(m) BY <1>2, <1>6
  <2>2. Leads(d, starts, e) BY <1>3, <2>1, OpensTextLeads
  <2>3. opened \in ItemEntries BY ResponsesStreamAssumption DEF Entry, ItemEntries
  <2>4. CanFill(opened) /\ opened.kind = "message" /\ opened.name = 0 /\ opened.pieces = <<>>
    BY DEF CanFill, Entry
  <2> HIDE DEF opened
  <2>5. PICK k \in Nat : k = m + 1 OBVIOUS
  <2>11. m \in 0..(k - 1) /\ Ready(e, k) /\ e.items[m] = opened
    <3>1. m \in 0..(k - 1) BY <2>5
    <3>2. Ready(WithItem(d, m, opened), m + 1) /\ WithItem(d, m, opened).items[m] = opened
      BY <1>3, <2>3, ReadyWithNew
    <3> QED BY <2>5, <3>1, <3>2
  <2> HIDE DEF e
  <2>6. Leads(e, <<delta>>, WithItem(e, m, filled))
    <3>1. CanFill(e.items[m]) /\ [e.items[m] EXCEPT !.pieces = @ \o <<piece>>] = filled
      BY <2>4, <2>11
    <3>2. "message" \in {"message", "call"} OBVIOUS
    <3> HIDE DEF filled
    <3>3. Leads(e, <<Event("delta", m, Item("message", 0, <<piece>>))>>, WithItem(e, m, filled))
      BY <2>11, <3>1, <3>2, DeltaLeads
    <3> QED BY <2>1, <3>3
  <2>7. WithItem(e, m, filled) = WithItem(d, m, filled) BY WithTwice DEF e
  <2>8. Agrees(filled, ItemOf(t, Message))
    <3>1. Agrees(opened, Item("message", 0, <<>>)) BY <2>3, <2>4 DEF Agrees, Item
    <3>2. Agrees(filled, Item("message", 0, <<>> \o <<piece>>))
      <4> DEFINE item == Item("message", 0, <<>>)
      <4>1. item.kind = "message" /\ item.name = 0 /\ item.pieces = <<>> BY DEF Item
      <4>2. <<piece>> \in Seq(1..MaxParts) OBVIOUS
      <4> HIDE DEF item
      <4>3. Agrees(filled, Item(item.kind, IF item.name = 0 THEN 0 ELSE item.name,
                                item.pieces \o <<piece>>))
        BY <3>1, <4>2, AgreesWithMore DEF item
      <4> QED BY <4>1, <4>3
    <3>3. <<>> \o <<piece>> = <<piece>> OBVIOUS
    <3>4. Message \notin Carried(translator)
      BY <1>6, ResponsesStreamAssumption DEF Carried, TranslatorTyped, Message
    <3>5. ItemOf(t, Message) = Item("message", 0, <<piece>>) BY <1>1, <3>4 DEF Adds
    <3> QED BY <3>2, <3>3, <3>5
  <2> HIDE DEF starts, delta, filled
  <2>9. Leads(c, CreatedOnce \o starts \o <<delta>>, WithItem(d, m, filled))
    BY <1>3, <2>2, <2>6, <2>7, LeadsJoined
  <2>10. InStep(WithItem(d, m, filled), t) BY <1>5, <2>1, <2>8
  <2> QED BY <2>9, <2>10 DEF starts, delta, t
<1>7. CASE ~opens
  <2> DEFINE entry == d.items[index]
             filled == [entry EXCEPT !.pieces = @ \o <<piece>>]
  <2>1. Message \in Carried(translator) /\ Position(translator, Message) = index
    BY <1>7 DEF Carried, Position
  <2>2. index \in 0..(m - 1) BY <1>2, <2>1 DEF Placed
  <2>3. Agrees(entry, ItemOf(translator, Message)) BY <1>4, <2>1
  <2>4. CanFill(entry) BY <2>3 DEF Agrees
  <2>5. Leads(d, <<delta>>, WithItem(d, index, filled)) BY <1>3, <2>2, <2>4, DeltaLeads
  <2>6. Agrees(filled, ItemOf(t, Message))
    <3> DEFINE item == ItemOf(translator, Message)
    <3>1. <<piece>> \in Seq(1..MaxParts) OBVIOUS
    <3> HIDE DEF item, entry
    <3>2. Agrees(filled, Item(item.kind, IF item.name = 0 THEN 0 ELSE item.name,
                              item.pieces \o <<piece>>))
      BY <2>3, <3>1, AgreesWithMore DEF item
    <3> QED BY <1>1, <2>1, <3>2 DEF Adds, item
  <2>7. Leads(d, starts, d) BY <1>7, LeadsNowhere
  <2> HIDE DEF starts, delta, filled
  <2>8. Leads(c, CreatedOnce \o starts \o <<delta>>, WithItem(d, index, filled))
    BY <1>3, <2>5, <2>7, LeadsJoined
  <2>9. InStep(WithItem(d, index, filled), t) BY <1>5, <2>6
  <2> QED BY <2>8, <2>9 DEF starts, delta, t
<1> QED BY <1>6, <1>7

\* An entry as it was changes nothing.
LEMMA WithSame ==
  ASSUME NEW n \in Nat, NEW c, Ready(c, n), NEW x \in 0..(n - 1)
  PROVE  WithItem(c, x, c.items[x]) = c
<1>1. /\ c = [phase |-> "created", items |-> c.items, output |-> <<>>]
      /\ c.items \in [0..(n - 1) -> ItemEntries]
  BY DEF Ready
<1>2. 0..(n - 1) \cup {x} = 0..(n - 1) OBVIOUS
<1>3. Update(c.items, x, c.items[x]) = c.items BY <1>1, <1>2 DEF Update
<1> QED BY <1>1, <1>3 DEF WithItem

\* The arguments a tool call's delta brings.
Arguments(filled, piece) == IF filled THEN <<piece>> ELSE <<>>

\* A chunk with a part of a tool call.
LEMMA ToolLeads ==
  ASSUME TranslatorTyped(translator), Placed(translator), NEW c, InStep(c, translator),
         NEW call \in 0..(MaxCalls - 1), NEW name \in 0..MaxCalls,
         NEW filled \in BOOLEAN, NEW piece \in 1..MaxParts, NEW n \in Nat, NEW pieces,
         pieces = Arguments(filled, piece), NEW tool,
         tool = ToolOf(translator, call, name)
  PROVE  \E d :
           /\ Leads(c, CreatedOnce
                         \o (IF call \notin DOMAIN translator.tools
                             THEN <<Event("item_added", tool.index, Item("call", name, <<>>))>>
                             ELSE <<>>)
                         \o (IF filled THEN <<Event("delta", tool.index, Item("call", 0, pieces))>>
                             ELSE <<>>), d)
           /\ InStep(d, Emitted(WithTool(translator, call, Filled(tool, name, pieces)), n))
<1> DEFINE t == Emitted(WithTool(translator, call, Filled(tool, name, pieces)), n)
           opens == call \notin DOMAIN translator.tools
           index == tool.index
           starts == IF opens THEN <<Event("item_added", index, Item("call", name, <<>>))>>
                     ELSE <<>>
           fills == IF filled THEN <<Event("delta", index, Item("call", 0, pieces))>> ELSE <<>>
<1>1. pieces \in Seq(1..MaxParts)
  <2>1. <<piece>> \in Seq(1..MaxParts) /\ <<>> \in Seq(1..MaxParts) OBVIOUS
  <2> QED BY <2>1, Zenon DEF Arguments
<1>2. /\ TranslatorTyped(t) /\ Adds(translator, t, call, name, pieces)
      /\ Position(t, call) = index
  <2>1. TranslatorTyped(t) BY <1>1, ToolAdds
  <2>2. Adds(translator, t, call, name, pieces) BY <1>1, ToolAdds
  <2>3. Position(t, call) = index BY <1>1, ToolAdds
  <2> QED BY <2>1, <2>2, <2>3
<1>3. PICK m \in Nat : m = translator.next BY DEF TranslatorTyped
<1>4. PICK d : Leads(c, CreatedOnce, d) /\ Ready(d, m) /\ d.items = c.items
  BY <1>3, CreatedOnceLeads
<1>5. \A one \in Carried(translator) :
        Agrees(d.items[Position(translator, one)], ItemOf(translator, one))
  BY <1>4 DEF InStep
<1>6. call # Message BY DEF Message
<1>7. call \in Carried(translator) <=> ~opens BY <1>6 DEF Carried
<1> HIDE DEF t, index
<1>8. ASSUME NEW entry, Agrees(entry, ItemOf(t, call))
      PROVE  InStep(WithItem(d, index, entry), t)
  <2>1. Ready(d, translator.next) BY <1>3, <1>4
  <2>2. InStep(WithItem(d, Position(t, call), entry), t)
    BY <1>2, <1>5, <1>8, <2>1, InStepWithOneMore
  <2> QED BY <1>2, <2>2
<1>9. ASSUME NEW entry \in ItemEntries, NEW e, NEW k \in Nat, Leads(d, starts, e), Ready(e, k),
             index \in 0..(k - 1), e.items[index] = entry, CanFill(entry),
             \A other : WithItem(e, index, other) = WithItem(d, index, other),
             Agrees([entry EXCEPT !.pieces = @ \o pieces], ItemOf(t, call))
      PROVE  \E f : Leads(c, CreatedOnce \o starts \o fills, f) /\ InStep(f, t)
  <2> DEFINE more == [entry EXCEPT !.pieces = @ \o pieces]
  <2>1. Leads(e, fills, WithItem(e, index, more))
    <3>1. CASE filled
      <4>1. pieces = <<piece>> /\ fills = <<Event("delta", index, Item("call", 0, <<piece>>))>>
        BY <3>1 DEF Arguments
      <4>2. "call" \in {"message", "call"} OBVIOUS
      <4>3. more = [e.items[index] EXCEPT !.pieces = @ \o <<piece>>] BY <1>9, <4>1
      <4> HIDE DEF more, fills
      <4> QED BY <1>9, <4>1, <4>2, <4>3, DeltaLeads
    <3>2. CASE ~filled
      <4>1. pieces = <<>> /\ fills = <<>> BY <3>2 DEF Arguments
      <4>2. more = entry
        <5>1. entry.pieces \in Seq(1..MaxParts) BY <1>9 DEF ItemEntries
        <5>2. entry.pieces \o <<>> = entry.pieces BY <5>1
        <5>3. more = [entry EXCEPT !.pieces = entry.pieces] BY <4>1, <5>2
        <5> QED BY <1>9, <5>3 DEF ItemEntries
      <4>3. WithItem(e, index, entry) = e BY <1>9, WithSame
      <4> HIDE DEF more, fills
      <4> QED BY <4>1, <4>2, <4>3, LeadsNowhere
    <3> QED BY <3>1, <3>2
  <2>2. WithItem(e, index, more) = WithItem(d, index, more) BY <1>9
  <2>3. InStep(WithItem(d, index, more), t) BY <1>8, <1>9
  <2> HIDE DEF more, starts, fills
  <2>4. Leads(c, CreatedOnce \o starts \o fills, WithItem(e, index, more))
    BY <1>4, <1>9, <2>1, LeadsJoined
  <2> QED BY <2>2, <2>3, <2>4
<1>10. CASE opens
  <2> DEFINE entry == Entry("call", name, <<>>, "added")
             e == WithItem(d, m, entry)
  <2>1. index = m BY <1>3, <1>10 DEF index, ToolOf
  <2>2. starts = <<Event("item_added", m, Item("call", name, <<>>))>> BY <1>10, <2>1
  <2>3. Leads(d, starts, e)
    <3>1. "call" \in {"message", "call"} /\ ("call" = "message" => name = 0) OBVIOUS
    <3> QED BY <1>4, <2>2, <3>1, ItemAddedLeads
  <2>4. /\ entry \in ItemEntries /\ CanFill(entry) /\ entry.kind = "call" /\ entry.name = name
        /\ entry.pieces = <<>>
    BY DEF Entry, ItemEntries, CanFill
  <2> HIDE DEF entry
  <2>5. Ready(e, m + 1) /\ e.items[m] = entry BY <1>4, <2>4, ReadyWithNew
  <2>6. \A other : WithItem(e, index, other) = WithItem(d, index, other) BY <2>1, WithTwice
  <2>7. Agrees([entry EXCEPT !.pieces = @ \o pieces], ItemOf(t, call))
    <3> DEFINE item == Item("call", name, <<>>)
    <3>1. item.kind = "call" /\ item.name = name /\ item.pieces = <<>> BY DEF Item
    <3> HIDE DEF item
    <3>2. Agrees(entry, item) BY <2>4, <3>1 DEF Agrees
    <3>3. Agrees([entry EXCEPT !.pieces = @ \o pieces],
                 Item(item.kind, IF item.name = 0 THEN name ELSE item.name,
                      item.pieces \o pieces))
      BY <1>1, <2>4, <3>2, AgreesWithMore
    <3>4. (IF item.name = 0 THEN name ELSE item.name) = name BY <3>1
    <3>5. <<>> \o pieces = pieces BY <1>1
    <3>6. ItemOf(t, call) = Item("call", name, pieces) BY <1>2, <1>6, <1>7, <1>10 DEF Adds
    <3> QED BY <3>1, <3>3, <3>4, <3>5, <3>6
  <2> HIDE DEF e, starts, fills
  <2>8. PICK k \in Nat : k = m + 1 OBVIOUS
  <2>9. Ready(e, k) /\ index \in 0..(k - 1) /\ e.items[index] = entry BY <2>1, <2>5, <2>8
  <2>10. \E f : Leads(c, CreatedOnce \o starts \o fills, f) /\ InStep(f, t)
    BY <1>9, <2>3, <2>4, <2>6, <2>7, <2>9
  <2> QED BY <2>10 DEF starts, fills, index, t
<1>11. CASE ~opens
  <2> DEFINE entry == d.items[index]
  <2>1. call \in Carried(translator) /\ Position(translator, call) = index
    BY <1>6, <1>7, <1>11 DEF Position, index, ToolOf
  <2>2. index \in 0..(m - 1) BY <1>3, <2>1 DEF Placed
  <2>3. Agrees(entry, ItemOf(translator, call)) BY <1>5, <2>1
  <2>4. entry \in ItemEntries /\ CanFill(entry) BY <2>3 DEF Agrees
  <2>5. Agrees([entry EXCEPT !.pieces = @ \o pieces], ItemOf(t, call))
    <3> DEFINE item == ItemOf(translator, call)
    <3>1. entry.kind = "message" => name = 0
      <4>1. item.kind = "call" BY <1>6 DEF ItemOf, Item
      <4> QED BY <2>3, <4>1 DEF Agrees
    <3> HIDE DEF item, entry
    <3>2. Agrees([entry EXCEPT !.pieces = @ \o pieces],
                 Item(item.kind, IF item.name = 0 THEN name ELSE item.name,
                      item.pieces \o pieces))
      BY <1>1, <2>3, <3>1, AgreesWithMore DEF item
    <3> QED BY <1>2, <2>1, <3>2 DEF Adds, item
  <2>6. Leads(d, starts, d) BY <1>11, LeadsNowhere
  <2> HIDE DEF starts, fills
  <2>7. \E f : Leads(c, CreatedOnce \o starts \o fills, f) /\ InStep(f, t)
    BY <1>4, <1>9, <2>2, <2>4, <2>5, <2>6
  <2> QED BY <2>7 DEF starts, fills, index, t
<1> QED BY <1>10, <1>11
-----------------------------------------------------------------------------
(* The items are closed *)

\* The item under an output index is the one that has its place there.
LEMMA ItemFound ==
  ASSUME NEW t, TranslatorTyped(t), Placed(t), NEW of \in Carried(t)
  PROVE  ItemAt(t, Position(t, of)) = ItemOf(t, of)
<1>1. CASE of = Message BY <1>1 DEF ItemAt, Position, ItemOf
<1>2. CASE of # Message
  <2>1. of \in DOMAIN t.tools BY <1>2 DEF Carried
  <2>2. Position(t, of) = t.tools[of].index BY <1>2 DEF Position
  <2>3. Position(t, of) # t.textIndex
    <3>1. CASE t.textIndex = NoIndex
      <4>1. Position(t, of) \in 0..(t.next - 1) BY DEF Placed
      <4> QED BY <3>1, <4>1 DEF NoIndex
    <3>2. CASE t.textIndex # NoIndex
      <4>1. Message \in Carried(t) /\ Position(t, Message) = t.textIndex
        BY <3>2 DEF Carried, Position
      <4> QED BY <1>2, <4>1 DEF Placed
    <3> QED BY <3>1, <3>2
  <2>4. ASSUME NEW other \in DOMAIN t.tools, t.tools[other].index = Position(t, of)
        PROVE  other = of
    <3>1. other # Message
      BY ResponsesStreamAssumption DEF TranslatorTyped, Message
    <3>2. other \in Carried(t) /\ Position(t, other) = t.tools[other].index
      BY <3>1 DEF Carried, Position
    <3> QED BY <2>4, <3>2 DEF Placed
  <2> DEFINE call == CHOOSE c \in DOMAIN t.tools : t.tools[c].index = Position(t, of)
  <2>5. call \in DOMAIN t.tools /\ t.tools[call].index = Position(t, of) BY <2>1, <2>2
  <2>6. call = of BY <2>4, <2>5
  <2>7. ItemAt(t, Position(t, of)) = Item("call", t.tools[call].name, t.tools[call].args)
    BY <2>3 DEF ItemAt
  <2> QED BY <1>2, <2>6, <2>7 DEF ItemOf
<1> QED BY <1>1, <1>2

\* The client's items next to the translator's, by output_index.
LEMMA InStepByIndex ==
  ASSUME NEW t, TranslatorTyped(t), Placed(t), NEW d, InStep(d, t),
         NEW x \in 0..(t.next - 1)
  PROVE  /\ Agrees(d.items[x], ItemAt(t, x))
         /\ ItemAt(t, x) \in Items
         /\ ItemAt(t, x).kind = IF x = t.textIndex THEN "message" ELSE "call"
         /\ x = t.textIndex => ItemAt(t, x).name = 0
<1>1. PICK of \in Carried(t) : Position(t, of) = x BY DEF Placed
<1>2. ItemAt(t, x) = ItemOf(t, of) BY <1>1, ItemFound
<1>3. Agrees(d.items[x], ItemAt(t, x)) BY <1>1, <1>2 DEF InStep
<1>4. x = t.textIndex <=> of = Message
  <2>1. of = Message => x = t.textIndex BY <1>1 DEF Position
  <2>2. ASSUME x = t.textIndex PROVE of = Message
    <3>1. Message \in Carried(t) /\ Position(t, Message) = x
      BY <2>2 DEF Carried, Position, NoIndex
    <3> QED BY <1>1, <3>1 DEF Placed
  <2> QED BY <2>1, <2>2
<1>5. ItemOf(t, of) \in Items
  <2>1. CASE of = Message
    <3>1. t.text \in Seq(1..MaxParts) BY DEF TranslatorTyped
    <3> QED BY <2>1, <3>1, ResponsesStreamAssumption DEF ItemOf, Item, Items
  <2>2. CASE of # Message
    <3>1. t.tools[of] \in CallItems BY <2>2 DEF Carried, TranslatorTyped
    <3> QED BY <2>2, <3>1 DEF ItemOf, Item, Items, CallItems
  <2> QED BY <2>1, <2>2
<1>6. /\ ItemOf(t, of).kind = IF of = Message THEN "message" ELSE "call"
      /\ of = Message => ItemOf(t, of).name = 0
  BY DEF ItemOf, Item
<1> QED BY <1>2, <1>3, <1>4, <1>5, <1>6

ClosedEntry(item) ==
    [kind |-> item.kind, name |-> item.name, pieces |-> item.pieces,
     state |-> "done", final |-> item.pieces]

\* The client when these items are closed.
ClosedTo(client, t, closed) ==
    [phase |-> IF closed = {} THEN "created" ELSE "closing",
     items |-> [x \in 0..(t.next - 1) |->
                  IF x \in closed THEN ClosedEntry(ItemAt(t, x)) ELSE client.items[x]],
     output |-> <<>>]

ClosingWith(client, x, entry) ==
    [phase |-> "closing", items |-> [client.items EXCEPT ![x] = entry], output |-> <<>>]

\* A closing event that is allowed changes the one entry.
LEMMA DoneLeads ==
  ASSUME NEW c, NEW e \in EventRecords, Allowed(c, e),
         e.type \in {"content_done", "part_done", "item_done"}
  PROVE  Leads(c, <<e>>, ClosingWith(c, e.index, Changed(c.items[e.index], e)))
<1>1. AboutItem(c, e) /\ c.output = <<>> BY DEF Allowed
<1>2. e.output = <<>> BY <1>1 DEF AboutItem
<1>3. e.type = "content_done" \/ c.phase = "closing" BY DEF Allowed
<1>4. SeenAfter(c, e) = ClosingWith(c, e.index, Changed(c.items[e.index], e))
  <2>1. SeenAfter(c, e).phase = "closing" BY <1>3 DEF SeenAfter
  <2> DEFINE changed == Changed(c.items[e.index], e)
  <2>2. SeenAfter(c, e) = [phase |-> SeenAfter(c, e).phase,
                           items |-> [c.items EXCEPT ![e.index] = changed],
                           output |-> e.output]
    BY DEF SeenAfter
  <2> HIDE DEF changed
  <2>3. SeenAfter(c, e) = [phase |-> "closing",
                           items |-> [c.items EXCEPT ![e.index] = changed],
                           output |-> <<>>]
    BY <1>2, <2>1, <2>2, Zenon
  <2> QED BY <2>3 DEF ClosingWith, changed
<1> QED BY <1>4, LeadsOn

\* The closing events: the entry each finds and the one it leaves.
LEMMA ContentDoneLeads ==
  ASSUME NEW n \in Nat, NEW x \in 0..(n - 1), NEW c, c.items \in [0..(n - 1) -> ItemEntries],
         c.output = <<>>, NEW item \in Items,
         c.phase \in {"created", "closing"}, CanFill(c.items[x]),
         item.pieces = c.items[x].pieces
  PROVE  \E left :
           /\ Leads(c, <<Event("content_done", x, item)>>, ClosingWith(c, x, left))
           /\ left \in ItemEntries /\ left.kind = c.items[x].kind
           /\ left.pieces = c.items[x].pieces /\ left.final = item.pieces
           /\ left.state = "content" /\ left.name = c.items[x].name
<1> DEFINE e == Event("content_done", x, item)
           entry == c.items[x]
           left == [entry EXCEPT !.state = "content", !.final = item.pieces]
<1>1. /\ e \in EventRecords /\ e.type = "content_done" /\ e.index = x /\ e.output = <<>>
      /\ e.item = item
  BY DEF Event, EventRecords, Outputs
<1>2. entry \in ItemEntries /\ item.pieces \in Seq(1..MaxParts) /\ item.name \in 0..MaxCalls
  BY DEF Items
<1>3. AboutItem(c, e) BY <1>1 DEF AboutItem
<1> HIDE DEF e
<1>4. Allowed(c, e) BY <1>1, <1>3 DEF Allowed
<1>5. Leads(c, <<e>>, ClosingWith(c, x, Changed(entry, e))) BY <1>1, <1>4, DoneLeads
<1> HIDE DEF entry
<1>6. Changed(entry, e) = left BY <1>1 DEF Changed
<1>7. /\ left \in ItemEntries /\ left.kind = entry.kind /\ left.pieces = entry.pieces
      /\ left.final = item.pieces /\ left.state = "content" /\ left.name = entry.name
  BY <1>2 DEF ItemEntries
<1> HIDE DEF left
<1> QED BY <1>5, <1>6, <1>7 DEF e, entry

\* The part of a message is closed, with what its content was.
LEMMA PartDoneLeads ==
  ASSUME NEW n \in Nat, NEW x \in 0..(n - 1), NEW c, c.items \in [0..(n - 1) -> ItemEntries],
         c.output = <<>>, NEW item \in Items,
         c.phase = "closing", c.items[x].kind = "message", c.items[x].state = "content",
         item.pieces = c.items[x].final
  PROVE  \E left :
           /\ Leads(c, <<Event("part_done", x, item)>>, ClosingWith(c, x, left))
           /\ left \in ItemEntries /\ left.kind = c.items[x].kind
           /\ left.pieces = c.items[x].pieces /\ left.final = item.pieces
           /\ left.state = "partDone" /\ left.name = c.items[x].name
<1> DEFINE e == Event("part_done", x, item)
           entry == c.items[x]
           left == [entry EXCEPT !.state = "partDone", !.final = item.pieces]
<1>1. /\ e \in EventRecords /\ e.type = "part_done" /\ e.index = x /\ e.output = <<>>
      /\ e.item = item
  BY DEF Event, EventRecords, Outputs
<1>2. entry \in ItemEntries /\ item.pieces \in Seq(1..MaxParts) /\ item.name \in 0..MaxCalls
  BY DEF Items
<1>3. AboutItem(c, e) BY <1>1 DEF AboutItem
<1> HIDE DEF e
<1>4. Allowed(c, e) BY <1>1, <1>3 DEF Allowed
<1>5. Leads(c, <<e>>, ClosingWith(c, x, Changed(entry, e))) BY <1>1, <1>4, DoneLeads
<1> HIDE DEF entry
<1>6. Changed(entry, e) = left BY <1>1 DEF Changed
<1>7. /\ left \in ItemEntries /\ left.kind = entry.kind /\ left.pieces = entry.pieces
      /\ left.final = item.pieces /\ left.state = "partDone" /\ left.name = entry.name
  BY <1>2 DEF ItemEntries
<1> HIDE DEF left
<1> QED BY <1>5, <1>6, <1>7 DEF e, entry

ClosedButDone(entry) ==
    entry.state = IF entry.kind = "message" THEN "partDone" ELSE "content"

\* The item is closed, under its name.
LEMMA ItemDoneLeads ==
  ASSUME NEW n \in Nat, NEW x \in 0..(n - 1), NEW c, c.items \in [0..(n - 1) -> ItemEntries],
         c.output = <<>>, NEW item \in Items,
         c.phase = "closing", item.pieces = c.items[x].final, ClosedButDone(c.items[x]),
         item.name # c.items[x].name => c.items[x].kind = "call" /\ c.items[x].name = 0
  PROVE  \E left :
           /\ Leads(c, <<Event("item_done", x, item)>>, ClosingWith(c, x, left))
           /\ left \in ItemEntries /\ left.kind = c.items[x].kind
           /\ left.pieces = c.items[x].pieces /\ left.final = item.pieces
           /\ left.state = "done" /\ left.name = item.name
<1> DEFINE e == Event("item_done", x, item)
           entry == c.items[x]
           left == [entry EXCEPT !.state = "done", !.name = item.name, !.final = item.pieces]
<1>1. /\ e \in EventRecords /\ e.type = "item_done" /\ e.index = x /\ e.output = <<>>
      /\ e.item = item
  BY DEF Event, EventRecords, Outputs
<1>2. entry \in ItemEntries /\ item.pieces \in Seq(1..MaxParts) /\ item.name \in 0..MaxCalls
  BY DEF Items
<1>3. AboutItem(c, e) BY <1>1 DEF AboutItem
<1> HIDE DEF e
<1>4. Allowed(c, e) BY <1>1, <1>3 DEF Allowed, ClosedButDone
<1>5. Leads(c, <<e>>, ClosingWith(c, x, Changed(entry, e))) BY <1>1, <1>4, DoneLeads
<1> HIDE DEF entry
<1>6. Changed(entry, e) = left BY <1>1 DEF Changed
<1>7. /\ left \in ItemEntries /\ left.kind = entry.kind /\ left.pieces = entry.pieces
      /\ left.final = item.pieces /\ left.state = "done" /\ left.name = item.name
  BY <1>2 DEF ItemEntries
<1> HIDE DEF left
<1> QED BY <1>5, <1>6, <1>7 DEF e, entry

\* The entry an event left, and the next event about the same item.
LEMMA SetTwice ==
  ASSUME NEW n \in Nat, NEW x \in 0..(n - 1), NEW c, c.items \in [0..(n - 1) -> ItemEntries],
         NEW entry \in ItemEntries
  PROVE  /\ ClosingWith(c, x, entry).items \in [0..(n - 1) -> ItemEntries]
         /\ ClosingWith(c, x, entry).items[x] = entry
         /\ ClosingWith(c, x, entry).phase = "closing" /\ ClosingWith(c, x, entry).output = <<>>
         /\ \A other : ClosingWith(ClosingWith(c, x, entry), x, other) = ClosingWith(c, x, other)
BY DEF ClosingWith

\* The events that close one item.
LEMMA ClosesLeads ==
  ASSUME NEW n \in Nat, NEW x \in 0..(n - 1), NEW c, c.items \in [0..(n - 1) -> ItemEntries],
         c.phase \in {"created", "closing"}, c.output = <<>>, NEW item \in Items,
         Agrees(c.items[x], item)
  PROVE  /\ item.kind = "message" =>
              Leads(c, <<Event("content_done", x, item), Event("part_done", x, item),
                         Event("item_done", x, item)>>, ClosingWith(c, x, ClosedEntry(item)))
         /\ item.kind # "message" =>
              Leads(c, <<Event("content_done", x, item), Event("item_done", x, item)>>,
                    ClosingWith(c, x, ClosedEntry(item)))
<1> DEFINE old == c.items[x]
<1>1. /\ CanFill(old) /\ old.kind = item.kind /\ item.pieces = old.pieces
      /\ (old.name = item.name \/ (old.kind = "call" /\ old.name = 0))
      /\ old \in ItemEntries
  BY DEF Agrees
<1>2. PICK one :
        /\ Leads(c, <<Event("content_done", x, item)>>, ClosingWith(c, x, one))
        /\ one \in ItemEntries /\ one.kind = old.kind /\ one.pieces = old.pieces
        /\ one.final = item.pieces /\ one.state = "content" /\ one.name = old.name
  BY <1>1, ContentDoneLeads
<1> DEFINE c1 == ClosingWith(c, x, one)
<1>3. /\ c1.items \in [0..(n - 1) -> ItemEntries] /\ c1.items[x] = one
      /\ c1.phase = "closing" /\ c1.output = <<>>
      /\ \A other : ClosingWith(c1, x, other) = ClosingWith(c, x, other)
  BY <1>2, SetTwice
<1>4. Leads(c, <<Event("content_done", x, item)>>, c1) BY <1>2
<1> HIDE DEF c1, old
<1>5. ASSUME NEW d, d.items \in [0..(n - 1) -> ItemEntries], d.phase = "closing",
             d.output = <<>>, \A other : ClosingWith(d, x, other) = ClosingWith(c, x, other),
             ClosedButDone(d.items[x]), d.items[x].kind = old.kind,
             d.items[x].name = old.name, d.items[x].pieces = old.pieces,
             d.items[x].final = item.pieces
      PROVE  Leads(d, <<Event("item_done", x, item)>>, ClosingWith(c, x, ClosedEntry(item)))
  <2>1. item.name # d.items[x].name => d.items[x].kind = "call" /\ d.items[x].name = 0
    BY <1>1, <1>5
  <2>2. item.pieces = d.items[x].final BY <1>5
  <2>3. PICK left : /\ Leads(d, <<Event("item_done", x, item)>>, ClosingWith(d, x, left))
                    /\ left \in ItemEntries /\ left.kind = d.items[x].kind
                    /\ left.pieces = d.items[x].pieces /\ left.final = item.pieces
                    /\ left.state = "done" /\ left.name = item.name
    BY <1>5, <2>1, <2>2, ItemDoneLeads
  <2>4. left \in [kind : {item.kind}, name : {item.name}, pieces : {item.pieces},
                  state : {"done"}, final : {item.pieces}]
    BY <1>1, <1>5, <2>3 DEF ItemEntries
  <2>5. left = ClosedEntry(item) BY <2>4 DEF ClosedEntry
  <2> QED BY <1>5, <2>3, <2>5
<1>6. CASE item.kind = "message"
  <2>1. one.kind = "message" /\ one.state = "content" /\ item.pieces = one.final
    BY <1>1, <1>2, <1>6
  <2>1a. /\ c1.items[x].kind = "message" /\ c1.items[x].state = "content"
         /\ item.pieces = c1.items[x].final
    BY <1>3, <2>1
  <2>1b. \E left :
           /\ Leads(c1, <<Event("part_done", x, item)>>, ClosingWith(c1, x, left))
           /\ left \in ItemEntries /\ left.kind = c1.items[x].kind
           /\ left.pieces = c1.items[x].pieces /\ left.final = item.pieces
           /\ left.state = "partDone" /\ left.name = c1.items[x].name
    BY <1>3, <2>1a, PartDoneLeads
  <2>2. PICK two :
          /\ Leads(c1, <<Event("part_done", x, item)>>, ClosingWith(c1, x, two))
          /\ two \in ItemEntries /\ two.kind = one.kind /\ two.pieces = one.pieces
          /\ two.final = item.pieces /\ two.state = "partDone" /\ two.name = one.name
    BY <1>3, <2>1b
  <2> DEFINE c2 == ClosingWith(c1, x, two)
  <2>3. /\ c2.items \in [0..(n - 1) -> ItemEntries] /\ c2.items[x] = two
        /\ c2.phase = "closing" /\ c2.output = <<>>
        /\ \A other : ClosingWith(c2, x, other) = ClosingWith(c1, x, other)
    BY <1>3, <2>2, SetTwice
  <2>4. Leads(c1, <<Event("part_done", x, item)>>, c2) BY <2>2
  <2> HIDE DEF c2
  <2>5. \A other : ClosingWith(c2, x, other) = ClosingWith(c, x, other) BY <1>3, <2>3
  <2>6. ClosedButDone(two) BY <2>1, <2>2 DEF ClosedButDone
  <2>7. Leads(c2, <<Event("item_done", x, item)>>, ClosingWith(c, x, ClosedEntry(item)))
    BY <1>2, <1>5, <2>2, <2>3, <2>5, <2>6
  <2>8. <<Event("content_done", x, item), Event("part_done", x, item),
          Event("item_done", x, item)>>
          = <<Event("content_done", x, item)>> \o <<Event("part_done", x, item)>>
              \o <<Event("item_done", x, item)>>
    OBVIOUS
  <2> QED BY <1>4, <1>6, <2>4, <2>7, <2>8, LeadsJoined
<1>7. CASE item.kind # "message"
  <2>1. ClosedButDone(one) BY <1>1, <1>2, <1>7 DEF ClosedButDone
  <2>2. Leads(c1, <<Event("item_done", x, item)>>, ClosingWith(c, x, ClosedEntry(item)))
    BY <1>2, <1>3, <1>5, <2>1
  <2>3. <<Event("content_done", x, item), Event("item_done", x, item)>>
          = <<Event("content_done", x, item)>> \o <<Event("item_done", x, item)>>
    OBVIOUS
  <2> QED BY <1>4, <1>7, <2>2, <2>3, LeadsJoined
<1> QED BY <1>6, <1>7

\* The order of closing goes through every output index once.
LEMMA OrderIsComplete ==
  ASSUME NEW t, TranslatorTyped(t), Placed(t), NEW n \in Nat, n = t.next
  PROVE  /\ \A i \in 1..n : ClosingOrder(t)[i] \in 0..(n - 1)
         /\ \A i, j \in 1..n : ClosingOrder(t)[i] = ClosingOrder(t)[j] => i = j
         /\ \A x \in 0..(n - 1) : \E i \in 1..n : ClosingOrder(t)[i] = x
<1> DEFINE order == ClosingOrder(t)
           indexes == [i \in 1..n |-> i - 1]
           ti == t.textIndex
<1>1. indexes \in Seq(Nat) /\ Len(indexes) = n /\ \A i \in 1..n : indexes[i] = i - 1
  <2>1. indexes \in [1..n -> Nat] OBVIOUS
  <2>2. indexes \in Seq(Nat) BY <2>1, IsASeq
  <2> QED BY <2>1, <2>2, LenProperties
<1>2. CASE ti = NoIndex
  <2>1. order = indexes BY <1>2 DEF ClosingOrder
  <2>2. \A i \in 1..n : order[i] = i - 1 BY <2>1
  <2> HIDE DEF order
  <2>3. \A x \in 0..(n - 1) : x + 1 \in 1..n /\ order[x + 1] = x BY <2>2
  <2>4. \A x \in 0..(n - 1) : \E i \in 1..n : order[i] = x BY <2>3
  <2>5. \A i, j \in 1..n : order[i] = order[j] => i = j BY <2>2
  <2>6. \A i \in 1..n : order[i] \in 0..(n - 1) BY <2>2
  <2> QED BY <2>4, <2>5, <2>6 DEF order
<1>3. CASE ti # NoIndex
  <2>1. ti \in 0..(n - 1)
    <3>1. Message \in Carried(t) /\ Position(t, Message) = ti BY <1>3 DEF Carried, Position
    <3> QED BY <3>1 DEF Placed
  <2> DEFINE left == RemoveAt(indexes, ti + 1)
  <2>2. order = <<ti>> \o left BY <1>3 DEF ClosingOrder
  <2> HIDE DEF order, indexes
  <2>3. /\ left \in Seq(Nat) /\ Len(left) = n - 1
        /\ \A i \in 1..(n - 1) : left[i] = IF i < ti + 1 THEN indexes[i] ELSE indexes[i + 1]
    <3>1. ti + 1 \in 1..Len(indexes) BY <1>1, <2>1
    <3>2. /\ left \in Seq(Nat) /\ Len(left) = Len(indexes) - 1
          /\ \A i \in 1..(Len(indexes) - 1) :
               left[i] = IF i < ti + 1 THEN indexes[i] ELSE indexes[i + 1]
      BY <1>1, <3>1, Removed
    <3> QED BY <1>1, <3>2
  <2> HIDE DEF left
  <2>4. /\ order[1] = ti
        /\ \A i \in 2..n : order[i] = left[i - 1]
    <3>1. <<ti>> \in Seq(Nat) /\ Len(<<ti>>) = 1 /\ <<ti>>[1] = ti BY <2>1
    <3>2. Len(<<ti>> \o left) = n BY <2>1, <2>3, <3>1, ConcatProperties
    <3> QED BY <2>1, <2>2, <2>3, <3>1, <3>2, ConcatProperties
  <2>5. \A i \in 2..n : order[i] = IF i <= ti + 1 THEN i - 2 ELSE i - 1
    <3> SUFFICES ASSUME NEW i \in 2..n
        PROVE order[i] = IF i <= ti + 1 THEN i - 2 ELSE i - 1
      OBVIOUS
    <3>1. i - 1 \in 1..(n - 1) /\ i - 1 \in 1..n /\ i \in 1..n /\ i - 1 + 1 = i OBVIOUS
    <3>2. indexes[i - 1] = i - 2 /\ indexes[i] = i - 1 BY <1>1, <3>1
    <3>3. order[i] = IF i - 1 < ti + 1 THEN indexes[i - 1] ELSE indexes[i]
      BY <2>3, <2>4, <3>1
    <3> QED BY <2>1, <3>2, <3>3
  <2>6. \A i \in 1..n :
          order[i] = IF i = 1 THEN ti ELSE IF i <= ti + 1 THEN i - 2 ELSE i - 1
    BY <2>4, <2>5
  <2>7. \A i \in 1..n : order[i] \in 0..(n - 1) BY <2>1, <2>6
  <2>8. \A i, j \in 1..n : order[i] = order[j] => i = j BY <2>1, <2>6
  <2>9. ASSUME NEW x \in 0..(n - 1) PROVE \E i \in 1..n : order[i] = x
    <3>1. CASE x = ti
      <4>1. 1 \in 1..n BY <2>1
      <4> QED BY <2>4, <3>1, <4>1
    <3>2. CASE x < ti
      <4>1. x + 2 \in 1..n /\ order[x + 2] = x BY <2>1, <2>6, <3>2
      <4> QED BY <4>1
    <3>3. CASE x > ti
      <4>1. x + 1 \in 1..n /\ order[x + 1] = x BY <2>1, <2>6, <3>3
      <4> QED BY <4>1
    <3> QED BY <2>1, <3>1, <3>2, <3>3
  <2> QED BY <2>7, <2>8, <2>9 DEF order
<1> QED BY <1>2, <1>3

\* One item more is closed, and the others are as they were.
LEMMA OneMoreClosed ==
  ASSUME NEW t, TranslatorTyped(t), Placed(t), NEW d, InStep(d, t),
         NEW closed, NEW x \in 0..(t.next - 1), x \notin closed
  PROVE  Leads(ClosedTo(d, t, closed), Closes(t, x), ClosedTo(d, t, closed \cup {x}))
<1> DEFINE c == ClosedTo(d, t, closed)
           item == ItemAt(t, x)
<1>1. PICK n \in Nat : n = t.next BY DEF TranslatorTyped
<1>2. /\ Agrees(d.items[x], item) /\ item \in Items
      /\ item.kind = IF x = t.textIndex THEN "message" ELSE "call"
  BY InStepByIndex
<1>3. \A y \in 0..(n - 1) : ClosedEntry(ItemAt(t, y)) \in ItemEntries
  <2> SUFFICES ASSUME NEW y \in 0..(n - 1) PROVE ClosedEntry(ItemAt(t, y)) \in ItemEntries
    OBVIOUS
  <2>1. /\ ItemAt(t, y) \in Items
        /\ ItemAt(t, y).kind = IF y = t.textIndex THEN "message" ELSE "call"
    BY <1>1, InStepByIndex
  <2>2. ItemAt(t, y).kind \in {"message", "call"} BY <2>1
  <2> QED BY <2>1, <2>2 DEF ClosedEntry, Items, ItemEntries
<1>4. /\ c.items \in [0..(n - 1) -> ItemEntries] /\ c.items[x] = d.items[x]
      /\ c.phase \in {"created", "closing"} /\ c.output = <<>>
  <2>1. d.items \in [0..(n - 1) -> ItemEntries] BY <1>1 DEF InStep
  <2> QED BY <1>1, <1>3, <2>1 DEF ClosedTo
<1>5. ClosingWith(c, x, ClosedEntry(item)) = ClosedTo(d, t, closed \cup {x})
  <2>1. closed \cup {x} # {} OBVIOUS
  <2>2. ClosedTo(d, t, closed \cup {x}).items = [c.items EXCEPT ![x] = ClosedEntry(item)]
    BY DEF ClosedTo
  <2> HIDE DEF c
  <2>3. ClosedTo(d, t, closed \cup {x}) =
          [phase |-> "closing", items |-> ClosedTo(d, t, closed \cup {x}).items,
           output |-> <<>>]
    BY <2>1 DEF ClosedTo
  <2> QED BY <2>2, <2>3 DEF ClosingWith
<1> HIDE DEF c, item
<1>6. x \in 0..(n - 1) BY <1>1
<1>7. Leads(c, Closes(t, x), ClosingWith(c, x, ClosedEntry(item)))
  <2>1. Agrees(c.items[x], item) BY <1>2, <1>4
  <2>2. CASE x = t.textIndex
    <3>1. item.kind = "message" BY <1>2, <2>2
    <3>2. Closes(t, x) = <<Event("content_done", x, item), Event("part_done", x, item),
                           Event("item_done", x, item)>>
      BY <2>2 DEF Closes, item
    <3> QED BY <1>2, <1>4, <1>6, <2>1, <3>1, <3>2, ClosesLeads
  <2>3. CASE x # t.textIndex
    <3>1. item.kind # "message" BY <1>2, <2>3
    <3>2. Closes(t, x) = <<Event("content_done", x, item), Event("item_done", x, item)>>
      BY <2>3 DEF Closes, item
    <3> QED BY <1>2, <1>4, <1>6, <2>1, <3>1, <3>2, ClosesLeads
  <2> QED BY <2>2, <2>3
<1> QED BY <1>5, <1>7 DEF c

\* All closing events, by induction over how many items are closed.
LEMMA ClosingLeads ==
  ASSUME NEW t, TranslatorTyped(t), Placed(t), t.next > 0, NEW d, InStep(d, t)
  PROVE  Leads(d, Closing(t), ClosedTo(d, t, 0..(t.next - 1)))
<1>1. PICK n \in Nat : n = t.next BY DEF TranslatorTyped
<1> DEFINE order == ClosingOrder(t)
           ss == [i \in 1..n |-> Closes(t, order[i])]
           closed(i) == {order[j] : j \in 1..i}
<1>2. /\ \A i \in 1..n : order[i] \in 0..(n - 1)
      /\ \A i, j \in 1..n : order[i] = order[j] => i = j
      /\ \A x \in 0..(n - 1) : \E i \in 1..n : order[i] = x
  BY <1>1, OrderIsComplete
<1>3. Len(ss) = n OBVIOUS
<1>4. Closing(t) = FlattenSeq(ss) BY <1>1 DEF Closing
<1>5. \A i \in 1..n : ss[i] = Closes(t, order[i]) OBVIOUS
<1> HIDE DEF order, ss
<1>6. PICK flat : /\ FlattenSeq(ss) = flat[n] /\ flat[1] = ss[1]
                  /\ \A i \in 2..n : flat[i] = flat[i - 1] \o ss[i]
  <2>1. Len(ss) \in Nat /\ Len(ss) > 0 BY <1>1, <1>3
  <2>2. \E flat : /\ FlattenSeq(ss) = flat[Len(ss)]
                 /\ flat[1] = ss[1]
                 /\ \A i \in 2..Len(ss) : flat[i] = flat[i - 1] \o ss[i]
    BY <2>1, Flattening, Zenon
  <2> QED BY <1>3, <2>2
<1>7. d = ClosedTo(d, t, {})
  <2>1. t.created BY DEF Placed
  <2>2. d = [phase |-> "created", items |-> d.items, output |-> <<>>] BY <2>1 DEF InStep
  <2>3. d.items = [x \in 0..(t.next - 1) |-> d.items[x]] BY DEF InStep
  <2> QED BY <2>2, <2>3 DEF ClosedTo
<1>8. closed(1) = {} \cup {order[1]}
  <2>1. \A j : j \in 1..1 <=> j = 1 OBVIOUS
  <2> QED BY <2>1
<1> DEFINE S == {i \in Nat : i \in 1..n => Leads(d, flat[i], ClosedTo(d, t, closed(i)))}
<1>9. 0 \in S OBVIOUS
<1>10. ASSUME NEW i \in Nat, i \in S PROVE i + 1 \in S
  <2> SUFFICES ASSUME i + 1 \in 1..n
               PROVE Leads(d, flat[i + 1], ClosedTo(d, t, closed(i + 1)))
    OBVIOUS
  <2>1. CASE i = 0
    <3>1. order[1] \in 0..(t.next - 1) /\ ss[1] = Closes(t, order[1]) BY <1>1, <1>2, <1>5, <2>1
    <3>2. Leads(ClosedTo(d, t, {}), Closes(t, order[1]), ClosedTo(d, t, {} \cup {order[1]}))
      BY <3>1, OneMoreClosed
    <3>3. i + 1 = 1 BY <2>1
    <3> HIDE DEF closed
    <3> QED BY <1>6, <1>7, <1>8, <3>1, <3>2, <3>3
  <2>2. CASE i > 0
    <3>1. i \in 1..n /\ i + 1 \in 2..n /\ i + 1 - 1 = i BY <2>2
    <3>2. Leads(d, flat[i], ClosedTo(d, t, closed(i))) BY <1>10, <3>1
    <3>3. order[i + 1] \in 0..(t.next - 1) /\ ss[i + 1] = Closes(t, order[i + 1])
      BY <1>1, <1>2, <1>5
    <3>4. order[i + 1] \notin closed(i)
      <4>1. ASSUME NEW j \in 1..i, order[i + 1] = order[j] PROVE FALSE
        <5>1. j \in 1..n BY <3>1
        <5>2. i + 1 = j BY <1>2, <4>1, <5>1
        <5> QED BY <5>2
      <4> QED BY <4>1
    <3>5. closed(i + 1) = closed(i) \cup {order[i + 1]}
      <4>1. \A j : j \in 1..(i + 1) <=> (j \in 1..i \/ j = i + 1) OBVIOUS
      <4> QED BY <4>1
    <3>6. flat[i + 1] = flat[i] \o ss[i + 1]
      <4>1. PICK k \in 2..n : k = i + 1 /\ k - 1 = i BY <3>1
      <4>2. flat[k] = flat[k - 1] \o ss[k] BY <1>6
      <4> QED BY <4>1, <4>2
    <3> HIDE DEF closed
    <3>7. Leads(ClosedTo(d, t, closed(i)), Closes(t, order[i + 1]),
                ClosedTo(d, t, closed(i) \cup {order[i + 1]}))
      BY <3>3, <3>4, OneMoreClosed
    <3> QED BY <3>2, <3>3, <3>5, <3>6, <3>7, LeadsJoined
  <2> QED BY <2>1, <2>2
<1> HIDE DEF S
<1>11. \A i \in Nat : i \in S BY <1>9, <1>10, Induction
<1>12. Leads(d, flat[n], ClosedTo(d, t, closed(n))) BY <1>1, <1>11 DEF S
<1>13. closed(n) = 0..(t.next - 1) BY <1>1, <1>2
<1> QED BY <1>4, <1>6, <1>12, <1>13

\* The client when the response is complete.
Done(client, t) ==
    /\ client.phase = "completed"
    /\ client.items \in [0..(t.next - 1) -> ItemEntries]
    /\ client.output = [i \in 1..t.next |-> ItemAt(t, i - 1)]

\* response.completed, when all items are closed.
LEMMA CompletesLeads ==
  ASSUME NEW t, TranslatorTyped(t), Placed(t), NEW n \in Nat, n = t.next, n > 0,
         NEW d, InStep(d, t)
  PROVE  \E end : /\ Leads(ClosedTo(d, t, 0..(n - 1)), <<Completes(t)>>, end)
                  /\ Done(end, t)
<1> DEFINE c == ClosedTo(d, t, 0..(n - 1))
           e == Completes(t)
           out == [i \in 1..n |-> ItemAt(t, i - 1)]
           end == [phase |-> "completed", items |-> c.items, output |-> out]
<1>1. \A x \in 0..(n - 1) :
        /\ ItemAt(t, x) \in Items /\ ItemAt(t, x).kind \in {"message", "call"}
        /\ ItemAt(t, x) = [kind |-> ItemAt(t, x).kind, name |-> ItemAt(t, x).name,
                           pieces |-> ItemAt(t, x).pieces]
        /\ ClosedEntry(ItemAt(t, x)) \in ItemEntries
  <2> SUFFICES ASSUME NEW x \in 0..(n - 1)
      PROVE /\ ItemAt(t, x) \in Items /\ ItemAt(t, x).kind \in {"message", "call"}
            /\ ItemAt(t, x) = [kind |-> ItemAt(t, x).kind, name |-> ItemAt(t, x).name,
                               pieces |-> ItemAt(t, x).pieces]
            /\ ClosedEntry(ItemAt(t, x)) \in ItemEntries
    OBVIOUS
  <2>1. /\ ItemAt(t, x) \in Items
        /\ ItemAt(t, x).kind = IF x = t.textIndex THEN "message" ELSE "call"
    BY InStepByIndex
  <2> DEFINE item == ItemAt(t, x)
  <2>2. item \in Items /\ item.kind \in {"message", "call"} BY <2>1
  <2> HIDE DEF item
  <2>3. item = [kind |-> item.kind, name |-> item.name, pieces |-> item.pieces]
    BY <2>2 DEF Items
  <2>4. ClosedEntry(item) \in ItemEntries BY <2>2 DEF ClosedEntry, Items, ItemEntries
  <2> QED BY <2>2, <2>3, <2>4 DEF item
<1>2. /\ c.phase = "closing" /\ c.output = <<>>
      /\ c.items = [x \in 0..(n - 1) |-> ClosedEntry(ItemAt(t, x))]
  <2>1. 0 \in 0..(n - 1) OBVIOUS
  <2>2. c.phase = "closing" /\ c.output = <<>> BY <2>1 DEF ClosedTo
  <2>3. c.items = [x \in 0..(n - 1) |-> IF x \in 0..(n - 1) THEN ClosedEntry(ItemAt(t, x))
                                        ELSE d.items[x]]
    BY DEF ClosedTo
  <2> QED BY <2>2, <2>3
<1> HIDE DEF c
<1>3. c.items \in [0..(n - 1) -> ItemEntries] BY <1>1, <1>2
<1>4. out \in Outputs
  <2>1. \A i \in 1..n : i - 1 \in 0..(n - 1) OBVIOUS
  <2>2. out \in [1..n -> Items] BY <1>1, <2>1
  <2> HIDE DEF out
  <2> QED BY <2>2, IsASeq DEF Outputs
<1>5. /\ e \in EventRecords /\ e.type = "completed" /\ e.output = out
  <2> DEFINE blank == Event("completed", 0, NoItem)
  <2>1. /\ blank.type = "completed"
        /\ blank \in [type : {"completed"}, index : {0}, item : Items, output : {<<>>}]
    BY ResponsesStreamAssumption DEF Event, NoItem, Item, Items
  <2>2. e = [blank EXCEPT !.output = out] BY DEF Completes
  <2> HIDE DEF blank, e, out
  <2> QED BY <1>4, <2>1, <2>2 DEF EventRecords
<1>6. out = [i \in 1..n |-> [kind |-> c.items[i - 1].kind, name |-> c.items[i - 1].name,
                             pieces |-> c.items[i - 1].final]]
  <2>1. \A i \in 1..n : out[i] = [kind |-> c.items[i - 1].kind, name |-> c.items[i - 1].name,
                                 pieces |-> c.items[i - 1].final]
    <3> SUFFICES ASSUME NEW i \in 1..n
        PROVE out[i] = [kind |-> c.items[i - 1].kind, name |-> c.items[i - 1].name,
                        pieces |-> c.items[i - 1].final]
      OBVIOUS
    <3>1. i - 1 \in 0..(n - 1) OBVIOUS
    <3>2. c.items[i - 1] = ClosedEntry(ItemAt(t, i - 1)) BY <1>2, <3>1
    <3>3. out[i] = ItemAt(t, i - 1) OBVIOUS
    <3>4. /\ c.items[i - 1].kind = ItemAt(t, i - 1).kind
          /\ c.items[i - 1].name = ItemAt(t, i - 1).name
          /\ c.items[i - 1].final = ItemAt(t, i - 1).pieces
      BY <3>2 DEF ClosedEntry
    <3> QED BY <1>1, <3>1, <3>3, <3>4
  <2> QED BY <2>1
<1>7. Allowed(c, e)
  <2>1. \A i \in 0..(n - 1) : c.items[i].state = "done" BY <1>2 DEF ClosedEntry
  <2>2. DOMAIN c.items = 0..(n - 1) BY <1>3
  <2> HIDE DEF e, out
  <2>3. \E m \in Nat :
          /\ DOMAIN c.items = 0..(m - 1)
          /\ \A i \in 0..(m - 1) : c.items[i].state = "done"
          /\ e.output = [i \in 1..m |-> [kind |-> c.items[i - 1].kind,
                                         name |-> c.items[i - 1].name,
                                         pieces |-> c.items[i - 1].final]]
    BY <1>5, <1>6, <2>1, <2>2
  <2> QED BY <1>2, <1>3, <1>5, <2>3 DEF Allowed
<1>8. SeenAfter(c, e) = end BY <1>5 DEF SeenAfter
<1>9. Leads(c, <<e>>, end)
  <2> HIDE DEF e, end
  <2> QED BY <1>5, <1>7, <1>8, LeadsOn
<1>10. Done(end, t) BY <1>3 DEF Done
<1> HIDE DEF end
<1> QED BY <1>9, <1>10 DEF c

\* Closing looks at the items only.
LEMMA SameClosing ==
  ASSUME NEW one, NEW other, one.next = other.next, one.textIndex = other.textIndex,
         one.text = other.text, one.tools = other.tools
  PROVE  Closing(one) = Closing(other) /\ Completes(one) = Completes(other)
<1>1. \A x : ItemAt(one, x) = ItemAt(other, x) BY DEF ItemAt
<1>2. \A x : Closes(one, x) = Closes(other, x) BY <1>1 DEF Closes
<1>3. ClosingOrder(one) = ClosingOrder(other) BY DEF ClosingOrder
<1> QED BY <1>1, <1>2, <1>3 DEF Closing, Completes

\* The closing events and the last one, after whatever opens the message.
LEMMA FinishLeads ==
  ASSUME NEW c, NEW opening, NEW d, NEW t, Leads(c, opening, d), InStep(d, t),
         TranslatorTyped(t), Placed(t), t.next > 0
  PROVE  \E end : /\ Leads(c, opening \o Closing(t) \o <<Completes(t)>>, end)
                  /\ Done(end, t)
<1>1. PICK n \in Nat : n = t.next BY DEF TranslatorTyped
<1>2. Leads(d, Closing(t), ClosedTo(d, t, 0..(n - 1))) BY <1>1, ClosingLeads
<1>3. PICK end : /\ Leads(ClosedTo(d, t, 0..(n - 1)), <<Completes(t)>>, end)
                 /\ Done(end, t)
  BY <1>1, CompletesLeads
<1>4. Leads(c, opening \o Closing(t), ClosedTo(d, t, 0..(n - 1))) BY <1>2, LeadsJoined
<1> QED BY <1>3, <1>4, LeadsJoined

\* A response with nothing in it is given an empty message.
LEMMA EmptyAdds ==
  ASSUME NEW tr, TranslatorTyped(tr), Placed(tr), tr.next = 0, NEW n \in Nat
  PROVE  /\ TranslatorTyped(Emitted(NonEmpty(tr), n))
         /\ Adds(tr, Emitted(NonEmpty(tr), n), Message, 0, <<>>)
         /\ Position(Emitted(NonEmpty(tr), n), Message) = 0
         /\ Carried(tr) = {}
         /\ Emitted(NonEmpty(tr), n).seq = tr.seq + n
         /\ Emitted(NonEmpty(tr), n).text = <<>>
<1> DEFINE state == NonEmpty(tr)
           t == Emitted(state, n)
<1>1. Carried(tr) = {}
  <2>1. 0..(tr.next - 1) = {} OBVIOUS
  <2> QED BY <2>1 DEF Placed
<1>2. tr.textIndex = NoIndex /\ DOMAIN tr.tools = {} BY <1>1 DEF Carried
<1>3. tr.text = <<>> BY <1>2 DEF TranslatorTyped
<1>4. tr \in [created : BOOLEAN, seq : Nat, next : {0}, textIndex : {NoIndex},
              text : {<<>>}, tools : {tr.tools}]
  BY <1>2, <1>3 DEF TranslatorTyped
<1>5. state \in [created : BOOLEAN, seq : {tr.seq}, next : {1}, textIndex : {0},
                 text : {<<>>}, tools : {tr.tools}]
  <2>1. state = [tr EXCEPT !.textIndex = 0, !.next = 1] BY DEF NonEmpty
  <2> HIDE DEF state
  <2> QED BY <1>4, <2>1
<1> HIDE DEF state
<1>6. /\ t \in [created : BOOLEAN, seq : {tr.seq + n}, next : {1}, textIndex : {0},
                text : {<<>>}, tools : {tr.tools}]
      /\ t.created = TRUE
  BY <1>5 DEF Emitted
<1> HIDE DEF t
<1>7. /\ t.created /\ t.seq = tr.seq + n /\ t.next = 1 /\ t.textIndex = 0 /\ t.text = <<>>
      /\ t.tools = tr.tools
  BY <1>6
<1>8. TranslatorTyped(t)
  <2>1. tr.seq + n \in Nat BY <1>4
  <2>2. PICK none \in Seq(1..MaxParts) : none = <<>>
    <3>1. <<>> \in Seq(1..MaxParts) OBVIOUS
    <3> QED BY <3>1, Zenon
  <2>3. t \in [created : BOOLEAN, seq : {tr.seq + n}, next : {1}, textIndex : {0},
               text : {none}, tools : {t.tools}]
    BY <1>6, <1>7, <2>2
  <2>4. t \in [created : BOOLEAN, seq : Nat, next : Nat, textIndex : {NoIndex} \cup Nat,
               text : Seq(1..MaxParts), tools : {t.tools}]
    BY <2>1, <2>3
  <2> QED BY <1>7, <2>4 DEF TranslatorTyped, NoIndex
<1>9. Carried(t) = {Message} BY <1>2, <1>7 DEF Carried, NoIndex
<1>10. Position(t, Message) = 0 /\ ItemOf(t, Message) = Item("message", 0, <<>>)
  BY <1>7 DEF Position, ItemOf
<1>11. Adds(tr, t, Message, 0, <<>>) BY <1>1, <1>4, <1>7, <1>9, <1>10 DEF Adds
<1> QED BY <1>1, <1>7, <1>8, <1>10, <1>11 DEF t, state

\* The client is sent the empty message.
LEMMA EmptyLeads ==
  ASSUME TranslatorTyped(translator), Placed(translator), translator.next = 0,
         NEW c, InStep(c, translator), NEW n \in Nat
  PROVE  /\ Placed(Emitted(NonEmpty(translator), n))
         /\ Emitted(NonEmpty(translator), n).next > 0
         /\ \E d : /\ Leads(c, CreatedOnce \o OpensText(0), d)
                   /\ InStep(d, Emitted(NonEmpty(translator), n))
<1> DEFINE t == Emitted(NonEmpty(translator), n)
           entry == Entry("message", 0, <<>>, "part")
<1>1. /\ TranslatorTyped(t) /\ Adds(translator, t, Message, 0, <<>>)
      /\ Position(t, Message) = 0 /\ Carried(translator) = {}
  BY EmptyAdds
<1> HIDE DEF t
<1>2. Placed(t) BY <1>1, PlacedWithOneMore
<1>3. t.next > 0 BY <1>1 DEF Adds
<1>4. PICK d : Leads(c, CreatedOnce, d) /\ Ready(d, translator.next)
  BY CreatedOnceLeads
<1>5. Leads(d, OpensText(0), WithItem(d, 0, entry))
  <2>1. Ready(d, 0) BY <1>4
  <2> QED BY <2>1, OpensTextLeads
<1>6. Agrees(entry, ItemOf(t, Message))
  <2>1. ItemOf(t, Message) = Item("message", 0, <<>>) BY <1>1 DEF Adds
  <2>2. entry \in ItemEntries BY ResponsesStreamAssumption DEF Entry, ItemEntries
  <2> QED BY <2>1, <2>2 DEF Agrees, CanFill, Entry, Item
<1> HIDE DEF entry
<1>7. InStep(WithItem(d, 0, entry), t)
  <2>1. \A one \in Carried(translator) :
          Agrees(d.items[Position(translator, one)], ItemOf(translator, one))
    BY <1>1
  <2>2. InStep(WithItem(d, Position(t, Message), entry), t)
    BY <1>1, <1>4, <1>6, <2>1, InStepWithOneMore
  <2> QED BY <1>1, <2>2
<1>8. Leads(c, CreatedOnce \o OpensText(0), WithItem(d, 0, entry)) BY <1>4, <1>5, LeadsJoined
<1> QED BY <1>2, <1>3, <1>7, <1>8 DEF t
-----------------------------------------------------------------------------
(* What the upstream sent, and what the translator holds of it *)

FirstIn(parts, of) ==
    CHOOSE i \in DOMAIN parts : parts[i].of = of /\ \A j \in 1..(i - 1) : parts[j].of # of
SourcesIn(parts) == {parts[i].of : i \in DOMAIN parts}
Within(s) == {s[i] : i \in DOMAIN s}
NamedIn(parts, call) == \E i \in DOMAIN parts : parts[i].of = call /\ parts[i].named
PiecesIn(parts, of) == {parts[i].piece : i \in {n \in DOMAIN parts : parts[n].of = of}} \ {0}
Increasing(pieces) == \A i, j \in DOMAIN pieces : i < j => pieces[i] < pieces[j]
AllIn(parts, item, of) ==
    /\ item.kind = IF of = Message THEN "message" ELSE "call"
    /\ item.name = IF of = Message THEN 0 ELSE NameIn(of, NamedIn(parts, of))
    /\ Within(item.pieces) = PiecesIn(parts, of)
    /\ Increasing(item.pieces)

\* The name and the pieces a part brings.
NameOf(part) == IF part.of = Message THEN 0 ELSE NameIn(part.of, part.named)
PiecesOf(part) == IF part.piece = 0 THEN <<>> ELSE <<part.piece>>

\* The translator holds these parts, in the order they came.
HoldsPieces(tr, parts) ==
    /\ \A of \in SourcesIn(parts), one \in SourcesIn(parts) :
         Position(tr, of) < Position(tr, one) => FirstIn(parts, of) < FirstIn(parts, one)
    /\ \A of \in SourcesIn(parts) : AllIn(parts, ItemOf(tr, of), of)
    /\ \A i \in DOMAIN parts : parts[i].piece \in {0, i}

\* The first part from a source, when it is known.
LEMMA FirstIs ==
  ASSUME NEW parts \in Seq(GivenParts), NEW i \in 1..Len(parts), NEW of, parts[i].of = of,
         \A j \in 1..(i - 1) : parts[j].of # of
  PROVE  FirstIn(parts, of) = i
<1> DEFINE IsFirst(k) == parts[k].of = of /\ \A j \in 1..(k - 1) : parts[j].of # of
<1>1. i \in DOMAIN parts /\ IsFirst(i) OBVIOUS
<1>2. ASSUME NEW k \in DOMAIN parts, IsFirst(k) PROVE k = i
  <2>1. k \in 1..Len(parts) OBVIOUS
  <2>2. ~(k < i) BY <1>2, <2>1
  <2>3. ~(i < k) BY <1>1, <1>2, <2>1
  <2> QED BY <2>1, <2>2, <2>3
<1> HIDE DEF IsFirst
<1>3. (CHOOSE k \in DOMAIN parts : IsFirst(k)) = i BY <1>1, <1>2
<1> QED BY <1>3 DEF FirstIn, IsFirst

\* A source of parts has a first one.
LEMMA FirstExists ==
  ASSUME NEW parts \in Seq(GivenParts), NEW of \in SourcesIn(parts)
  PROVE  /\ FirstIn(parts, of) \in 1..Len(parts) /\ parts[FirstIn(parts, of)].of = of
         /\ \A j \in 1..(FirstIn(parts, of) - 1) : parts[j].of # of
<1> DEFINE S == {i \in 1..Len(parts) : parts[i].of = of}
<1>1. S # {} /\ S \subseteq Nat BY DEF SourcesIn
<1>2. PICK i \in S : \A k \in S : i <= k BY <1>1, LeastOf
<1>3. ASSUME NEW j \in 1..(i - 1) PROVE parts[j].of # of
  <2>1. j \in 1..Len(parts) /\ ~(i <= j) BY <1>2
  <2> QED BY <1>2, <2>1
<1>4. FirstIn(parts, of) = i BY <1>2, <1>3, FirstIs
<1> QED BY <1>2, <1>3, <1>4

\* The parts with one more at their end.
LEMMA WithPart ==
  ASSUME NEW parts \in Seq(GivenParts), NEW part \in GivenParts, NEW m \in Nat,
         m = Len(parts)
  PROVE  /\ Append(parts, part) \in Seq(GivenParts) /\ Len(Append(parts, part)) = m + 1
         /\ DOMAIN Append(parts, part) = 1..(m + 1) /\ DOMAIN parts = 1..m
         /\ \A i \in 1..m : Append(parts, part)[i] = parts[i]
         /\ Append(parts, part)[m + 1] = part
         /\ SourcesIn(Append(parts, part)) = SourcesIn(parts) \cup {part.of}
<1>1. /\ Append(parts, part) \in Seq(GivenParts) /\ Len(Append(parts, part)) = m + 1
      /\ \A i \in 1..m : Append(parts, part)[i] = parts[i]
      /\ Append(parts, part)[m + 1] = part
  BY AppendProperties
<1>2. DOMAIN Append(parts, part) = 1..(m + 1) /\ DOMAIN parts = 1..m
  BY <1>1, LenProperties
<1>3. 1..(m + 1) = 1..m \cup {m + 1} OBVIOUS
<1> DEFINE more == Append(parts, part)
<1> HIDE DEF more
<1>4. SourcesIn(more) = SourcesIn(parts) \cup {part.of}
  BY <1>1, <1>2, <1>3 DEF SourcesIn, more
<1> QED BY <1>1, <1>2, <1>4 DEF more

\* A part adds its piece to its own source's, and to no other.
LEMMA PiecesWithPart ==
  ASSUME NEW parts \in Seq(GivenParts), NEW part \in GivenParts, NEW m \in Nat,
         m = Len(parts), NEW of
  PROVE  /\ part.of = of => PiecesIn(Append(parts, part), of) =
                              PiecesIn(parts, of) \cup ({part.piece} \ {0})
         /\ part.of # of => PiecesIn(Append(parts, part), of) = PiecesIn(parts, of)
         /\ part.of # of => (NamedIn(Append(parts, part), of) <=> NamedIn(parts, of))
         /\ part.of = of => (NamedIn(Append(parts, part), of) <=>
                               NamedIn(parts, of) \/ part.named)
<1> DEFINE more == Append(parts, part)
<1>1. /\ DOMAIN more = 1..(m + 1) /\ DOMAIN parts = 1..m /\ more[m + 1] = part
      /\ \A i \in 1..m : more[i] = parts[i]
  BY WithPart
<1> HIDE DEF more
<1>2. \A i : i \in 1..(m + 1) <=> (i \in 1..m \/ i = m + 1) OBVIOUS
<1>3. NamedIn(more, of) <=> NamedIn(parts, of) \/ (part.of = of /\ part.named)
  <2>1. ASSUME NamedIn(more, of) PROVE NamedIn(parts, of) \/ (part.of = of /\ part.named)
    BY <1>1, <1>2, <2>1 DEF NamedIn
  <2>2. ASSUME NamedIn(parts, of) PROVE NamedIn(more, of)
    BY <1>1, <1>2, <2>2 DEF NamedIn
  <2>3. ASSUME part.of = of /\ part.named PROVE NamedIn(more, of)
    BY <1>1, <1>2, <2>3 DEF NamedIn
  <2> QED BY <2>1, <2>2, <2>3
<1>4. \A p : p \in PiecesIn(more, of) <=>
               (p \in PiecesIn(parts, of) \/ (part.of = of /\ p = part.piece /\ p # 0))
  <2>1. ASSUME NEW p, p \in PiecesIn(more, of), p \notin PiecesIn(parts, of)
        PROVE  part.of = of /\ p = part.piece /\ p # 0
    BY <1>1, <1>2, <2>1 DEF PiecesIn
  <2>2. ASSUME NEW p \in PiecesIn(parts, of) PROVE p \in PiecesIn(more, of)
    <3>1. PICK i \in 1..m : parts[i].of = of /\ parts[i].piece = p /\ p # 0
      BY <1>1, <2>2 DEF PiecesIn
    <3>2. i \in 1..(m + 1) /\ more[i] = parts[i] BY <1>1
    <3> QED BY <1>1, <3>1, <3>2 DEF PiecesIn
  <2>3. ASSUME part.of = of, part.piece # 0 PROVE part.piece \in PiecesIn(more, of)
    <3>1. m + 1 \in 1..(m + 1) OBVIOUS
    <3> QED BY <1>1, <2>3, <3>1 DEF PiecesIn
  <2> QED BY <2>1, <2>2, <2>3
<1>6. ASSUME part.of = of
      PROVE  /\ PiecesIn(more, of) = PiecesIn(parts, of) \cup ({part.piece} \ {0})
             /\ NamedIn(more, of) <=> NamedIn(parts, of) \/ part.named
  BY <1>3, <1>4, <1>6
<1>7. ASSUME part.of # of
      PROVE  /\ PiecesIn(more, of) = PiecesIn(parts, of)
             /\ NamedIn(more, of) <=> NamedIn(parts, of)
  BY <1>3, <1>4, <1>7
<1> QED BY <1>6, <1>7, Zenon DEF more

\* A piece that came later goes to the end.
LEMMA IncreasingWithLast ==
  ASSUME NEW pieces \in Seq(Nat), NEW p \in Nat, \A i \in DOMAIN pieces : pieces[i] < p,
         Increasing(pieces)
  PROVE  /\ Increasing(pieces \o <<p>>)
         /\ Within(pieces \o <<p>>) = Within(pieces) \cup {p}
<1> DEFINE more == pieces \o <<p>>
<1>1. PICK n \in Nat : n = Len(pieces) OBVIOUS
<1>2. /\ DOMAIN more = 1..(n + 1) /\ DOMAIN pieces = 1..n /\ more[n + 1] = p
      /\ \A i \in 1..n : more[i] = pieces[i]
  <2>1. <<p>> \in Seq(Nat) /\ Len(<<p>>) = 1 /\ <<p>>[1] = p OBVIOUS
  <2>2. Len(more) = n + 1 /\ more \in Seq(Nat) BY <1>1, <2>1, ConcatProperties
  <2>3. more[n + 1] = p /\ \A i \in 1..n : more[i] = pieces[i]
    BY <1>1, <2>1, <2>2, ConcatProperties
  <2> HIDE DEF more
  <2> QED BY <1>1, <2>2, <2>3
<1> HIDE DEF more
<1>3. \A i : i \in 1..(n + 1) <=> (i \in 1..n \/ i = n + 1) OBVIOUS
<1>4. \A i \in 1..n : pieces[i] \in Nat BY <1>1
<1>5. Increasing(more) BY <1>2, <1>3, <1>4 DEF Increasing
<1>6. Within(more) = Within(pieces) \cup {p} BY <1>2, <1>3 DEF Within
<1> QED BY <1>5, <1>6 DEF more

\* The item a part is about, after it.
LEMMA AllWithPart ==
  ASSUME NEW parts \in Seq(GivenParts), NEW part \in GivenParts, NEW m \in Nat,
         m = Len(parts), part.piece \in {0, m + 1},
         \A i \in DOMAIN parts : parts[i].piece \in {0, i},
         NEW item \in Items, AllIn(parts, item, part.of), NEW name, NEW pieces,
         name = NameOf(part), pieces = PiecesOf(part)
  PROVE  AllIn(Append(parts, part),
               Item(item.kind, IF item.name = 0 THEN name ELSE item.name,
                    item.pieces \o pieces), part.of)
<1>0. PICK of : of = part.of OBVIOUS
<1> DEFINE more == Append(parts, part)
           held == item.pieces
<1>1. held \in Seq(Nat)
  <2>1. PICK s \in Seq(1..MaxParts) : s = item.pieces BY DEF Items
  <2>2. s \in Seq(Nat)
    <3>1. s \in [1..Len(s) -> 1..MaxParts] /\ Len(s) \in Nat BY LenProperties
    <3>2. s \in [1..Len(s) -> Nat] BY <3>1
    <3> QED BY <3>1, <3>2, IsASeq
  <2> QED BY <2>1, <2>2
<1>2. /\ PiecesIn(more, of) = PiecesIn(parts, of) \cup ({part.piece} \ {0})
      /\ NamedIn(more, of) <=> NamedIn(parts, of) \/ part.named
  <2>1. \A one : /\ part.of = one => PiecesIn(Append(parts, part), one) =
                                      PiecesIn(parts, one) \cup ({part.piece} \ {0})
                 /\ part.of = one => (NamedIn(Append(parts, part), one) <=>
                                        NamedIn(parts, one) \/ part.named)
    BY PiecesWithPart
  <2> QED BY <1>0, <2>1, Zenon
<1>3. Within(held) = PiecesIn(parts, of) /\ Increasing(held) BY <1>0 DEF AllIn
<1>4. \A i \in DOMAIN held : held[i] <= m
  <2> SUFFICES ASSUME NEW i \in DOMAIN held PROVE held[i] <= m OBVIOUS
  <2>1. held[i] \in PiecesIn(parts, of) BY <1>3 DEF Within
  <2>2. PICK j \in DOMAIN parts : parts[j].piece = held[i] /\ held[i] # 0
    BY <2>1 DEF PiecesIn
  <2>3. j \in 1..m OBVIOUS
  <2>4. parts[j].piece \in {0, j} OBVIOUS
  <2> QED BY <2>2, <2>3, <2>4
<1> HIDE DEF more, held
<1>5. /\ Within(held \o pieces) = PiecesIn(more, of)
      /\ Increasing(held \o pieces)
  <2>1. CASE part.piece = 0
    <3>1. held \o pieces = held BY <1>1, <2>1 DEF PiecesOf
    <3> QED BY <1>2, <1>3, <2>1, <3>1
  <2>2. CASE part.piece # 0
    <3>1. pieces = <<part.piece>> /\ part.piece = m + 1 BY <2>2 DEF PiecesOf
    <3>2. \A i \in DOMAIN held : held[i] < part.piece
      <4>1. \A i \in DOMAIN held : held[i] \in Nat BY <1>1
      <4> QED BY <1>4, <3>1, <4>1
    <3>3. part.piece \in Nat BY <3>1
    <3>4. /\ Increasing(held \o <<part.piece>>)
          /\ Within(held \o <<part.piece>>) = Within(held) \cup {part.piece}
      BY <1>1, <1>3, <3>2, <3>3, IncreasingWithLast
    <3>5. {part.piece} \ {0} = {part.piece} BY <2>2
    <3> QED BY <1>2, <1>3, <3>1, <3>4, <3>5
  <2> QED BY <2>1, <2>2
<1>6. (IF item.name = 0 THEN name ELSE item.name) =
        IF of = Message THEN 0 ELSE NameIn(of, NamedIn(more, of))
  <2>1. item.name = IF of = Message THEN 0 ELSE NameIn(of, NamedIn(parts, of))
    BY <1>0 DEF AllIn
  <2>2. CASE of = Message BY <1>0, <2>1, <2>2 DEF NameOf
  <2>3. CASE of # Message
    <3>1. of + 1 # 0
      <4>1. of \in 0..(MaxCalls - 1) BY <1>0, <2>3 DEF GivenParts
      <4> QED BY <4>1
    <3>2. CASE NamedIn(parts, of)
      <4>1. item.name = of + 1 BY <2>1, <2>3, <3>2 DEF NameIn
      <4>2. NamedIn(more, of) BY <1>2, <3>2
      <4> QED BY <1>0, <2>3, <3>1, <4>1, <4>2 DEF NameIn
    <3>3. CASE ~NamedIn(parts, of)
      <4>1. item.name = 0 BY <2>1, <2>3, <3>3 DEF NameIn
      <4>2. NamedIn(more, of) <=> part.named BY <1>2, <3>3
      <4>3. NameIn(of, part.named) = NameIn(of, NamedIn(more, of)) BY <4>2 DEF NameIn
      <4> QED BY <1>0, <2>3, <4>1, <4>3 DEF NameOf
    <3> QED BY <3>2, <3>3
  <2> QED BY <2>2, <2>3
<1>7. item.kind = IF of = Message THEN "message" ELSE "call" BY <1>0 DEF AllIn
<1> QED BY <1>0, <1>5, <1>6, <1>7 DEF AllIn, Item, more, held

\* What the translator has of an item is one.
LEMMA ItemTyped ==
  ASSUME NEW tr, TranslatorTyped(tr), NEW of \in Carried(tr)
  PROVE  ItemOf(tr, of) \in Items
<1>1. CASE of = Message
  <2>1. tr.text \in Seq(1..MaxParts) BY DEF TranslatorTyped
  <2> QED BY <1>1, <2>1, ResponsesStreamAssumption DEF ItemOf, Item, Items
<1>2. CASE of # Message
  <2>1. tr.tools[of] \in CallItems BY <1>2 DEF Carried, TranslatorTyped
  <2> QED BY <1>2, <2>1 DEF ItemOf, Item, Items, CallItems
<1> QED BY <1>1, <1>2

\* What it holds of the parts sent, with one part more.
LEMMA HoldsWithPart ==
  ASSUME NEW parts \in Seq(GivenParts), NEW part \in GivenParts, NEW m \in Nat,
         m = Len(parts), part.piece \in {0, m + 1}, NEW tr, NEW t, TranslatorTyped(tr),
         Placed(tr), Carried(tr) = SourcesIn(parts), HoldsPieces(tr, parts),
         Adds(tr, t, part.of, NameOf(part), PiecesOf(part))
  PROVE  HoldsPieces(t, Append(parts, part)) /\ Carried(t) = SourcesIn(Append(parts, part))
<1>0. PICK of : of = part.of OBVIOUS
<1> DEFINE more == Append(parts, part)
           name == NameOf(part)
           pieces == PiecesOf(part)
<1>1. /\ more \in Seq(GivenParts) /\ Len(more) = m + 1
      /\ DOMAIN more = 1..(m + 1) /\ DOMAIN parts = 1..m
      /\ \A i \in 1..m : more[i] = parts[i]
      /\ more[m + 1] = part
      /\ SourcesIn(more) = SourcesIn(parts) \cup {of}
  BY <1>0, WithPart
<1>2. Adds(tr, t, of, name, pieces) BY <1>0
<1>3. \A i \in DOMAIN parts : parts[i].piece \in {0, i} BY DEF HoldsPieces
<1>5. Carried(t) = SourcesIn(more) BY <1>1, <1>2 DEF Adds
<1>6. \A one \in SourcesIn(parts) :
        /\ AllIn(parts, ItemOf(tr, one), one) /\ ItemOf(tr, one) \in Items
        /\ Position(t, one) = Position(tr, one)
        /\ Position(tr, one) \in 0..(tr.next - 1)
  <2>1. \A one \in SourcesIn(parts) : AllIn(parts, ItemOf(tr, one), one) BY DEF HoldsPieces
  <2>2. \A one \in SourcesIn(parts) : ItemOf(tr, one) \in Items BY ItemTyped
  <2>3. \A one \in SourcesIn(parts) : Position(t, one) = Position(tr, one) BY <1>2 DEF Adds
  <2>4. \A one \in SourcesIn(parts) : Position(tr, one) \in 0..(tr.next - 1) BY DEF Placed
  <2> QED BY <2>1, <2>2, <2>3, <2>4
<1> HIDE DEF more, name, pieces
<1>7. \A i \in DOMAIN more : more[i].piece \in {0, i}
  <2>1. \A i \in 1..(m + 1) : i \in 1..m \/ i = m + 1 OBVIOUS
  <2> QED BY <1>1, <1>3, <2>1
\* What came up first.
<1>8. \A one \in SourcesIn(parts) :
        FirstIn(more, one) = FirstIn(parts, one) /\ FirstIn(parts, one) \in 1..m
  <2> SUFFICES ASSUME NEW one \in SourcesIn(parts)
      PROVE FirstIn(more, one) = FirstIn(parts, one) /\ FirstIn(parts, one) \in 1..m
    OBVIOUS
  <2>1. PICK i : i = FirstIn(parts, one) OBVIOUS
  <2>2. /\ i \in 1..m /\ parts[i].of = one
        /\ \A j \in 1..(i - 1) : parts[j].of # one
    BY <2>1, FirstExists
  <2>3. i \in 1..Len(more) /\ more[i].of = one BY <1>1, <2>2
  <2>4. \A j \in 1..(i - 1) : more[j].of # one
    <3>1. \A j \in 1..(i - 1) : j \in 1..m BY <2>2
    <3> QED BY <1>1, <2>2, <3>1
  <2>5. FirstIn(more, one) = i BY <1>1, <2>3, <2>4, FirstIs
  <2> QED BY <2>1, <2>2, <2>5
<1>9. of \notin SourcesIn(parts) => FirstIn(more, of) = m + 1 /\ Position(t, of) = tr.next
  <2> SUFFICES ASSUME of \notin SourcesIn(parts)
      PROVE FirstIn(more, of) = m + 1 /\ Position(t, of) = tr.next
    OBVIOUS
  <2>1. PICK i \in Nat : i = m + 1 OBVIOUS
  <2>2. i \in 1..Len(more) /\ more[i].of = of BY <1>0, <1>1, <2>1
  <2>3. \A j \in 1..(i - 1) : more[j].of # of
    <3>1. \A j \in 1..(i - 1) : j \in 1..m BY <2>1
    <3>2. \A j \in 1..m : parts[j].of # of BY <1>1 DEF SourcesIn
    <3> QED BY <1>1, <3>1, <3>2
  <2>4. FirstIn(more, of) = i BY <1>1, <2>2, <2>3, FirstIs
  <2>5. Position(t, of) = tr.next BY <1>2 DEF Adds
  <2> QED BY <2>1, <2>4, <2>5
<1>10. tr.next \in Nat BY DEF TranslatorTyped
<1>11. ASSUME NEW one \in SourcesIn(more), NEW other \in SourcesIn(more),
              Position(t, one) < Position(t, other)
       PROVE  FirstIn(more, one) < FirstIn(more, other)
  <2>1. CASE one \in SourcesIn(parts) /\ other \in SourcesIn(parts)
    <3>1. Position(tr, one) < Position(tr, other) BY <1>6, <1>11, <2>1
    <3>2. FirstIn(parts, one) < FirstIn(parts, other) BY <2>1, <3>1 DEF HoldsPieces
    <3> QED BY <1>8, <2>1, <3>2
  <2>2. CASE one \in SourcesIn(parts) /\ other \notin SourcesIn(parts)
    <3>1. FirstIn(more, one) \in 1..m /\ FirstIn(more, other) = m + 1
      BY <1>1, <1>8, <1>9, <2>2
    <3> QED BY <3>1
  <2>3. CASE one \notin SourcesIn(parts)
    <3>1. Position(t, one) = tr.next BY <1>1, <1>9, <2>3
    <3>2. other \in SourcesIn(parts)
      <4>1. CASE other \notin SourcesIn(parts)
        <5>1. Position(t, other) = tr.next BY <1>1, <1>9, <4>1
        <5> QED BY <1>10, <1>11, <3>1, <5>1
      <4> QED BY <4>1
    <3>3. Position(t, other) \in 0..(tr.next - 1) BY <1>6, <3>2
    <3> QED BY <1>10, <1>11, <3>1, <3>3
  <2> QED BY <2>1, <2>2, <2>3
\* The items.
<1>12. ASSUME NEW one \in SourcesIn(more) PROVE AllIn(more, ItemOf(t, one), one)
  <2>1. CASE one # of
    <3>1. one \in SourcesIn(parts) /\ ItemOf(t, one) = ItemOf(tr, one)
      BY <1>1, <1>2, <2>1 DEF Adds
    <3>2. AllIn(parts, ItemOf(tr, one), one) BY <1>6, <3>1
    <3>3. \A any : /\ part.of # any => PiecesIn(Append(parts, part), any) = PiecesIn(parts, any)
                   /\ part.of # any => (NamedIn(Append(parts, part), any) <=>
                                          NamedIn(parts, any))
      BY PiecesWithPart
    <3>4. /\ PiecesIn(more, one) = PiecesIn(parts, one)
          /\ NamedIn(more, one) <=> NamedIn(parts, one)
      BY <1>0, <2>1, <3>3, Zenon DEF more
    <3>5. NameIn(one, NamedIn(more, one)) = NameIn(one, NamedIn(parts, one))
      BY <3>4 DEF NameIn
    <3> QED BY <3>1, <3>2, <3>4, <3>5 DEF AllIn
  <2>2. CASE one = of
    <3>1. ASSUME NEW item \in Items, AllIn(parts, item, of)
          PROVE  AllIn(more, Item(item.kind, IF item.name = 0 THEN name ELSE item.name,
                                  item.pieces \o pieces), of)
      BY <1>0, <1>3, <3>1, AllWithPart DEF more, name, pieces
    <3>2. CASE of \in SourcesIn(parts)
      <4>1. ItemOf(tr, of) \in Items /\ AllIn(parts, ItemOf(tr, of), of) BY <1>6, <3>2
      <4>2. ItemOf(t, of) = Item(ItemOf(tr, of).kind,
                                 IF ItemOf(tr, of).name = 0 THEN name ELSE ItemOf(tr, of).name,
                                 ItemOf(tr, of).pieces \o pieces)
        BY <1>2, <3>2 DEF Adds
      <4> QED BY <2>2, <3>1, <4>1, <4>2
    <3>3. CASE of \notin SourcesIn(parts)
      <4> DEFINE kind == IF of = Message THEN "message" ELSE "call"
                 item == Item(kind, 0, <<>>)
      <4>1. /\ item \in Items /\ item.kind = kind /\ item.name = 0 /\ item.pieces = <<>>
        BY ResponsesStreamAssumption DEF Item, Items
      <4>2. ~NamedIn(parts, of) /\ PiecesIn(parts, of) = {}
        BY <3>3 DEF SourcesIn, NamedIn, PiecesIn
      <4>3. Within(<<>>) = {} /\ Increasing(<<>>) BY DEF Within, Increasing
      <4>4. ItemOf(t, of) = Item(kind, name, pieces) BY <1>2, <3>3 DEF Adds
      <4> HIDE DEF kind, item
      <4>5. AllIn(parts, item, of) BY <4>1, <4>2, <4>3 DEF AllIn, NameIn, kind
      <4>6. AllIn(more, Item(item.kind, IF item.name = 0 THEN name ELSE item.name,
                             item.pieces \o pieces), of)
        BY <3>1, <4>1, <4>5
      <4>7. <<>> \o pieces = pieces BY DEF pieces, PiecesOf
      <4>8. (IF item.name = 0 THEN name ELSE item.name) = name BY <4>1
      <4> QED BY <2>2, <4>1, <4>4, <4>6, <4>7, <4>8
    <3> QED BY <3>2, <3>3
  <2> QED BY <2>1, <2>2
<1>13. HoldsPieces(t, more) BY <1>7, <1>11, <1>12 DEF HoldsPieces
<1> QED BY <1>5, <1>13 DEF more
-----------------------------------------------------------------------------
(* The invariant *)

\* The events, without their numbers.
Plain(list) == [i \in DOMAIN list |-> list[i].event]

Records == [seq : Nat, event : EventRecords]

StreamTyped ==
    /\ upstream \in {"primary", "fallback", "open", "ended", "broken", "refused", "finished"}
    /\ given \in Seq(GivenParts) /\ Len(given) <= MaxParts
    /\ events \in Seq(Records) /\ expected \in Nat
    /\ seen.phase \in {"none", "created", "closing", "completed"}
    /\ TranslatorTyped(translator)

\* The client expects the number of the first event that it was not sent.
Numbered ==
    /\ translator.seq = expected + Len(events)
    /\ \A i \in DOMAIN events : events[i].seq = expected + i - 1

\* The translator has an item for each source of parts, and nothing else.
HoldsGiven ==
    /\ Placed(translator) /\ HoldsPieces(translator, given)
    /\ given = <<>> => translator.text = <<>>
    /\ Carried(translator) = IF upstream = "finished" /\ given = <<>> THEN {Message}
                             ELSE SourcesIn(given)

\* The events that are pending bring the client to where the translator is.
Pending ==
    \E end : /\ Leads(seen, Plain(events), end)
             /\ IF upstream = "finished" THEN Done(end, translator)
                ELSE InStep(end, translator)

StreamIInv == StreamTyped /\ Numbered /\ HoldsGiven /\ Pending

\* Without events the client stays where it is.
LEMMA LeadsToItself ==
  ASSUME NEW c, NEW d, Leads(c, <<>>, d)
  PROVE  c = d
<1>1. Len(<<>>) + 1 = 1 OBVIOUS
<1> QED BY <1>1 DEF Leads

\* No event, without numbers.
LEMMA PlainNone == Plain(<<>>) = <<>>
BY DEF Plain

\* When all events were yielded, the client is in step with the translator.
LEMMA NothingPending ==
  ASSUME StreamIInv, events = <<>>, upstream # "finished"
  PROVE  InStep(seen, translator)
<1>1. PICK end : Leads(seen, <<>>, end) /\ InStep(end, translator)
  BY PlainNone DEF StreamIInv, Pending
<1> QED BY <1>1, LeadsToItself

\* The first event and the others, without their numbers.
LEMMA PlainTail ==
  ASSUME NEW list \in Seq(Records), list # <<>>
  PROVE  /\ Plain(list) # <<>> /\ Head(Plain(list)) = Head(list).event
         /\ Tail(Plain(list)) = Plain(Tail(list))
         /\ Plain(list) \in Seq(EventRecords)
<1>1. PICK n \in Nat : Len(list) = n + 1
  <2>1. Len(list) - 1 \in Nat /\ Len(list) = Len(list) - 1 + 1 OBVIOUS
  <2> QED BY <2>1
<1>2. /\ Head(list) = list[1] /\ Tail(list) \in Seq(Records) /\ Len(Tail(list)) = n
      /\ \A k \in 1..n : Tail(list)[k] = list[k + 1]
  BY <1>1, HeadTailProperties
<1>3. DOMAIN list = 1..(n + 1) /\ DOMAIN Tail(list) = 1..n BY <1>1, <1>2, LenProperties
<1> DEFINE plain == Plain(list)
<1>4. plain = [i \in 1..(n + 1) |-> list[i].event] BY <1>3 DEF Plain
<1>5. \A i \in 1..(n + 1) : list[i].event \in EventRecords
  <2>1. \A i \in 1..(n + 1) : list[i] \in Records BY <1>1
  <2> QED BY <2>1 DEF Records
<1>6. plain \in Seq(EventRecords) /\ Len(plain) = n + 1
  <2>1. n + 1 \in Nat /\ plain \in [1..(n + 1) -> EventRecords] BY <1>4, <1>5
  <2> HIDE DEF plain
  <2>2. plain \in Seq(EventRecords) BY <2>1, IsASeq
  <2> QED BY <2>1, <2>2, LenProperties
<1>7. plain[1] = list[1].event BY <1>4
<1> HIDE DEF plain
<1>8. plain # <<>> BY <1>6
<1>9. /\ Head(plain) = plain[1] /\ Tail(plain) \in Seq(EventRecords) /\ Len(Tail(plain)) = n
      /\ \A k \in 1..n : Tail(plain)[k] = plain[k + 1]
  BY <1>6, <1>8, HeadTailProperties
<1>10. Tail(plain) = [k \in 1..n |-> plain[k + 1]]
  <2>1. Tail(plain) = [k \in 1..n |-> Tail(plain)[k]] BY <1>9, LenProperties
  <2> QED BY <1>9, <2>1
<1>11. Plain(Tail(list)) = [k \in 1..n |-> Tail(list)[k].event] BY <1>3 DEF Plain
<1>12. \A k \in 1..n : plain[k + 1] = Tail(list)[k].event
  <2>1. \A k \in 1..n : k + 1 \in 1..(n + 1) OBVIOUS
  <2> QED BY <1>2, <1>4, <2>1
<1>13. Tail(plain) = Plain(Tail(list)) BY <1>10, <1>11, <1>12
<1> QED BY <1>2, <1>6, <1>7, <1>8, <1>9, <1>13 DEF plain

\* What Emit makes of a list of events.
LEMMA EmitsNumbered ==
  ASSUME StreamIInv, events = <<>>, NEW list \in Seq(EventRecords), NEW state,
         Emit(list, state), seen' = seen, expected' = expected,
         translator'.seq = translator.seq + Len(list)
  PROVE  /\ events' \in Seq(Records) /\ Plain(events') = list /\ Numbered'
         /\ translator' = Emitted(state, Len(list))
<1>1. PICK n \in Nat : n = Len(list) OBVIOUS
<1>2. DOMAIN list = 1..n BY <1>1, LenProperties
<1>3. PICK first \in Nat : first = translator.seq BY DEF StreamIInv, StreamTyped, TranslatorTyped
<1>4. first = expected /\ expected \in Nat
  <2>1. Len(<<>>) = 0 OBVIOUS
  <2> QED BY <1>3, <2>1 DEF StreamIInv, Numbered, StreamTyped
<1>5. events' = [i \in 1..n |-> [seq |-> first + i - 1, event |-> list[i]]]
  BY <1>2, <1>3 DEF Emit
<1>6. \A i \in 1..n : /\ events'[i].seq = first + i - 1 /\ events'[i].event = list[i]
                      /\ events'[i] \in Records
  <2>1. \A i \in 1..n : first + i - 1 \in Nat /\ list[i] \in EventRecords BY <1>1
  <2>2. \A i \in 1..n : events'[i] = [seq |-> first + i - 1, event |-> list[i]] BY <1>5
  <2>3. ASSUME NEW i \in 1..n
        PROVE  events'[i].seq = first + i - 1 /\ events'[i].event = list[i]
    <3>1. PICK at : at = first + i - 1 OBVIOUS
    <3>2. events'[i] = [seq |-> at, event |-> list[i]] BY <2>2, <3>1
    <3> QED BY <3>1, <3>2
  <2>4. \A i \in 1..n : [seq |-> first + i - 1, event |-> list[i]] \in Records
    BY <2>1 DEF Records
  <2> QED BY <2>2, <2>3, <2>4
<1>7. events' \in [1..n -> Records] BY <1>5, <1>6
<1>8. events' \in Seq(Records) /\ Len(events') = n /\ DOMAIN events' = 1..n
  <2>1. events' \in Seq(Records) BY <1>7, IsASeq
  <2> QED BY <1>7, <2>1, LenProperties
<1>9. Plain(events') = list
  <2>1. Plain(events') = [i \in 1..n |-> events'[i].event] BY <1>8 DEF Plain
  <2>2. list = [i \in 1..n |-> list[i]] BY <1>2, LenProperties
  <2> QED BY <1>6, <2>1, <2>2
<1>10. Numbered'
  <2>1. translator'.seq = expected + n BY <1>1, <1>3, <1>4
  <2>2. \A i \in 1..n : events'[i].seq = expected + i - 1 BY <1>4, <1>6
  <2> QED BY <1>8, <2>1, <2>2 DEF Numbered
<1>11. translator' = Emitted(state, Len(list)) BY DEF Emit, Emitted
<1> QED BY <1>8, <1>9, <1>10, <1>11

\* A chunk with a part.
LEMMA ReceivesKeeps ==
  ASSUME StreamIInv, NEW part \in GivenParts, Receives(part), NEW list, NEW state, NEW d,
         part.piece \in {0, Len(given) + 1},
         Leads(seen, list, d), Emit(list, state), NEW n \in Nat, n = Len(list),
         TranslatorTyped(Emitted(state, n)), InStep(d, Emitted(state, n)),
         Adds(translator, Emitted(state, n), part.of, NameOf(part), PiecesOf(part)),
         Emitted(state, n).seq = translator.seq + n
  PROVE  StreamIInv'
<1>1. /\ upstream' = "open" /\ given' = Append(given, part) /\ seen' = seen
      /\ expected' = expected /\ events = <<>> /\ upstream # "finished"
      /\ Len(given) < MaxParts
  BY DEF Receives, Open
<1>2. translator' = Emitted(state, n) BY DEF Emit, Emitted
<1>3. list \in Seq(EventRecords) BY DEF Leads
<1>4. events' \in Seq(Records) /\ Plain(events') = list /\ Numbered'
  BY <1>1, <1>2, <1>3, EmitsNumbered
<1>5. given \in Seq(GivenParts) /\ Placed(translator) /\ HoldsPieces(translator, given)
      /\ Carried(translator) = SourcesIn(given) /\ TranslatorTyped(translator)
  BY <1>1 DEF StreamIInv, StreamTyped, HoldsGiven
<1>6. PICK m \in Nat : m = Len(given) BY <1>5
<1>7. given' \in Seq(GivenParts) /\ Len(given') = m + 1 BY <1>1, <1>5, <1>6, AppendProperties
<1>8. StreamTyped'
  <2>1. m + 1 <= MaxParts BY <1>1, <1>6, ResponsesStreamAssumption
  <2> QED BY <1>1, <1>2, <1>4, <1>7, <2>1 DEF StreamIInv, StreamTyped
<1>9. Placed(translator')
  BY <1>2, <1>5, PlacedWithOneMore
<1>10. HoldsPieces(translator', given') /\ Carried(translator') = SourcesIn(given')
  BY <1>1, <1>2, <1>5, <1>6, HoldsWithPart
<1>11. HoldsGiven'
  <2>1. given' # <<>> BY <1>7
  <2> QED BY <1>1, <1>9, <1>10, <2>1 DEF HoldsGiven
<1>12. Pending' BY <1>1, <1>2, <1>4 DEF Pending
<1> QED BY <1>4, <1>8, <1>11, <1>12 DEF StreamIInv

\* translate_chunk, text.
LEMMA TextPartKeeps ==
  ASSUME StreamIInv, TextPart
  PROVE  StreamIInv'
<1>1. PICK piece \in Nat : piece = Len(given) + 1 BY DEF StreamIInv, StreamTyped
<1> DEFINE part == [of |-> Message, named |-> FALSE, piece |-> piece]
           opens == translator.textIndex = NoIndex
<1>2. PICK index : index = IF translator.textIndex = NoIndex THEN translator.next
                           ELSE translator.textIndex
  OBVIOUS
<1> DEFINE list == CreatedOnce \o (IF translator.textIndex = NoIndex THEN OpensText(index)
                                   ELSE <<>>)
                     \o <<Event("delta", index, Item("message", 0, <<piece>>))>>
           state == WithText(translator, index, piece)
<1>3. Receives(part) /\ Emit(list, state) BY <1>1, <1>2 DEF TextPart, WithText
<1>4. /\ TranslatorTyped(translator) /\ Placed(translator) /\ piece \in 1..MaxParts
      /\ InStep(seen, translator)
  <2>1. events = <<>> /\ upstream # "finished" /\ Len(given) < MaxParts
    BY <1>3 DEF Receives, Open
  <2>2. piece \in 1..MaxParts
    <3>1. Len(given) \in Nat BY DEF StreamIInv, StreamTyped
    <3> QED BY <1>1, <2>1, <3>1, ResponsesStreamAssumption
  <2>3. InStep(seen, translator) BY <2>1, NothingPending
  <2> QED BY <2>2, <2>3 DEF StreamIInv, StreamTyped, HoldsGiven
<1>5. /\ part \in GivenParts /\ part.of = Message /\ NameOf(part) = 0
      /\ PiecesOf(part) = <<piece>> /\ part.piece = piece
  BY <1>4 DEF GivenParts, NameOf, PiecesOf
<1> HIDE DEF part, state, list
<1>6. \A n \in Nat : \E d : Leads(seen, list, d) /\ InStep(d, Emitted(state, n))
  BY <1>2, <1>4, TextLeads DEF list, state
<1>7. PICK d0 : Leads(seen, list, d0) BY <1>6
<1>8. PICK n \in Nat : n = Len(list)
  <2>1. list \in Seq(EventRecords) BY <1>7 DEF Leads
  <2> QED BY <2>1
<1>9. PICK d : Leads(seen, list, d) /\ InStep(d, Emitted(state, n)) BY <1>6
<1>10. /\ TranslatorTyped(Emitted(state, n))
       /\ Adds(translator, Emitted(state, n), Message, 0, <<piece>>)
  BY <1>2, <1>4, TextAdds DEF state
<1>11. Emitted(state, n).seq = translator.seq + n BY <1>4, SeqCounts DEF state
<1> QED BY <1>1, <1>3, <1>5, <1>8, <1>9, <1>10, <1>11, ReceivesKeeps

\* translate_chunk, a part of a tool call.
LEMMA ToolPartKeeps ==
  ASSUME StreamIInv, NEW call \in 0..(MaxCalls - 1), NEW named \in BOOLEAN,
         NEW filled \in BOOLEAN, ToolPart(call, named, filled)
  PROVE  StreamIInv'
<1>1. PICK piece \in Nat : piece = Len(given) + 1 BY DEF StreamIInv, StreamTyped
<1>2. PICK name : name = NameIn(call, named) OBVIOUS
<1>3. PICK pieces : pieces = Arguments(filled, piece) OBVIOUS
<1>4. PICK tool : tool = ToolOf(translator, call, name) OBVIOUS
<1> DEFINE part == [of |-> call, named |-> named, piece |-> IF filled THEN piece ELSE 0]
           list == CreatedOnce
                     \o (IF call \notin DOMAIN translator.tools
                         THEN <<Event("item_added", tool.index, Item("call", name, <<>>))>>
                         ELSE <<>>)
                     \o (IF filled
                         THEN <<Event("delta", tool.index, Item("call", 0, pieces))>>
                         ELSE <<>>)
           state == WithTool(translator, call, Filled(tool, name, pieces))
<1>5. Receives(part) /\ Emit(list, state)
  BY <1>1, <1>2, <1>3, <1>4 DEF ToolPart, WithTool, ToolOf, Arguments
<1>6. /\ TranslatorTyped(translator) /\ Placed(translator) /\ piece \in 1..MaxParts
      /\ InStep(seen, translator)
  <2>1. events = <<>> /\ upstream # "finished" /\ Len(given) < MaxParts
    BY <1>5 DEF Receives, Open
  <2>2. piece \in 1..MaxParts
    <3>1. Len(given) \in Nat BY DEF StreamIInv, StreamTyped
    <3> QED BY <1>1, <2>1, <3>1, ResponsesStreamAssumption
  <2>3. InStep(seen, translator) BY <2>1, NothingPending
  <2> QED BY <2>2, <2>3 DEF StreamIInv, StreamTyped, HoldsGiven
<1>7. name \in 0..MaxCalls BY <1>2, ResponsesStreamAssumption DEF NameIn
<1>8. pieces \in Seq(1..MaxParts)
  <2>1. <<piece>> \in Seq(1..MaxParts) /\ <<>> \in Seq(1..MaxParts) BY <1>6
  <2> QED BY <1>3, <2>1, Zenon DEF Arguments
<1>9. /\ part \in GivenParts /\ part.of = call /\ NameOf(part) = name
      /\ PiecesOf(part) = pieces /\ part.piece \in {0, piece}
  <2>1. PICK p : p = IF filled THEN piece ELSE 0 OBVIOUS
  <2>2. p \in 0..MaxParts /\ p \in {0, piece}
    <3>1. CASE filled BY <1>6, <2>1, <3>1
    <3>2. CASE ~filled BY <2>1, <3>2, ResponsesStreamAssumption
    <3> QED BY <3>1, <3>2
  <2>3. part = [of |-> call, named |-> named, piece |-> p] BY <2>1
  <2>4. part \in GivenParts BY <2>2, <2>3 DEF GivenParts
  <2>5. part.of = call /\ part.named = named /\ part.piece = p BY <2>3
  <2> HIDE DEF part
  <2>6. call # Message BY DEF Message
  <2>7. NameOf(part) = name BY <1>2, <2>5, <2>6 DEF NameOf
  <2>8. PiecesOf(part) = pieces
    <3>1. CASE filled
      <4>1. p = piece /\ piece # 0 /\ pieces = <<piece>> BY <1>3, <1>6, <2>1, <3>1 DEF Arguments
      <4> QED BY <2>5, <4>1 DEF PiecesOf
    <3>2. CASE ~filled
      <4>1. p = 0 /\ pieces = <<>> BY <1>3, <2>1, <3>2 DEF Arguments
      <4> QED BY <2>5, <4>1 DEF PiecesOf
    <3> QED BY <3>1, <3>2
  <2> QED BY <2>2, <2>4, <2>5, <2>7, <2>8
<1> HIDE DEF part
<1>10. ASSUME NEW n \in Nat
       PROVE  \E d : Leads(seen, list, d) /\ InStep(d, Emitted(state, n))
  BY <1>3, <1>4, <1>6, <1>7, ToolLeads
<1> HIDE DEF list
<1>11. PICK d0 : Leads(seen, list, d0)
  <2> HIDE DEF state
  <2>1. 0 \in Nat OBVIOUS
  <2> QED BY <1>10, <2>1
<1>12. PICK n \in Nat : n = Len(list)
  <2>1. list \in Seq(EventRecords) BY <1>11 DEF Leads
  <2> QED BY <2>1
<1>13. /\ TranslatorTyped(Emitted(state, n))
       /\ Adds(translator, Emitted(state, n), call, name, pieces)
  BY <1>4, <1>6, <1>7, <1>8, ToolAdds
<1>14. Emitted(state, n).seq = translator.seq + n BY <1>6, SeqCounts
<1> HIDE DEF state
<1>15. PICK d : Leads(seen, list, d) /\ InStep(d, Emitted(state, n)) BY <1>10
<1> QED BY <1>1, <1>5, <1>9, <1>12, <1>13, <1>14, <1>15, ReceivesKeeps

\* The items are as they were.
LEMMA SameItems ==
  ASSUME NEW tr, NEW t, Carried(t) = Carried(tr), NEW parts,
         SourcesIn(parts) \subseteq Carried(tr), HoldsPieces(tr, parts),
         \A of \in Carried(t) : Position(t, of) = Position(tr, of) /\ ItemOf(t, of) = ItemOf(tr, of)
  PROVE  HoldsPieces(t, parts)
<1>1. \A of \in SourcesIn(parts) : /\ Position(t, of) = Position(tr, of)
                                   /\ ItemOf(t, of) = ItemOf(tr, of)
  OBVIOUS
<1> QED BY <1>1 DEF HoldsPieces

\* translate_chunk, neither text nor tool calls.
LEMMA OtherChunkKeeps ==
  ASSUME StreamIInv, OtherChunk
  PROVE  StreamIInv'
<1>1. /\ events = <<>> /\ upstream # "finished" /\ upstream' = "open" /\ given' = given
      /\ seen' = seen /\ expected' = expected /\ Emit(CreatedOnce, translator)
  BY DEF OtherChunk, Open
<1>2. TranslatorTyped(translator) /\ Placed(translator) /\ InStep(seen, translator)
  BY <1>1, NothingPending DEF StreamIInv, StreamTyped, HoldsGiven
<1>3. PICK n \in Nat : n = Len(CreatedOnce)
  <2>1. PICK d : Leads(seen, CreatedOnce, d) BY <1>2, CreatedOnceLeads
  <2>2. CreatedOnce \in Seq(EventRecords) BY <2>1 DEF Leads
  <2> QED BY <2>2
<1>4. translator' = Emitted(translator, n) BY <1>1, <1>3 DEF Emit, Emitted
<1>5. /\ TranslatorTyped(translator') /\ Placed(translator')
      /\ translator'.seq = translator.seq + n /\ Carried(translator') = Carried(translator)
      /\ \A of \in Carried(translator') :
           /\ Position(translator', of) = Position(translator, of)
           /\ ItemOf(translator', of) = ItemOf(translator, of)
      /\ translator'.text = translator.text
      /\ \E d : Leads(seen, CreatedOnce, d) /\ InStep(d, translator')
  BY <1>2, <1>4, OtherLeads
<1>6. PICK d : Leads(seen, CreatedOnce, d) /\ InStep(d, translator') BY <1>5
<1>7. CreatedOnce \in Seq(EventRecords) BY <1>6 DEF Leads
<1>8. events' \in Seq(Records) /\ Plain(events') = CreatedOnce /\ Numbered'
  BY <1>1, <1>3, <1>5, <1>7, EmitsNumbered
<1>9. StreamTyped' BY <1>1, <1>5, <1>8 DEF StreamIInv, StreamTyped
<1>10. HoldsGiven'
  <2>1. /\ HoldsPieces(translator, given) /\ Carried(translator) = SourcesIn(given)
        /\ given = <<>> => translator.text = <<>>
    BY <1>1 DEF StreamIInv, HoldsGiven
  <2>2. HoldsPieces(translator', given) BY <1>5, <2>1, SameItems
  <2> QED BY <1>1, <1>5, <2>1, <2>2 DEF HoldsGiven
<1>11. Pending' BY <1>1, <1>6, <1>8 DEF Pending
<1> QED BY <1>8, <1>9, <1>10, <1>11 DEF StreamIInv

\* The stream of the upstream fails, breaks or ends.
LEMMA UpstreamKeeps ==
  ASSUME StreamIInv, OpenFails \/ Breaks \/ Ends
  PROVE  StreamIInv'
<1>1. /\ upstream # "finished" /\ upstream' # "finished"
      /\ upstream' \in {"fallback", "refused", "broken", "ended"}
      /\ UNCHANGED <<given, translator, events, seen, expected>>
  BY DEF OpenFails, Breaks, Ends, Open
<1>2. StreamTyped' BY <1>1 DEF StreamIInv, StreamTyped
<1>3. Numbered' BY <1>1 DEF StreamIInv, Numbered
<1>4. HoldsGiven' BY <1>1 DEF StreamIInv, HoldsGiven
<1>5. Pending' BY <1>1 DEF StreamIInv, Pending
<1> QED BY <1>2, <1>3, <1>4, <1>5 DEF StreamIInv

\* The next event is yielded, and it is one that the protocol allows.
LEMMA YieldKeeps ==
  ASSUME StreamIInv, Yield
  PROVE  /\ StreamIInv' /\ Allowed(seen, Head(events).event)
         /\ expected' = expected + 1
<1>1. /\ events # <<>> /\ seen' = SeenAfter(seen, Head(events).event)
      /\ expected' = Head(events).seq + 1 /\ events' = Tail(events)
      /\ UNCHANGED <<upstream, given, translator>>
  BY DEF Yield
<1>2. events \in Seq(Records) BY DEF StreamIInv, StreamTyped
<1>3. PICK n \in Nat : Len(events) = n + 1
  <2>1. Len(events) - 1 \in Nat /\ Len(events) = Len(events) - 1 + 1 BY <1>1, <1>2
  <2> QED BY <2>1
<1>4. /\ Head(events) = events[1] /\ events' \in Seq(Records) /\ Len(events') = n
      /\ \A k \in 1..n : events'[k] = events[k + 1]
      /\ DOMAIN events' = 1..n
  BY <1>1, <1>2, <1>3, HeadTailProperties, LenProperties
<1>5. /\ translator.seq = expected + n + 1 /\ expected \in Nat
      /\ \A i \in 1..(n + 1) : events[i].seq = expected + i - 1
  <2>1. DOMAIN events = 1..(n + 1) BY <1>2, <1>3, LenProperties
  <2>2. expected \in Nat BY DEF StreamIInv, StreamTyped
  <2>3. translator.seq = expected + (n + 1) BY <1>3 DEF StreamIInv, Numbered
  <2> QED BY <2>1, <2>2, <2>3 DEF StreamIInv, Numbered
<1>6. expected' = expected + 1 /\ expected' \in Nat
  <2>1. 1 \in 1..(n + 1) OBVIOUS
  <2> QED BY <1>1, <1>4, <1>5, <2>1
<1>7. Numbered'
  <2>1. ASSUME NEW k \in 1..n PROVE events'[k].seq = expected' + k - 1
    <3>1. PICK j \in 1..(n + 1) : j = k + 1 OBVIOUS
    <3>2. events'[k] = events[j] BY <1>4, <3>1
    <3>3. events[j].seq = expected + j - 1 BY <1>5
    <3> QED BY <1>5, <1>6, <3>1, <3>2, <3>3
  <2>2. translator' = translator BY <1>1
  <2>3. translator'.seq = expected' + n BY <1>5, <1>6, <2>2
  <2> QED BY <1>4, <2>1, <2>3 DEF Numbered
<1>8. PICK end : /\ Leads(seen, Plain(events), end)
                 /\ IF upstream = "finished" THEN Done(end, translator)
                    ELSE InStep(end, translator)
  BY DEF StreamIInv, Pending
<1>9. /\ Plain(events) # <<>> /\ Head(Plain(events)) = Head(events).event
      /\ Tail(Plain(events)) = Plain(events')
  BY <1>1, <1>2, PlainTail
<1>10. Allowed(seen, Head(events).event) /\ Leads(seen', Plain(events'), end)
  BY <1>1, <1>8, <1>9, LeadsAlong
<1>11. Pending' BY <1>1, <1>8, <1>10 DEF Pending
<1>12. seen'.phase \in {"none", "created", "closing", "completed"}
  BY <1>1 DEF SeenAfter, StreamIInv, StreamTyped
<1>13. StreamTyped' BY <1>1, <1>4, <1>6, <1>12 DEF StreamIInv, StreamTyped
<1>14. HoldsGiven' BY <1>1 DEF StreamIInv, HoldsGiven
<1> QED BY <1>6, <1>7, <1>10, <1>11, <1>13, <1>14 DEF StreamIInv

\* The translator at the end of the stream, with at least one item.
LEMMA Finalizing ==
  ASSUME StreamIInv, upstream = "ended", events = <<>>, NEW n \in Nat, NEW state,
         state = NonEmpty(translator), NEW t, t = Emitted(state, n), NEW opening,
         opening = CreatedOnce \o (IF translator.next < state.next THEN OpensText(0) ELSE <<>>)
  PROVE  /\ TranslatorTyped(t) /\ Placed(t) /\ t.next > 0 /\ t.seq = translator.seq + n
         /\ HoldsPieces(t, given) /\ (given = <<>> => t.text = <<>>)
         /\ Carried(t) = IF given = <<>> THEN {Message} ELSE SourcesIn(given)
         /\ Closing(t) = Closing(state) /\ Completes(t) = Completes(state)
         /\ \E d : Leads(seen, opening, d) /\ InStep(d, t)
<1>1. /\ TranslatorTyped(translator) /\ Placed(translator) /\ InStep(seen, translator)
      /\ Carried(translator) = SourcesIn(given) /\ HoldsPieces(translator, given)
      /\ given \in Seq(GivenParts) /\ (given = <<>> => translator.text = <<>>)
  BY NothingPending DEF StreamIInv, StreamTyped, HoldsGiven
<1>2. translator \in [created : BOOLEAN, seq : Nat, next : Nat,
                      textIndex : {NoIndex} \cup Nat, text : Seq(1..MaxParts),
                      tools : {translator.tools}]
  BY <1>1 DEF TranslatorTyped
<1>3. DOMAIN state = DOMAIN translator /\ state.seq = translator.seq
  BY <1>2 DEF NonEmpty
<1>4. /\ t.next = state.next /\ t.textIndex = state.textIndex /\ t.text = state.text
      /\ t.tools = state.tools
  BY <1>2, <1>3 DEF Emitted
<1>5. Closing(t) = Closing(state) /\ Completes(t) = Completes(state) BY <1>4, SameClosing
<1>6. CASE translator.next = 0
  <2>1. state.next = 1 BY <1>2, <1>6 DEF NonEmpty
  <2>2. opening = CreatedOnce \o OpensText(0) BY <1>6, <2>1
  <2>3. /\ TranslatorTyped(t) /\ t.seq = translator.seq + n /\ t.text = <<>>
        /\ Carried(translator) = {} /\ Adds(translator, t, Message, 0, <<>>)
    BY <1>1, <1>6, EmptyAdds
  <2>4. Placed(t) /\ t.next > 0 /\ \E d : Leads(seen, opening, d) /\ InStep(d, t)
    BY <1>1, <1>6, <2>2, EmptyLeads
  <2>5. given = <<>>
    <3>1. SourcesIn(given) = {} BY <1>1, <2>3
    <3>2. DOMAIN given = {} BY <3>1 DEF SourcesIn
    <3> QED BY <1>1, <3>2
  <2>6. HoldsPieces(t, <<>>) /\ Carried(t) = {Message}
    <3>1. SourcesIn(<<>>) = {} /\ DOMAIN <<>> = {} BY DEF SourcesIn
    <3> QED BY <2>3, <3>1 DEF HoldsPieces, Adds
  <2> QED BY <1>5, <2>3, <2>4, <2>5, <2>6
<1>7. CASE translator.next # 0
  <2>1. state = translator BY <1>7 DEF NonEmpty
  <2>2. opening = CreatedOnce
    <3>1. PICK d : Leads(seen, CreatedOnce, d) BY <1>1, CreatedOnceLeads
    <3>2. CreatedOnce \in Seq(EventRecords) BY <3>1 DEF Leads
    <3>3. ~(translator.next < state.next) BY <1>2, <2>1
    <3> QED BY <3>2, <3>3
  <2>3. /\ TranslatorTyped(t) /\ Placed(t) /\ t.seq = translator.seq + n
        /\ Carried(t) = Carried(translator)
        /\ \A of \in Carried(t) : /\ Position(t, of) = Position(translator, of)
                                  /\ ItemOf(t, of) = ItemOf(translator, of)
        /\ t.text = translator.text /\ t.next = translator.next
        /\ \E d : Leads(seen, CreatedOnce, d) /\ InStep(d, t)
    BY <1>1, <2>1, OtherLeads
  <2>4. HoldsPieces(t, given) BY <1>1, <2>3, SameItems
  <2>5. t.next > 0 BY <1>2, <1>7, <2>3
  <2>6. given # <<>>
    <3>1. 0 \in 0..(translator.next - 1) BY <1>2, <1>7
    <3>2. PICK of \in Carried(translator) : TRUE BY <1>1, <3>1 DEF Placed
    <3> QED BY <1>1, <3>2 DEF SourcesIn
  <2> QED BY <1>1, <1>5, <2>2, <2>3, <2>4, <2>5, <2>6
<1> QED BY <1>6, <1>7

\* finalize: what it emits leads the client to the end of the response.
LEMMA FinalizeKeeps ==
  ASSUME StreamIInv, Finalize
  PROVE  StreamIInv'
<1>1. PICK state : state = NonEmpty(translator) OBVIOUS
<1>2. PICK opening : opening = CreatedOnce \o (IF translator.next < state.next THEN OpensText(0)
                                              ELSE <<>>)
  OBVIOUS
<1> DEFINE list == opening \o Closing(state) \o <<Completes(state)>>
<1>3. /\ upstream = "ended" /\ events = <<>> /\ upstream' = "finished" /\ given' = given
      /\ seen' = seen /\ expected' = expected /\ Emit(list, state)
  BY <1>1, <1>2 DEF Finalize
<1>4. ASSUME NEW n \in Nat
      PROVE  \E end : Leads(seen, list, end) /\ Done(end, Emitted(state, n))
  <2>1. PICK t : t = Emitted(state, n) OBVIOUS
  <2>2. /\ TranslatorTyped(t) /\ Placed(t) /\ t.next > 0
        /\ Closing(t) = Closing(state) /\ Completes(t) = Completes(state)
        /\ \E d : Leads(seen, opening, d) /\ InStep(d, t)
    BY <1>1, <1>2, <1>3, <2>1, Finalizing
  <2>3. PICK d : Leads(seen, opening, d) /\ InStep(d, t) BY <2>2
  <2>4. \E end : /\ Leads(seen, opening \o Closing(t) \o <<Completes(t)>>, end)
                 /\ Done(end, t)
    BY <2>2, <2>3, FinishLeads
  <2> QED BY <2>1, <2>2, <2>4
<1> HIDE DEF list
<1>5. PICK some : Leads(seen, list, some)
  <2>1. 0 \in Nat OBVIOUS
  <2> QED BY <1>4, <2>1
<1>6. list \in Seq(EventRecords) BY <1>5 DEF Leads
<1>7. PICK n \in Nat : n = Len(list) BY <1>6
<1>8. translator' = Emitted(state, n) BY <1>3, <1>7 DEF Emit, Emitted
<1>9. PICK end : Leads(seen, list, end) /\ Done(end, translator') BY <1>4, <1>8
<1>10. /\ TranslatorTyped(translator') /\ Placed(translator')
       /\ translator'.seq = translator.seq + n
       /\ HoldsPieces(translator', given) /\ (given = <<>> => translator'.text = <<>>)
       /\ Carried(translator') = IF given = <<>> THEN {Message} ELSE SourcesIn(given)
  BY <1>1, <1>2, <1>3, <1>8, Finalizing
<1>11. events' \in Seq(Records) /\ Plain(events') = list /\ Numbered'
  BY <1>3, <1>6, <1>7, <1>10, EmitsNumbered
<1>12. StreamTyped' BY <1>3, <1>10, <1>11 DEF StreamIInv, StreamTyped
<1>13. HoldsGiven' BY <1>3, <1>10 DEF HoldsGiven
<1>14. Pending' BY <1>3, <1>9, <1>11 DEF Pending
<1> QED BY <1>11, <1>12, <1>13, <1>14 DEF StreamIInv

\* Before the first chunk.
LEMMA StreamStarts == ResponsesInit => StreamIInv
<1> SUFFICES ASSUME ResponsesInit PROVE StreamIInv OBVIOUS
<1>1. /\ given = <<>> /\ events = <<>> /\ expected = 0 /\ upstream = "primary"
      /\ seen = [phase |-> "none", items |-> <<>>, output |-> <<>>]
      /\ translator = [created |-> FALSE, seq |-> 0, next |-> 0, textIndex |-> NoIndex,
                       text |-> <<>>, tools |-> <<>>]
  BY DEF ResponsesInit
<1>2. DOMAIN <<>> = {} /\ <<>> \in [{} -> CallItems] /\ <<>> \in [0..(0 - 1) -> ItemEntries]
  OBVIOUS
<1>3. TranslatorTyped(translator)
  <2>1. <<>> \in Seq(1..MaxParts) OBVIOUS
  <2>2. DOMAIN translator.tools = {} /\ translator.tools = <<>> BY <1>1, <1>2
  <2> QED BY <1>1, <1>2, <2>1, <2>2 DEF TranslatorTyped
<1>4. Carried(translator) = {} BY <1>1, <1>2 DEF Carried
<1>5. Placed(translator)
  <2>1. translator.next = 0 BY <1>1
  <2>2. 0..(translator.next - 1) = {} BY <2>1
  <2> QED BY <1>4, <2>1, <2>2 DEF Placed
<1>6. SourcesIn(<<>>) = {} BY <1>2 DEF SourcesIn
<1>7. HoldsPieces(translator, <<>>) BY <1>2, <1>6 DEF HoldsPieces
<1>8. InStep(seen, translator) BY <1>1, <1>2, <1>4 DEF InStep
<1>9. StreamTyped
  <2>1. <<>> \in Seq(GivenParts) /\ <<>> \in Seq(Records) /\ Len(<<>>) = 0 OBVIOUS
  <2> QED BY <1>1, <1>3, <2>1, ResponsesStreamAssumption DEF StreamTyped
<1>10. Numbered
  <2>1. Len(<<>>) = 0 OBVIOUS
  <2> QED BY <1>1, <1>2, <2>1 DEF Numbered
<1>11. HoldsGiven BY <1>1, <1>4, <1>5, <1>6, <1>7 DEF HoldsGiven
<1>12. Pending
  <2>1. Leads(seen, <<>>, seen) BY LeadsNowhere
  <2>2. Plain(events) = <<>> BY <1>1, PlainNone
  <2>3. upstream # "finished" BY <1>1
  <2> QED BY <1>8, <2>1, <2>2, <2>3 DEF Pending
<1> QED BY <1>9, <1>10, <1>11, <1>12 DEF StreamIInv

\* Nothing happens.
LEMMA StreamStutters ==
  ASSUME StreamIInv, UNCHANGED responsesVars
  PROVE  StreamIInv'
<1> USE DEF responsesVars
<1>1. StreamTyped' BY DEF StreamIInv, StreamTyped
<1>2. Numbered' BY DEF StreamIInv, Numbered
<1>3. HoldsGiven' BY DEF StreamIInv, HoldsGiven
<1>4. Pending' BY DEF StreamIInv, Pending
<1> QED BY <1>1, <1>2, <1>3, <1>4 DEF StreamIInv

\* Whatever chunks the upstream sends, wherever its stream fails, breaks or ends, and

\* however far the client is behind: translate_chunk, finalize and _sse_responses keep the
\* translator, the events that are pending and the client together.
THEOREM ResponsesInvariant == ResponsesSpec => []StreamIInv
<1>1. StreamIInv /\ [ResponsesNext]_responsesVars => StreamIInv'
  <2> SUFFICES ASSUME StreamIInv, [ResponsesNext]_responsesVars PROVE StreamIInv'
    OBVIOUS
  <2>1. CASE TextPart BY <2>1, TextPartKeeps
  <2>2. CASE \E call \in 0..(MaxCalls - 1), named \in BOOLEAN, filled \in BOOLEAN :
               ToolPart(call, named, filled)
    BY <2>2, ToolPartKeeps
  <2>3. CASE OtherChunk BY <2>3, OtherChunkKeeps
  <2>4. CASE OpenFails \/ Breaks \/ Ends BY <2>4, UpstreamKeeps
  <2>5. CASE Finalize BY <2>5, FinalizeKeeps
  <2>6. CASE Yield BY <2>6, YieldKeeps
  <2>7. CASE UNCHANGED responsesVars BY <2>7, StreamStutters
  <2> QED BY <2>1, <2>2, <2>3, <2>4, <2>5, <2>6, <2>7 DEF ResponsesNext
<1> QED BY <1>1, StreamStarts, PTL DEF ResponsesSpec

\* There are no more output indexes than tool calls, and the text.
LEMMA IndexesFit ==
  ASSUME NEW t, TranslatorTyped(t), Placed(t)
  PROVE  t.next \in 0..(MaxCalls + 1) /\ t.textIndex \in {NoIndex} \cup 0..MaxCalls
<1>1. PICK n \in Nat : n = t.next BY DEF TranslatorTyped
<1> DEFINE all == (-1)..(MaxCalls - 1)
           carried == Carried(t)
           indexes == 0..(n - 1)
           at == [of \in carried |-> Position(t, of)]
<1>2. carried \subseteq all
  BY ResponsesStreamAssumption DEF TranslatorTyped, Carried, Message
<1>3. IsFiniteSet(all) /\ Cardinality(all) = MaxCalls + 1
  <2>1. -1 \in Int /\ MaxCalls - 1 \in Int BY ResponsesStreamAssumption
  <2>2. /\ IsFiniteSet(all)
        /\ Cardinality(all) = IF -1 > MaxCalls - 1 THEN 0 ELSE MaxCalls - 1 - (-1) + 1
    BY <2>1, FS_Interval
  <2> QED BY <2>2, ResponsesStreamAssumption
<1>4. at \in Surjection(carried, indexes) BY <1>1 DEF Placed, Surjection
<1> HIDE DEF all, carried, indexes, at
<1>5. /\ IsFiniteSet(carried) /\ Cardinality(carried) <= MaxCalls + 1
      /\ Cardinality(carried) \in Nat
  BY <1>2, <1>3, FS_Subset, FS_CardinalityType
<1>6. Cardinality(indexes) <= Cardinality(carried) BY <1>4, <1>5, FS_Surjection
<1>7. Cardinality(indexes) = n BY IndexesCounted DEF indexes
<1>8. n <= MaxCalls + 1 BY <1>5, <1>6, <1>7, ResponsesStreamAssumption
<1>9. CASE t.textIndex # NoIndex
  <2>1. Message \in carried /\ Position(t, Message) = t.textIndex
    BY <1>9 DEF Carried, Position, carried
  <2>2. t.textIndex \in 0..(n - 1) BY <1>1, <2>1 DEF Placed, carried
  <2> QED BY <1>1, <1>8, <2>2, ResponsesStreamAssumption
<1> QED BY <1>1, <1>8, <1>9, ResponsesStreamAssumption

\* Type correctness, for any numbers of parts and tool calls: among the rest that

\* output indexes are handed out once for each call and once for the text.
THEOREM ResponsesTypeCorrect == ResponsesSpec => []ResponsesTypeOK
<1>1. StreamIInv => ResponsesTypeOK
  <2> SUFFICES ASSUME StreamIInv PROVE ResponsesTypeOK OBVIOUS
  <2>1. TranslatorTyped(translator) /\ Placed(translator)
    BY DEF StreamIInv, StreamTyped, HoldsGiven
  <2>2. /\ translator.next \in 0..(MaxCalls + 1)
        /\ translator.textIndex \in {NoIndex} \cup 0..MaxCalls
    BY <2>1, IndexesFit
  <2>3. DOMAIN translator.tools \subseteq 0..(MaxCalls - 1) BY <2>1 DEF TranslatorTyped
  <2>4. expected \in 0..translator.seq
    <3>1. events \in Seq(Records) /\ expected \in Nat BY DEF StreamIInv, StreamTyped
    <3>2. Len(events) \in Nat /\ translator.seq = expected + Len(events)
      BY <3>1 DEF StreamIInv, Numbered
    <3> QED BY <3>1, <3>2
  <2> QED BY <2>2, <2>3, <2>4 DEF StreamIInv, StreamTyped, ResponsesTypeOK
<1> QED BY <1>1, ResponsesInvariant, PTL

\* response.completed is sent last, and only by finalize.
LEMMA CompletedIsDone ==
  ASSUME StreamIInv, seen.phase = "completed"
  PROVE  upstream = "finished" /\ Done(seen, translator)
<1>1. PICK end : /\ Leads(seen, Plain(events), end)
                 /\ IF upstream = "finished" THEN Done(end, translator)
                    ELSE InStep(end, translator)
  BY DEF StreamIInv, Pending
<1>2. events = <<>>
  <2> SUFFICES ASSUME events # <<>> PROVE FALSE OBVIOUS
  <2>1. Plain(events) # <<>> /\ Plain(events) \in Seq(EventRecords)
    BY PlainTail DEF StreamIInv, StreamTyped
  <2>2. Allowed(seen, Head(Plain(events))) BY <1>1, <2>1, LeadsAlong
  <2>3. Head(Plain(events)) \in EventRecords BY <2>1, HeadTailProperties
  <2> DEFINE e == Head(Plain(events))
  <2>4. e.type \in {"created", "item_added", "part_added", "delta", "content_done",
                    "part_done", "item_done", "completed"}
    BY <2>3 DEF EventRecords
  <2> HIDE DEF e
  <2>5. Allowed(seen, e) BY <2>2 DEF e
  <2> QED BY <2>4, <2>5 DEF Allowed
<1>3. end = seen BY <1>1, <1>2, PlainNone, LeadsToItself
<1>4. upstream = "finished"
  <2> SUFFICES ASSUME upstream # "finished" PROVE FALSE OBVIOUS
  <2>1. InStep(seen, translator) BY <1>1, <1>3
  <2>2. seen.phase = IF translator.created THEN "created" ELSE "none" BY <2>1 DEF InStep
  <2> QED BY <2>2
<1> QED BY <1>1, <1>3, <1>4

\* What response.completed holds is what the upstream sent: `finalize` puts into its output

\* the text and each tool call once, in the order they first came up, with all pieces of
\* each in order, and each call's name, in whichever delta translate_chunk found it.
THEOREM OutputIsHeld == ResponsesSpec => []OutputHoldsStream
<1>1. StreamIInv => OutputHoldsStream
  <2> SUFFICES ASSUME StreamIInv, seen.phase = "completed"
      PROVE  /\ upstream = "finished"
             /\ IF given = <<>> THEN seen.output = <<Item("message", 0, <<>>)>>
                ELSE \E order \in [1..Len(seen.output) -> Sources] :
                       /\ Sources = {order[i] : i \in DOMAIN order}
                       /\ \A i, j \in DOMAIN order :
                            i < j => FirstOf(order[i]) < FirstOf(order[j])
                       /\ \A i \in DOMAIN order : IsAllOf(seen.output[i], order[i])
    BY DEF OutputHoldsStream
  <2>1. upstream = "finished" /\ Done(seen, translator) BY CompletedIsDone
  <2>2. /\ TranslatorTyped(translator) /\ Placed(translator) /\ HoldsPieces(translator, given)
        /\ given = <<>> => translator.text = <<>>
        /\ Carried(translator) = IF given = <<>> THEN {Message} ELSE SourcesIn(given)
    BY <2>1 DEF StreamIInv, StreamTyped, HoldsGiven
  <2>3. PICK n \in Nat : n = translator.next BY <2>2 DEF TranslatorTyped
  <2>4. seen.output = [i \in 1..n |-> ItemAt(translator, i - 1)] BY <2>1, <2>3 DEF Done
  <2>5. CASE given = <<>>
    <3>1. Carried(translator) = {Message} BY <2>2, <2>5
    <3>2. Position(translator, Message) \in 0..(n - 1) BY <2>2, <2>3, <3>1 DEF Placed
    <3>3. \A x \in 0..(n - 1) : Position(translator, Message) = x
      BY <2>2, <2>3, <3>1 DEF Placed
    <3>4. n = 1 /\ Position(translator, Message) = 0
      <4>1. 0 \in 0..(n - 1) BY <3>2
      <4>2. Position(translator, Message) = 0 BY <3>3, <4>1
      <4>3. 1 \notin 0..(n - 1) BY <3>3, <4>2
      <4> QED BY <3>2, <4>2, <4>3
    <3>5. ItemAt(translator, 0) = Item("message", 0, <<>>)
      <4>1. Message \in Carried(translator) BY <3>1
      <4>2. ItemAt(translator, 0) = ItemOf(translator, Message)
        BY <2>2, <3>4, <4>1, ItemFound
      <4> QED BY <2>2, <2>5, <4>2 DEF ItemOf
    <3>6. seen.output = [i \in 1..1 |-> Item("message", 0, <<>>)]
      <4>1. \A i \in 1..1 : i - 1 = 0 OBVIOUS
      <4> QED BY <2>4, <3>4, <3>5, <4>1
    <3> QED BY <2>1, <2>5, <3>6
  <2>6. CASE given # <<>>
    <3> DEFINE order == [i \in 1..n |-> CHOOSE of \in Carried(translator) :
                                          Position(translator, of) = i - 1]
    <3>1. Sources = SourcesIn(given) /\ Carried(translator) = SourcesIn(given)
      BY <2>2, <2>6 DEF Sources, SourcesIn
    <3>2. \A i \in 1..n : /\ order[i] \in Carried(translator)
                          /\ Position(translator, order[i]) = i - 1
      <4> SUFFICES ASSUME NEW i \in 1..n
          PROVE order[i] \in Carried(translator) /\ Position(translator, order[i]) = i - 1
        OBVIOUS
      <4>1. i - 1 \in 0..(translator.next - 1) BY <2>3
      <4>2. \E of \in Carried(translator) : Position(translator, of) = i - 1
        BY <2>2, <4>1 DEF Placed
      <4> QED BY <4>2
    <3>3. Len(seen.output) = n /\ order \in [1..n -> Sources] /\ DOMAIN order = 1..n
      BY <2>4, <3>1, <3>2
    <3> HIDE DEF order
    <3>4. Sources = {order[i] : i \in DOMAIN order}
      <4> SUFFICES ASSUME NEW of \in Sources PROVE \E i \in 1..n : order[i] = of
        BY <3>3
      <4>1. PICK i : i = Position(translator, of) + 1 OBVIOUS
      <4>2. Position(translator, of) \in 0..(n - 1) BY <2>2, <2>3, <3>1 DEF Placed
      <4>3. i \in 1..n /\ i - 1 = Position(translator, of) BY <4>1, <4>2
      <4>4. order[i] = of BY <2>2, <3>1, <3>2, <4>3 DEF Placed
      <4> QED BY <4>3, <4>4
    <3>5. ASSUME NEW i \in 1..n, NEW j \in 1..n, i < j
          PROVE  FirstOf(order[i]) < FirstOf(order[j])
      <4>1. Position(translator, order[i]) < Position(translator, order[j]) BY <3>2, <3>5
      <4>2. FirstIn(given, order[i]) < FirstIn(given, order[j])
        BY <2>2, <3>1, <3>2, <4>1 DEF HoldsPieces
      <4> QED BY <4>2 DEF FirstOf, FirstIn
    <3>6. ASSUME NEW i \in 1..n
          PROVE  IsAllOf(seen.output[i], order[i])
      <4>1. PICK of \in Carried(translator) : of = order[i] BY <3>2
      <4>2. seen.output[i] = ItemAt(translator, Position(translator, of))
        BY <2>4, <3>2, <4>1
      <4>3. seen.output[i] = ItemOf(translator, of) BY <2>2, <4>2, ItemFound
      <4>4. AllIn(given, seen.output[i], of) BY <2>2, <3>1, <4>3 DEF HoldsPieces
      <4> QED BY <4>1, <4>4 DEF AllIn, IsAllOf, ArePiecesOf, Named, NamedIn, Within,
                                PiecesIn, Increasing
    <3> QED BY <2>1, <2>6, <3>3, <3>4, <3>5, <3>6
  <2> QED BY <2>5, <2>6
<1> QED BY <1>1, ResponsesInvariant, PTL

\* What _sse_responses yields is a stream of the Responses API: each event finds its item

\* in the state it is for, and the sequence numbers have no gap.
THEOREM StreamIsResponsesWire == ResponsesSpec => ImplementsResponsesWire
<1>1. ResponsesInit => ResponsesWireOf!Init BY DEF ResponsesInit, ResponsesWireOf!Init
<1>2. StreamIInv /\ [ResponsesNext]_responsesVars
        => [ResponsesWireOf!Next]_(ResponsesWireOf!wire)
  <2> SUFFICES ASSUME StreamIInv, [ResponsesNext]_responsesVars
      PROVE [ResponsesWireOf!Next]_(ResponsesWireOf!wire)
    OBVIOUS
  <2>1. CASE Yield
    <3>1. /\ StreamIInv' /\ Allowed(seen, Head(events).event) /\ expected' = expected + 1
      BY <2>1, YieldKeeps
    <3>2. seen' = SeenAfter(seen, Head(events).event) BY <2>1 DEF Yield
    <3>3. Head(events).event \in EventRecords
      <4>1. events \in Seq(Records) /\ events # <<>>
        BY <2>1 DEF Yield, StreamIInv, StreamTyped
      <4>2. Head(events) \in Records BY <4>1, HeadTailProperties
      <4> QED BY <4>2 DEF Records
    <3> QED BY <3>1, <3>2, <3>3, YieldIsAStepOnTheWire
  <2>2. CASE ~Yield
    <3>1. UNCHANGED <<seen, expected>>
      BY <2>2 DEF ResponsesNext, responsesVars, TextPart, ToolPart, Receives, OtherChunk,
                  OpenFails, Breaks, Ends, Finalize
    <3> QED BY <3>1 DEF ResponsesWireOf!wire
  <2> QED BY <2>1, <2>2
<1> QED BY <1>1, <1>2, ResponsesInvariant, PTL
       DEF ResponsesSpec, ImplementsResponsesWire, ResponsesWireOf!Spec
=============================================================================
