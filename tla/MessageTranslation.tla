------------------------- MODULE MessageTranslation -------------------------
(***************************************************************************)
(* A conversation over /v1/messages or /v1/chat/completions, turn by turn. *)
(* Each turn may be routed to another upstream, and what that is sent of   *)
(* the client's dialogue depends on both:                                  *)
(*                                                                         *)
(*                 OpenAI-compatible          Anthropic                    *)
(*   /v1/messages  from_anthropic_request     the client's own body, its   *)
(*                                            system messages hoisted      *)
(*   chat          the client's own messages  to_anthropic_params          *)
(*                                                                         *)
(* The answer comes back through from_anthropic_response, for a client of  *)
(* /v1/messages also through to_anthropic_response, and becomes part of    *)
(* the dialogue.                                                           *)
(*                                                                         *)
(* Texts and tool calls are numbered.  A joined text is the sequence of    *)
(* what was joined; a tool's result is known by the call it answers.       *)
(***************************************************************************)
EXTENDS Integers, FiniteSets, Sequences, SequencesExt

CONSTANTS MaxAnswers,    \* bound on the answers of a conversation
          AnswerBlocks   \* bound on the blocks of an answer

ASSUME MessageTranslationAssumption == MaxAnswers \in Nat /\ AnswerBlocks \in Nat

VARIABLES api,        \* the endpoint the client uses, "messages" or "chat"
          turn,       \* whose turn it is
          dialogue,   \* the messages the client holds, a system prompt first if any
          made,       \* how many texts and calls were numbered
          to,         \* the kind of the upstream that is asked, "openai" or "anthropic"
          asked,      \* the messages it was sent, a system prompt first if any
          answer      \* the blocks it answered with

translationVars == <<api, turn, dialogue, made, to, asked, answer>>

-----------------------------------------------------------------------------
(* Messages *)

\* A content block: a text's pieces, a call's number, or that of the call it answers.
Block(kind, pieces) == [kind |-> kind, pieces |-> pieces]
Anthropic(role, blocks) == [role |-> role, blocks |-> blocks]
OpenAI(role, texts, calls) == [role |-> role, texts |-> texts, calls |-> calls]

\* What the blocks of a kind hold, in order.
Holding(blocks, kind) ==
    FlattenSeq([i \in DOMAIN blocks |->
        IF blocks[i].kind = kind THEN blocks[i].pieces ELSE <<>>])

-----------------------------------------------------------------------------
(* from_anthropic_request *)

ToolMessages(results) == [i \in DOMAIN results |-> OpenAI("tool", <<>>, <<results[i]>>)]

\* Mutant: the blocks stay in the client's order.
FromUserInOrder(message) ==
    FlattenSeq([i \in DOMAIN message.blocks |->
        LET block == message.blocks[i]
        IN  IF block.kind = "result" THEN ToolMessages(block.pieces)
            ELSE <<OpenAI("user", block.pieces, <<>>)>>])

\* Results come first, each a message of its own, then one message with the texts.
FromUser(message) ==
    LET texts == Holding(message.blocks, "text")
    IN  ToolMessages(Holding(message.blocks, "result"))
          \o (IF texts = <<>> THEN <<>> ELSE <<OpenAI("user", texts, <<>>)>>)

FromAssistant(message) ==
    <<OpenAI("assistant", Holding(message.blocks, "text"), Holding(message.blocks, "call"))>>

\* System messages, wherever they stand, become one at the front.
FromMessage(message) ==
    CASE message.role = "system" -> <<>>
      [] message.role = "user" -> FromUser(message)
      [] message.role = "assistant" -> FromAssistant(message)

SystemIn(message) ==
    IF message.role = "system" THEN Holding(message.blocks, "text") ELSE <<>>

FromAnthropic(messages) ==
    LET system == FlattenSeq([i \in DOMAIN messages |-> SystemIn(messages[i])])
    IN  (IF system = <<>> THEN <<>> ELSE <<OpenAI("system", system, <<>>)>>)
          \o FlattenSeq([i \in DOMAIN messages |-> FromMessage(messages[i])])

\* An image, or a block on the wrong side, is a TranslationError.
Refusable(messages) ==
    \E i \in DOMAIN messages : \E j \in DOMAIN messages[i].blocks :
        /\ messages[i].role # "system"
        /\ messages[i].blocks[j].kind
             \in {"image", IF messages[i].role = "user" THEN "call" ELSE "result"}

-----------------------------------------------------------------------------
(* to_anthropic_params *)

CallBlocks(calls) == [i \in DOMAIN calls |-> Block("call", <<calls[i]>>)]
TextBlock(texts) == IF texts = <<>> THEN <<>> ELSE <<Block("text", texts)>>

\* Blocks of an assistant's message or of an answer: there is at least one.
AssistantBlocks(texts, calls) ==
    LET blocks == TextBlock(texts) \o CallBlocks(calls)
    IN  IF blocks = <<>> THEN <<Block("text", <<>>)>> ELSE blocks

ToMessage(message) ==
    CASE message.role = "system" -> <<>>
      [] message.role = "user" -> <<Anthropic("user", TextBlock(message.texts))>>
      [] message.role = "tool" -> <<Anthropic("user", <<Block("result", message.calls)>>)>>
      [] message.role = "assistant" ->
            <<Anthropic("assistant", AssistantBlocks(message.texts, message.calls))>>

\* The system messages become the one system prompt, here the first message.
ToAnthropic(messages) ==
    LET system == FlattenSeq([i \in DOMAIN messages |->
                      IF messages[i].role = "system" THEN messages[i].texts ELSE <<>>])
    IN  (IF system = <<>> THEN <<>> ELSE <<Anthropic("system", TextBlock(system))>>)
          \o FlattenSeq([i \in DOMAIN messages |-> ToMessage(messages[i])])

-----------------------------------------------------------------------------
(* AnthropicAdapter._build_params, of a /v1/messages body *)

\* Mutant: where there is a system prompt already, system messages are dropped.
HoistedUnlessPrompted(messages) ==
    LET turns == SelectSeq(messages, LAMBDA m : m.role # "system")
    IN  IF messages # <<>> /\ messages[1].role = "system"
        THEN <<messages[1]>> \o turns
        ELSE LET system == FlattenSeq([i \in DOMAIN messages |-> SystemIn(messages[i])])
             IN  (IF system = <<>> THEN <<>>
                  ELSE <<Anthropic("system", TextBlock(system))>>) \o turns

\* The body goes on as the client sent it, but for _hoist_system_messages: the texts of
\* system messages are appended to the system prompt.
Hoisted(messages) ==
    LET system == FlattenSeq([i \in DOMAIN messages |-> SystemIn(messages[i])])
    IN  (IF system = <<>> THEN <<>> ELSE <<Anthropic("system", TextBlock(system))>>)
          \o FlattenSeq([i \in DOMAIN messages |->
                IF messages[i].role = "system" THEN <<>> ELSE <<messages[i]>>])

-----------------------------------------------------------------------------
(* The conversation *)

TranslationInit ==
    /\ api \in {"messages", "chat"}
    /\ turn = "client"
    /\ dialogue = <<>> /\ made = 0
    /\ to = "openai" /\ asked = <<>> /\ answer = <<>>

\* How many answers come before the n-th message.
Answers(messages, n) == Cardinality({i \in 1..(n - 1) : messages[i].role = "assistant"})

\* The calls of the answer that stands last.
OpenCalls ==
    CASE dialogue = <<>> -> <<>>
      [] dialogue # <<>> /\ api = "messages" -> Holding(Last(dialogue).blocks, "call")
      [] dialogue # <<>> /\ api = "chat" -> Last(dialogue).calls

\* The results of all open calls, in the order they came in, a text before, between or
\* after them (a text alone if no call is open); maybe what is refused, or a system message
\* before it.
ClientTurn(results, at, kind, system) ==
    LET blocks == [i \in DOMAIN results |-> Block("result", <<results[i]>>)]
        said == Block(kind, <<made + 1>>)
        message == Anthropic("user", IF kind = "none" THEN blocks
                                     ELSE InsertAt(blocks, at, said))
        prompt == Anthropic("system", <<Block("text", <<made + 2>>)>>)
    IN  /\ turn = "client" /\ api = "messages"
        /\ ToSet(results) = ToSet(OpenCalls) /\ Len(results) = Len(OpenCalls)
        /\ kind = "none" => results # <<>>
        /\ dialogue' = dialogue \o (IF system THEN <<prompt>> ELSE <<>>) \o <<message>>
        /\ made' = made + 2
        /\ turn' = "gateway"
        /\ UNCHANGED <<api, to, asked, answer>>

\* The same of a chat client: each result is a message, then a system message and a text.
ChatTurn(results, said, system) ==
    LET message(role, number, given) ==
          IF given THEN <<OpenAI(role, <<number>>, <<>>)>> ELSE <<>>
    IN  /\ turn = "client" /\ api = "chat"
        /\ ToSet(results) = ToSet(OpenCalls) /\ Len(results) = Len(OpenCalls)
        /\ ~said => results # <<>>
        /\ dialogue' = ((dialogue \o ToolMessages(results))
                           \o message("system", made + 2, system))
                         \o message("user", made + 1, said)
        /\ made' = made + 2
        /\ turn' = "gateway"
        /\ UNCHANGED <<api, to, asked, answer>>

\* Refused with a 400: the client takes back what it said since the last answer.
Refuse ==
    /\ turn = "gateway" /\ api = "messages" /\ Refusable(dialogue)
    /\ turn' = "client"
    /\ dialogue' = SubSeq(dialogue, 1,
                         SelectLastInSeq(dialogue, LAMBDA m : m.role = "assistant"))
    /\ made' = made - 2
    /\ UNCHANGED <<api, to, asked, answer>>

\* What an upstream of a kind is sent of the dialogue.
Request(kind) ==
    CASE api = "messages" /\ kind = "openai" -> FromAnthropic(dialogue)
      [] api = "messages" /\ kind = "anthropic" -> Hoisted(dialogue)
      [] api = "chat" /\ kind = "openai" -> dialogue
      [] api = "chat" /\ kind = "anthropic" -> ToAnthropic(dialogue)

Ask(kind) ==
    /\ turn = "gateway" /\ ~(api = "messages" /\ Refusable(dialogue))
    /\ to' = kind /\ asked' = Request(kind)
    /\ turn' = "upstream"
    /\ answer' = <<>>
    /\ UNCHANGED <<api, dialogue, made>>

\* An OpenAI-compatible upstream's answer has one text and then calls.
Orderly(blocks) ==
    \A i \in DOMAIN blocks : blocks[i].kind = "text" => i = 1

UpstreamAnswers(kinds) ==
    LET blocks == [i \in DOMAIN kinds |-> Block(kinds[i], <<made + i>>)]
    IN  /\ turn = "upstream"
        /\ Answers(dialogue, Len(dialogue) + 1) < MaxAnswers
        /\ to = "openai" => Orderly(blocks)
        /\ answer' = blocks
        /\ made' = made + Len(kinds)
        /\ turn' = "answer"
        /\ UNCHANGED <<api, dialogue, to, asked>>

\* Mutant: of several texts the last one stays.
TextsOfLast(blocks) ==
    LET texts == Holding(blocks, "text") IN IF texts = <<>> THEN <<>> ELSE <<Last(texts)>>

\* from_anthropic_response joins the texts.
TextsOf(blocks) == Holding(blocks, "text")

\* from_anthropic_response, and to_anthropic_response for a client of /v1/messages.
TranslateAnswer ==
    /\ turn = "answer"
    /\ LET texts == TextsOf(answer)
           calls == Holding(answer, "call")
       IN  dialogue' = Append(dialogue,
             IF api = "messages" THEN Anthropic("assistant", AssistantBlocks(texts, calls))
             ELSE OpenAI("assistant", texts, calls))
    /\ turn' = "client"
    /\ asked' = <<>>
    /\ UNCHANGED <<api, to, made, answer>>

TranslationNext ==
    \/ \E results \in {OpenCalls, Reverse(OpenCalls)}, at \in 1..(Len(OpenCalls) + 1),
          kind \in {"text", "image", "call", "none"}, system \in BOOLEAN :
         ClientTurn(results, at, kind, system)
    \/ \E results \in {OpenCalls, Reverse(OpenCalls)}, said \in BOOLEAN, system \in BOOLEAN :
         ChatTurn(results, said, system)
    \/ Refuse
    \/ \E kind \in {"openai", "anthropic"} : Ask(kind)
    \/ \E n \in 0..AnswerBlocks : \E kinds \in [1..n -> {"text", "call"}] :
         UpstreamAnswers(kinds)
    \/ TranslateAnswer

TranslationSpec == TranslationInit /\ [][TranslationNext]_translationVars

-----------------------------------------------------------------------------
(* What must hold *)

\* What strict OpenAI-compatible upstreams demand: a system message stands first, and the
\* calls of an assistant's message are answered by the messages right after it.
StrictlyOrdered(messages) ==
    /\ \A i \in DOMAIN messages : messages[i].role = "system" => i = 1
    /\ \A i \in DOMAIN messages :
         messages[i].role = "assistant" /\ i < Len(messages) =>
            LET calls == messages[i].calls
            IN  /\ i + Len(calls) <= Len(messages)
                /\ \A k \in 1..Len(calls) : messages[i + k].role = "tool"
                /\ UNION {ToSet(messages[i + k].calls) : k \in 1..Len(calls)} = ToSet(calls)
    /\ \A i \in DOMAIN messages : messages[i].role = "tool" =>
         \E j \in 1..(i - 1) : /\ messages[j].role = "assistant"
                               /\ i - j <= Len(messages[j].calls)

\* What the messages of a role hold of a kind in the n-th turn: after n answers.
Said(messages, role, kind, n) ==
    FlattenSeq([i \in DOMAIN messages |->
        IF messages[i].role = role /\ (role = "system" \/ Answers(messages, i) = n)
        THEN Holding(messages[i].blocks, kind) ELSE <<>>])

\* OpenAI messages, read as the blocks they stand for.
Heard(messages) ==
    [i \in DOMAIN messages |->
        LET message == messages[i]
            tool == message.role = "tool"
        IN  Anthropic(IF tool THEN "user" ELSE message.role,
                      <<Block("text", message.texts),
                        Block(IF tool THEN "result" ELSE "call", message.calls)>>)]

\* The client's dialogue and the upstream's request, in blocks.
Conversation == IF api = "messages" THEN dialogue ELSE Heard(dialogue)
Received == IF to = "anthropic" THEN asked ELSE Heard(asked)

(* However a client orders its turns, on either API, and whichever upstreams answer them:
   the upstream is sent every text, call, result and system text of the dialogue, in their
   order and in the turn they belong to, a request translated for an OpenAI-compatible one
   is in the order it demands, and the client gets every text and call of an answer. *)
ConversationSurvives ==
    /\ turn = "upstream" =>
         /\ Answers(Received, Len(Received) + 1) = Answers(Conversation, Len(Conversation) + 1)
         /\ \A role \in {"system", "user", "assistant"}, kind \in {"text", "call", "result"},
               n \in 0..Len(dialogue) :
              Said(Received, role, kind, n) = Said(Conversation, role, kind, n)
    /\ turn = "upstream" /\ api = "messages" /\ to = "openai" => StrictlyOrdered(asked)
    /\ turn = "client" /\ dialogue # <<>> /\ Last(dialogue).role = "assistant" =>
         \A kind \in {"text", "call"} :
            Holding(Last(Conversation).blocks, kind) = Holding(answer, kind)

TranslationTypeOK ==
    /\ api \in {"messages", "chat"} /\ to \in {"openai", "anthropic"}
    /\ turn \in {"client", "gateway", "upstream", "answer"}
    /\ made \in Nat
    /\ \A i \in DOMAIN Conversation : Conversation[i].role \in {"system", "user", "assistant"}
    /\ \A i \in DOMAIN Received : Received[i].role \in {"system", "user", "assistant"}
    /\ Len(answer) <= AnswerBlocks
=============================================================================
