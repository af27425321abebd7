------------------------- MODULE MCCapabilityRouter -------------------------
(* CapabilityRouter on small instances. *)
EXTENDS CapabilityRouter, TLC

CONSTANTS c1, c2

Scores(coding, agentic) ==
    ("coding" :> coding) @@ ("tool_use" :> coding)
      @@ (IF agentic = None THEN <<>> ELSE "agentic_coding" :> agentic)

SmallRow(model, provider, cost, coding) ==
    [model |-> model, provider |-> provider, cost |-> cost, latency |-> None, context |-> 64000,
     tools |-> TRUE, enabled |-> TRUE, scores |-> Scores(coding, None)]

\* One model on three open-source providers, its last row not fit for tools and the most
\* expensive; a measured one; a cheap one that is disabled; two on the frontier.
SmallRegistry ==
    <<SmallRow("qwen", "vllm", 1, 80),
      SmallRow("qwen", "fireworks", 2, 80),
      [SmallRow("qwen", "together", 5, 80) EXCEPT !.tools = FALSE],
      [SmallRow("glm", "fireworks", 4, 75) EXCEPT !.scores = Scores(75, 60), !.latency = 5],
      [SmallRow("phi", "vllm", 0, 90) EXCEPT !.enabled = FALSE],
      [SmallRow("gpt", "openai", 9, 85) EXCEPT !.context = 400000, !.latency = 8],
      SmallRow("claude", "anthropic", 12, 90)>>

Plain ==
    [policy |-> "none", category |-> "coding", hard |-> FALSE, chars |-> 8000,
     toolChars |-> 0, tools |-> FALSE, budget |-> None, bar |-> None, excluded |-> {},
     keys |-> [p \in Frontier |-> "none"], pin |-> ""]

WithKey(q, state) == [q EXCEPT !.keys["openai"] = state]

\* Open-source work with tools; escalated work with a key of the customer's; frontier work
\* with a key that is refused; a request whose exclusions leave nothing.
FewRequests ==
    [saver |-> [Plain EXCEPT !.policy = "saver", !.hard = TRUE, !.tools = TRUE, !.toolChars = 400],
     auto |-> WithKey([Plain EXCEPT !.policy = "auto", !.hard = TRUE], "good"),
     refused |-> WithKey([Plain EXCEPT !.policy = "quality"], "refused"),
     nothing |-> [Plain EXCEPT !.excluded = {"vllm", "fireworks", "anthropic"}]]

\* A customer that keeps away from one of the providers of the model it gets.
CarefulRequest == [careful |-> [Plain EXCEPT !.excluded = {"together"}]]
=============================================================================
