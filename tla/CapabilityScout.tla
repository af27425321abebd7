-------------------------- MODULE CapabilityScout --------------------------
(***************************************************************************)
(* CapabilityScout.choose(): which rows of the model registry qualify for  *)
(* a request, in which order, and which is chosen.  choose() awaits        *)
(* nothing, so it is one step of its callers: a set of operators.          *)
(*                                                                         *)
(* A row is one (model, provider) of MultiProviderModelRegistry; rows are  *)
(* named by their place in the list the registry is built from.  Scores    *)
(* and thresholds are percentages, costs are blended costs in any unit,    *)
(* latencies are seconds.  The ranking is a relation, Before, and a row's  *)
(* position in it is the number of rows before it.                         *)
(***************************************************************************)
EXTENDS Integers, Sequences, FiniteSets

CONSTANTS Registry,         \* the rows, in the order they were loaded
          Eligible,         \* CapabilityScout.eligible_providers
          Configured,       \* the keys of CapabilityRouter.adapters_by_provider
          Threshold,        \* CapabilityScout.quality_threshold
          FallbackDepth,    \* CapabilityScout.fallback_depth
          ReliabilityFloor, \* agentic_reliability_floor()
          EscalateTokens    \* large_context_threshold()

OpenSource == {"vllm", "fireworks", "together", "openrouter"}
Frontier == {"anthropic", "openai"}

Categories == {"coding", "tool_use", "reasoning", "simple_qa", "summarization"}

\* Nothing given: a latency, a budget, a hint or a pin.
None == -1

\* The limits of the autocomplete shape, and the bar it is held to.
AutocompleteBudget == 256
AutocompleteChars == 4000
AutocompleteBar == 55

ScoreKeys == Categories \cup {"agentic_coding"}

ASSUME ScoutAssumption ==
    /\ \A r \in DOMAIN Registry :
         /\ r \in Nat \ {0}
         /\ {Registry[r].cost, Registry[r].context} \subseteq Nat
         /\ Registry[r].latency \in Nat \cup {None}
         /\ {Registry[r].tools, Registry[r].enabled} \subseteq BOOLEAN
         /\ DOMAIN Registry[r].scores \subseteq ScoreKeys
         /\ \A key \in DOMAIN Registry[r].scores : Registry[r].scores[key] \in 0..100
    /\ Threshold \in 0..100
    /\ FallbackDepth \in Nat
    /\ ReliabilityFloor \in 0..100
    /\ EscalateTokens \in Nat

\* What choose() reads of a request and its hints: `hard` is the verdict of the difficulty
\* detector or of the reasoning markers, `keys` are the BYOK headers, `pin` is only there
\* when the gateway allows it.
Request == [policy : {"none", "saver", "auto", "quality"}, category : Categories,
            hard : BOOLEAN, chars : Nat, toolChars : Nat, tools : BOOLEAN,
            budget : Nat \cup {None}, bar : 0..100 \cup {None},
            excluded : SUBSET STRING, keys : [Frontier -> {"none", "good", "refused"}],
            pin : STRING]

-----------------------------------------------------------------------------
(* The registry *)

Rows == DOMAIN Registry

SameKey(r, s) ==
    Registry[r].model = Registry[s].model /\ Registry[r].provider = Registry[s].provider

\* _by_key: the last row of a (model, provider) wins, in the first one's place.
Live == {r \in Rows : \A s \in Rows : SameKey(r, s) => s <= r}
Slots(r) == {s \in Rows : SameKey(r, s)}
Listed(r, s) == \E i \in Slots(r) : \A j \in Slots(s) : i < j

\* _by_id: the last row of a model, on whichever provider.
ById(model) ==
    {r \in Rows : /\ Registry[r].model = model
                  /\ \A s \in Rows : Registry[s].model = model => s <= r}

Providers == {Registry[r].provider : r \in Rows} \cup Configured \cup Frontier

Score(r, key) == IF key \in DOMAIN Registry[r].scores THEN Registry[r].scores[key] ELSE 0
Scored(r, key) == key \in DOMAIN Registry[r].scores

-----------------------------------------------------------------------------
(* The request *)

\* Mutant: the adapters are filed under their keys.
KeyedByKey(q) == {q.keys[p] : p \in Frontier} \ {"none"}

\* The providers the request brings a key for.
Keyed(q) == {p \in Frontier : q.keys[p] # "none"}

Tokens(q) == (q.chars + q.toolChars) \div 4

\* Input and response with a fifth on top; no budget, or one of 0, counts as 1024.
ContextNeeded(q) ==
    ((Tokens(q) + (IF q.budget \in {None, 0} THEN 1024 ELSE q.budget)) * 12) \div 10

Autocomplete(q) ==
    /\ ~q.tools
    /\ q.budget # None /\ q.budget <= AutocompleteBudget
    /\ q.chars <= AutocompleteChars

Agentic(q) == q.category \in {"coding", "tool_use"}

Escalates(q) == q.hard \/ (EscalateTokens > 0 /\ Tokens(q) >= EscalateTokens)

\* Mutant: hard work is escalated before the policy is looked at.
PoolHardFirst(q) ==
    LET allowed == Eligible \ q.excluded
        frontier == Frontier \cap (Configured \cup Keyed(q))
    IN IF q.hard /\ frontier # {} THEN frontier ELSE allowed \cap OpenSource

\* The providers considered.  A hinted threshold switches the policy's filter off;
\* escalation and quality replace the allowed providers by the frontier ones at hand.
Pool(q) ==
    LET allowed == Eligible \ q.excluded
        frontier == Frontier \cap (Configured \cup Keyed(q))
        policy == IF q.bar = None THEN q.policy ELSE "none"
    IN CASE policy = "saver" -> allowed \cap OpenSource
         [] policy = "auto" /\ Escalates(q) /\ frontier # {} -> frontier
         [] policy = "quality" /\ ~Autocomplete(q) -> frontier
         [] OTHER -> allowed

\* The score asked for: the hint, else the threshold, lowered for autocomplete.
Bar(q) ==
    CASE q.bar # None -> q.bar
      [] q.bar = None /\ Autocomplete(q) /\ AutocompleteBar < Threshold -> AutocompleteBar
      [] OTHER -> Threshold

-----------------------------------------------------------------------------
(* rank(), the policies' re-ranking, and the choice *)

\* Good enough, or proven on agentic work where the benchmark has no score.
Admitted(q, r) ==
    \/ Score(r, q.category) >= Bar(q)
    \/ /\ Agentic(q) /\ ~Scored(r, q.category)
       /\ Score(r, "agentic_coding") >= ReliabilityFloor

Qualifies(q, r) ==
    /\ Registry[r].enabled
    /\ Registry[r].provider \in Pool(q)
    /\ Registry[r].context >= ContextNeeded(q)
    /\ q.tools => Registry[r].tools
    /\ Admitted(q, r)

\* Mutant: only the provider and the score are looked at.
CandidatesByScore(q) ==
    {r \in Live : Registry[r].provider \in Pool(q) /\ Admitted(q, r)}

Candidates(q) == {r \in Live : Qualifies(q, r)}

\* -auto on agentic work keeps to the measured and reliable rows of S, if there are any.
Reliable(S) ==
    {r \in S : Scored(r, "agentic_coding") /\ Score(r, "agentic_coding") >= ReliabilityFloor}

Preferred(q, S) ==
    IF q.policy = "auto" /\ Agentic(q) /\ ReliabilityFloor > 0 /\ Reliable(S) # {}
      THEN Reliable(S) ELSE S

Ranked(q) == Preferred(q, Candidates(q))

\* The median latency of the rows measured, doubled: the sum of the middle two.
Measured(S) == {r \in S : Registry[r].latency # None}
Middle(S) ==
    LET latency(r) == Registry[r].latency
        n == Cardinality(S)
    IN {latency(r) : r \in {r \in S :
          /\ 2 * Cardinality({s \in S : latency(s) < latency(r)}) <= n
          /\ 2 * Cardinality({s \in S : latency(s) > latency(r)}) <= n}}
DoubleMedian(S) ==
    (CHOOSE x \in Middle(S) : \A y \in Middle(S) : x <= y)
      + (CHOOSE x \in Middle(S) : \A y \in Middle(S) : y <= x)

DoubleLatency(S, r) == IF r \in S THEN 2 * Registry[r].latency ELSE DoubleMedian(S)

\* cost, or cost * (1 + 0.02 * latency) times 100 on an -auto request with tools, a row that
\* is not among the measured taken for a median one.
Price(q, measured, r) ==
    IF q.policy = "auto" /\ q.tools /\ measured # {}
      THEN Registry[r].cost * (100 + DoubleLatency(measured, r))
      ELSE Registry[r].cost

\* -quality on agentic work goes by capability first.
Capability(q, r) ==
    CASE ~(q.policy = "quality" /\ Agentic(q)) -> 0
      [] q.policy = "quality" /\ Agentic(q) /\ Scored(r, "agentic_coding") ->
           Score(r, "agentic_coding")
      [] OTHER -> Score(r, q.category)

\* By capability, then price, then place in the registry.
Sooner(stronger, cheaper, listed) ==
    stronger > 0 \/ (stronger = 0 /\ (cheaper > 0 \/ (cheaper = 0 /\ listed)))
Before(q, measured, r, s) ==
    Sooner(Capability(q, r) - Capability(q, s),
           Price(q, measured, s) - Price(q, measured, r), Listed(r, s))

PositionIn(q, ranked, measured, r) ==
    Cardinality({s \in ranked : Before(q, measured, s, r)})

\* How many rows rank before r.
Position(q, r) == PositionIn(q, Ranked(q), Measured(Candidates(q)), r)

\* The exclusions leave no provider at all: an error, whatever the policy would say.
AllExcluded(q) == q.excluded # {} /\ Eligible \subseteq q.excluded

\* The chosen row, as a set: none when choose() raises NoEligibleModelError.
Chosen(q) ==
    CASE q.pin # "" -> ById(q.pin)
      [] q.pin = "" /\ AllExcluded(q) -> {}
      [] OTHER -> {r \in Ranked(q) : Position(q, r) = 0}

\* fallback_model_ids, as the rows they were taken from.
Fallbacks(q) ==
    IF q.pin # "" THEN {} ELSE {r \in Ranked(q) : Position(q, r) \in 1..FallbackDepth}
=============================================================================
