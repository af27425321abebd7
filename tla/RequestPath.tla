----------------------------- MODULE RequestPath -----------------------------
(***************************************************************************)
(* The life of a request: POST /v1/chat/completions, /v1/messages and      *)
(* /v1/responses, from the routing decision to the answer, the audit event *)
(* and the memory write, with the two completion caches the handlers       *)
(* share.                                                                  *)
(*                                                                         *)
(* Each handler is a chain of awaits; a step here is the code up to the    *)
(* next one.  The router is abstract: it decides for any model, and after  *)
(* a failure for any other or for none (TieredRouter has its inside).      *)
(* Prompts stand for the outgoing request, memory already injected and     *)
(* redacted.  A cache may lose any entry at any time.                      *)
(***************************************************************************)
EXTENDS Integers

CONSTANTS Requests,
          Kinds,      \* the kinds of request to consider, see Kind
          Tenants,
          Prompts,
          Models,     \* canonical ids of the registry
          Slug,       \* an upstream provider's own name for a model
          None

ASSUME RequestPathAssumption ==
    /\ Kinds \subseteq
         [route : {"chat", "messages", "responses"}, stream : BOOLEAN,
          cacheable : BOOLEAN,     \* no tools, n at most 1
          overrides : BOOLEAN,     \* capability routing sets model_id_override
          tenant : Tenants, prompt : Prompts]
    /\ Slug \notin Models /\ None \notin Models

VARIABLES kind,        \* [Requests -> Kinds]
          pc,          \* [Requests -> where its handler stands]
          decision,    \* [Requests -> the model of the routing decision in force]
          servedModel, \* [Requests -> the local served_model, set from the first one]
          completion,  \* [Requests -> the ChatCompletion to answer with]
          exact,       \* the exact-match cache
          semantic,    \* the semantic cache
          events,      \* [Requests -> the RequestCompletedEvents fired for it]
          recorded     \* [Requests -> the MemoryProvider.record calls made for it]

caches == <<exact, semantic>>
vars == <<kind, pc, decision, servedModel, completion, exact, semantic, events, recorded>>

-----------------------------------------------------------------------------
(* Values *)

\* `tenant`, `prompt`: what it was produced for; `by`: the model that produced it;
\* `label`: its model field; `pinned`: whether the handler that got it pins that field;
\* `fellBack`: whether it took a failover to get it.
Completion ==
    [tenant : Tenants, prompt : Prompts, by : Models, label : Models \cup {Slug},
     pinned : BOOLEAN, fellBack : BOOLEAN]

Entry == [tenant : Tenants, model : Models, prompt : Prompts, value : Completion]

Steps == {"new", "exact", "semantic", "hit", "call", "failover", "fallback",
          "store", "embed", "report", "record",
          "open", "streaming", "closing", "broken",
          "rejected", "failed", "replayed", "answered", "cut"}

TypeOK ==
    /\ kind \in [Requests -> Kinds]
    /\ pc \in [Requests -> Steps]
    /\ decision \in [Requests -> Models \cup {None}]
    /\ servedModel \in [Requests -> Models \cup {None}]
    /\ completion \in [Requests -> Completion \cup {None}]
    /\ exact \subseteq Entry
    /\ semantic \subseteq Entry
    /\ events \in [Requests -> Nat]
    /\ recorded \in [Requests -> Nat]

Init ==
    /\ kind \in [Requests -> Kinds]
    /\ pc = [r \in Requests |-> "new"]
    /\ decision = [r \in Requests |-> None]
    /\ servedModel = [r \in Requests |-> None]
    /\ completion = [r \in Requests |-> None]
    /\ exact = {} /\ semantic = {}
    /\ events = [r \in Requests |-> 0]
    /\ recorded = [r \in Requests |-> 0]

-----------------------------------------------------------------------------
(* Helpers *)

\* Only chat and messages consult the caches, and only for a cacheable request.
UsesCaches(r) == kind[r].route # "responses" /\ kind[r].cacheable

Cached(r, entries) ==
    {e \in entries : /\ e.tenant = kind[r].tenant
                     /\ e.model = servedModel[r]
                     /\ e.prompt = kind[r].prompt}

\* Mutant: the search is not scoped to the tenant.
SimilarAcrossTenants(r, entries) == {e \in entries : e.model = servedModel[r]}

\* The semantic cache compares prompts by similarity: any entry of the tenant and model
\* may be similar enough.
Similar(r, entries) ==
    {e \in entries : e.tenant = kind[r].tenant /\ e.model = servedModel[r]}

EntryFor(r, value) ==
    [tenant |-> kind[r].tenant, model |-> servedModel[r], prompt |-> kind[r].prompt,
     value |-> value]

\* CompletionCache.set: one value per key.
Put(r, value) == (exact \ Cached(r, exact)) \cup {EntryFor(r, value)}

\* Chat and responses pin the model field of a completion where the decision overrides
\* the model; messages keeps what the adapter echoed.
Pins(r) == kind[r].overrides /\ kind[r].route # "messages"

\* Mutants: the registry lookup finds nothing and nothing stands in for it; the field is
\* pinned to the model routed first.
PinnedToLookup(r, echo) == IF Pins(r) THEN None ELSE echo
PinnedToFirst(r, echo) == IF Pins(r) THEN servedModel[r] ELSE echo

\* It is pinned to the canonical model of the decision in force.
Pinned(r, echo) == IF Pins(r) THEN decision[r] ELSE echo

\* What the adapter of the decision in force answers.
Answers(r) ==
    {[tenant |-> kind[r].tenant, prompt |-> kind[r].prompt, by |-> decision[r],
      label |-> Pinned(r, echo), pinned |-> Pins(r), fellBack |-> pc[r] = "fallback"]
       : echo \in {decision[r], Slug}}

\* The model field of the body: to_anthropic_response and the stream to Anthropic events
\* take the local served_model, chat and responses what the completion says.
BodyModel(r) == IF kind[r].route = "messages" THEN servedModel[r] ELSE completion[r].label

Goto(r, step) == pc' = [pc EXCEPT ![r] = step]

Fire(r) == events' = [events EXCEPT ![r] = @ + 1]

-----------------------------------------------------------------------------
(* Routing *)

\* A malformed memory or hint header, the key's model allowlist, or passthrough that is
\* not enabled: 400 or 403 before the router is asked.
Reject(r) ==
    /\ pc[r] = "new"
    /\ Goto(r, "rejected")
    /\ UNCHANGED <<kind, decision, servedModel, completion, caches, events, recorded>>

\* RouterError: _fire_failure, then 400 or 503.
RouteFails(r) ==
    /\ pc[r] = "new"
    /\ Goto(r, "failed") /\ Fire(r)
    /\ UNCHANGED <<kind, decision, servedModel, completion, caches, recorded>>

Route(r) ==
    /\ pc[r] = "new"
    /\ \E m \in Models :
         /\ decision' = [decision EXCEPT ![r] = m]
         /\ servedModel' = [servedModel EXCEPT ![r] = m]
    /\ Goto(r, IF kind[r].stream THEN "open" ELSE IF UsesCaches(r) THEN "exact" ELSE "call")
    /\ UNCHANGED <<kind, completion, caches, events, recorded>>

-----------------------------------------------------------------------------
(* The caches *)

\* Absent, expired, evicted, never stored because `set` failed, or no cache of the kind:
\* all the same to the handler.
ExactMiss(r) ==
    /\ pc[r] = "exact"
    /\ Goto(r, "semantic")
    /\ UNCHANGED <<kind, decision, servedModel, completion, caches, events, recorded>>

ExactHit(r) ==
    /\ pc[r] = "exact"
    /\ \E e \in Cached(r, exact) : completion' = [completion EXCEPT ![r] = e.value]
    /\ Goto(r, "hit")
    /\ UNCHANGED <<kind, decision, servedModel, caches, events, recorded>>

SemanticMiss(r) ==
    /\ pc[r] = "semantic"
    /\ Goto(r, "call")
    /\ UNCHANGED <<kind, decision, servedModel, completion, caches, events, recorded>>

\* Mutant: the hit is also embedded under the prompt that hit.
SemanticHitEmbedded(r) ==
    /\ pc[r] = "semantic"
    /\ \E e \in Similar(r, semantic) :
         /\ completion' = [completion EXCEPT ![r] = e.value]
         /\ exact' = Put(r, e.value)
         /\ semantic' = semantic \cup {EntryFor(r, e.value)}
    /\ Goto(r, "hit")
    /\ UNCHANGED <<kind, decision, servedModel, events, recorded>>

\* The exact cache is filled with what the semantic cache found.
SemanticHit(r) ==
    /\ pc[r] = "semantic"
    /\ \E e \in Similar(r, semantic) :
         /\ completion' = [completion EXCEPT ![r] = e.value]
         /\ exact' = Put(r, e.value)
    /\ Goto(r, "hit")
    /\ UNCHANGED <<kind, decision, servedModel, semantic, events, recorded>>

\* A hit is reported and returned; nothing is recorded in memory.
Replay(r) ==
    /\ pc[r] = "hit"
    /\ Goto(r, "replayed") /\ Fire(r)
    /\ UNCHANGED <<kind, decision, servedModel, completion, caches, recorded>>

-----------------------------------------------------------------------------
(* The model *)

\* adapter.chat answers, for the decision in force, first or second.
Respond(r) ==
    /\ ~kind[r].stream /\ pc[r] \in {"call", "fallback"}
    /\ \E c \in Answers(r) : completion' = [completion EXCEPT ![r] = c]
    /\ Goto(r, IF UsesCaches(r) THEN "store" ELSE "report")
    /\ UNCHANGED <<kind, decision, servedModel, caches, events, recorded>>

\* Mutant: the failure is reported before a fallback is looked for.
CallFailsReported(r) ==
    /\ pc[r] \in {"call", "open"}
    /\ Goto(r, "failover") /\ Fire(r)
    /\ UNCHANGED <<kind, decision, servedModel, completion, caches, recorded>>

\* AdapterError from the first adapter, for a call or for opening a stream.
CallFails(r) ==
    /\ pc[r] \in {"call", "open"}
    /\ Goto(r, "failover")
    /\ UNCHANGED <<kind, decision, servedModel, completion, caches, events, recorded>>

\* route_after_failure finds another adapter; served_model and the cache key stay.
Failover(r) ==
    /\ pc[r] = "failover"
    /\ \E m \in Models \ {decision[r]} : decision' = [decision EXCEPT ![r] = m]
    /\ Goto(r, "fallback")
    /\ UNCHANGED <<kind, servedModel, completion, caches, events, recorded>>

\* It finds none (a permanent error, no healthy adapter), or the second adapter fails
\* too: 502.
GiveUp(r) ==
    /\ pc[r] \in {"failover", "fallback"}
    /\ Goto(r, "failed") /\ Fire(r)
    /\ UNCHANGED <<kind, decision, servedModel, completion, caches, recorded>>

StoreExact(r) ==
    /\ pc[r] = "store"
    /\ exact' = Put(r, completion[r])
    /\ Goto(r, "embed")
    /\ UNCHANGED <<kind, decision, servedModel, completion, semantic, events, recorded>>

StoreSemantic(r) ==
    /\ pc[r] = "embed"
    /\ semantic' = semantic \cup {EntryFor(r, completion[r])}
    /\ Goto(r, "report")
    /\ UNCHANGED <<kind, decision, servedModel, completion, exact, events, recorded>>

\* _fire_success, or _fire_success_stream once the terminator is out: the hooks run
\* before the memory write.
Report(r) ==
    /\ pc[r] \in {"report", "closing"}
    /\ Goto(r, "record") /\ Fire(r)
    /\ UNCHANGED <<kind, decision, servedModel, completion, caches, recorded>>

Record(r) ==
    /\ pc[r] = "record"
    /\ recorded' = [recorded EXCEPT ![r] = @ + 1]
    /\ Goto(r, "answered")
    /\ UNCHANGED <<kind, decision, servedModel, completion, caches, events>>

-----------------------------------------------------------------------------
(* Streams *)

\* The first chunk is there (or the stream is empty): headers go out and nothing can
\* fail over any more.
OpenStream(r) ==
    /\ kind[r].stream /\ pc[r] \in {"open", "fallback"}
    /\ \E c \in Answers(r) : completion' = [completion EXCEPT ![r] = c]
    /\ Goto(r, "streaming")
    /\ UNCHANGED <<kind, decision, servedModel, caches, events, recorded>>

\* The last chunk is through and the terminator is being sent.
EndStream(r) ==
    /\ pc[r] = "streaming"
    /\ Goto(r, "closing")
    /\ UNCHANGED <<kind, decision, servedModel, completion, caches, events, recorded>>

\* An exception after the first chunk.
BreakStream(r) ==
    /\ pc[r] = "streaming"
    /\ Goto(r, "broken")
    /\ UNCHANGED <<kind, decision, servedModel, completion, caches, events, recorded>>

FailStream(r) ==
    /\ pc[r] = "broken"
    /\ Goto(r, "failed") /\ Fire(r)
    /\ UNCHANGED <<kind, decision, servedModel, completion, caches, recorded>>

\* The client is gone: the generator is cancelled where it stands, and `except
\* Exception` does not see it.
Disconnect(r) ==
    /\ kind[r].stream /\ pc[r] \in {"streaming", "closing", "broken", "record"}
    /\ Goto(r, "cut")
    /\ UNCHANGED <<kind, decision, servedModel, completion, caches, events, recorded>>

-----------------------------------------------------------------------------

CacheStep(r) ==
    \/ ExactMiss(r) \/ ExactHit(r) \/ SemanticMiss(r) \/ SemanticHit(r) \/ Replay(r)
    \/ StoreExact(r) \/ StoreSemantic(r)

CallStep(r) ==
    \/ Respond(r) \/ CallFails(r) \/ Failover(r) \/ GiveUp(r)
    \/ Report(r) \/ Record(r)

StreamStep(r) ==
    \/ OpenStream(r) \/ EndStream(r) \/ BreakStream(r) \/ FailStream(r)
    \/ Disconnect(r)

Next == \E r \in Requests :
    \/ Reject(r) \/ RouteFails(r) \/ Route(r)
    \/ CacheStep(r) \/ CallStep(r) \/ StreamStep(r)

Spec == Init /\ [][Next]_vars

-----------------------------------------------------------------------------
(* Properties *)

\* However a request leaves its handler, it is reported exactly once if it was routed
\* and its client stayed, and an exchange enters the memory once, after its event, and
\* only for an answer a model gave: never for a hit, a failure or a broken stream.
Lifecycle == INSTANCE RequestLifecycle WITH
    outcome <- [r \in Requests |->
                  IF pc[r] \in {"rejected", "failed", "replayed", "answered", "cut"}
                    THEN pc[r] ELSE "open"],
    event <- [r \in Requests |->
                CASE events[r] = 0 -> "none"
                  [] events[r] = 1 -> IF pc[r] = "failed" THEN "failure" ELSE "success"
                  [] OTHER -> "repeated"],
    recorded <- {r \in Requests : recorded[r] = 1}

ImplementsLifecycle == Lifecycle!Spec

\* What the shared caches replay was produced for the tenant that asks, and by the model
\* it is filed under unless a failover stood in for that model.
CachesKeepTenantAndModel ==
    \A e \in exact \cup semantic :
      /\ e.value.tenant = e.tenant
      /\ e.value.by = e.model \/ e.value.fellBack

\* Similarity is taken once: the semantic cache holds only answers to the prompt they are
\* filed under, and what the exact cache holds answers its own prompt or stands in the
\* semantic cache.  A hit is never embedded again under the prompt that hit, so answers
\* do not drift from prompt to prompt.
AnswersDoNotDrift ==
    /\ \A e \in semantic : e.value.prompt = e.prompt
    /\ \A e \in exact : e.value.prompt # e.prompt => \E s \in semantic : s.value = e.value

\* x-modelmeld-routed-model names the model that answered, and so does the body, except
\* that of messages after a failover (which names the first).  A replayed answer keeps to
\* its header unless a failover got it, and a chat body still names the model that gave
\* it, provided the handler that stored it pinned it (see CachedBodiesAreClean).
AnsweredAsAnnounced ==
    \A r \in Requests :
      LET answer == completion[r] IN
      /\ pc[r] = "answered" =>
           /\ answer.by = decision[r]
           /\ kind[r].overrides /\ (kind[r].route = "messages" => ~answer.fellBack) =>
                BodyModel(r) = decision[r]
      /\ pc[r] = "replayed" =>
           /\ answer.by = decision[r] \/ answer.fellBack
           /\ kind[r].route = "chat" /\ answer.pinned => BodyModel(r) = answer.by
           /\ kind[r].route = "messages" => BodyModel(r) = decision[r]

\* chat.py on pinning: "the response body must not surface an upstream-provider model
\* slug ... Done before caching so cached bodies are clean too".
CachedBodiesAreClean ==
    \A r \in Requests :
      pc[r] = "replayed" /\ kind[r].route = "chat" /\ kind[r].overrides =>
        BodyModel(r) # Slug

\* cache/base.py on served_model: "if either gets routed elsewhere the entry is a
\* separate row".  An answer is replayed only for the model that gave it.
ReplayedForItsModel ==
    \A r \in Requests : pc[r] = "replayed" => completion[r].by = servedModel[r]

\* hooks.py: the event is "emitted after every chat-completion request resolves (success
\* or failure)".
EveryRequestIsReported ==
    \A r \in Requests : pc[r] \in {"failed", "replayed", "answered", "cut"} => events[r] = 1
=============================================================================
