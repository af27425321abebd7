# ModelMeld: a verification project

ModelMeld is an LLM gateway: clients speak the OpenAI (chat completions, responses) or the
Anthropic (messages) API to it, it decides which model of which provider serves a request,
calls that provider, fails over when the call fails, and gives the answer back in the
client's own dialect. Around that path stand two completion caches, a tiered memory of
each session and audit hooks.

This directory holds TLA+ models of the parts of it that are hard to test, TLC runs that
check them on small instances and TLAPS proofs that carry the main properties to every
instance. `PROJECT.json` maps each definition to the lines it models; paths below are
under `src/src/modelmeld/`.

## 1. The system

One process, one event loop. Every request is a coroutine; every `await` is a point where
others run. There are no threads that share the state below, so what can go wrong is what
changes between two awaits, plus what the outside does: providers fail, streams break,
clients leave, the database raises.

| Component | Source | State it keeps | Operations |
|---|---|---|---|
| Request handlers | `api/routes/{chat,messages,responses}.py`, `hooks.py` | per request: decision, served model, cache key, completion | reject, route, look up, call, fail over, stream, store, fire event, record |
| Completion caches | `cache/` | exact: key to completion (LRU, TTL); semantic: vectors per tenant and model | get, set, search, store |
| TieredRouter | `router/base.py` | `_health_cache`: one `_HealthState` per tier | route, probe, route_after_failure |
| CapabilityRouter, scout, registry, policy | `router/capability.py`, `scout/` | provider health by name; registry, read-only | decide, route, route_after_failure |
| Passthrough | `api/subscription_passthrough.py` | none: an adapter and a SingleAdapterRouter per request | resolve |
| Memory | `memory/` | per session: turns (L0), facts (L1), summary (L2) | record, assemble_context, run_once, clear_summary |
| Translators | `translation/openai_anthropic.py`, `translation/responses_stream.py` | per stream: open block or items, numbering, finish reason; none for messages | translate one event or chunk, finalize; translate a request or a response |
| Adapters | `adapters/` | none that outlives a call, but the Codex adapter's token and client | chat, stream_chat, health, retry, reload a token |
| Registry feed | `scout/feed.py`, `api/server.py` | a file on disk, the registry and router in force | start, read the file, fetch, verify, write, swap |
| Stall detection | `scout/stall.py`, `scout/session_state.py` | per session: when it was seen, whether it was reported; TTL and cap | a request of a session |
| Command line | `cli/setup.py`, `cli/doctor.py` | the files it writes, a transient gateway | setup of three tools, doctor |
| The rest | config, licensing, metrics, scrubber, token counter, schemas | read-only or counters | pure functions, start-up, I/O |

How they interact. A handler parses and rejects, injects memory (`assemble_context`),
redacts, asks the router for a decision, then (not streaming) the exact cache, the semantic
cache and the adapter in that order. On an `AdapterError` it calls `route_after_failure`
once and calls the second adapter. A completion is stored in both caches, reported to the
hooks and recorded in memory, in that order; a stream is never cached and can fail over only
before its first chunk. The routers are shared by all handlers. The summarizer worker is
library code that a deployment runs next to the gateway against the same store. A
`/v1/messages` stream passes through one or two translators on its way out.

What is hard in it, and what would make it correct:

- *Handlers*: locals computed from the first decision are used after a failover replaced
  it; three endpoints share two caches; a client may leave in any `yield`. Correct: each
  request has one outcome, at most one event, a memory write only for an answer a model gave;
  caches never cross tenants or models; headers tell the truth.
- *TieredRouter*: several handlers probe and charge one health cache and hold references
  across an awaited probe. Correct: a tier is out only for a cause; a tier that is up comes
  back.
- *Memory*: run_once reads the summary twice and the log once and writes back much later;
  readers are torn in the same way; record() can fail half-way. Correct: a summary stands for
  exactly a prefix of the log; a context neither repeats nor drops turns.
- *Translators*: blocks are renumbered twice, streams end anywhere. Correct: the client gets
  a well-formed stream, every piece in its own block, with the upstream's stop reason.
- *CapabilityRouter*: rows of (model, provider) are ranked, but fallbacks are handed on as
  models and looked up again; health is kept by provider name and shared with per-request
  (BYOK, passthrough) adapters. Correct: whatever detour a request takes, its ceiling, its
  exclusions and its needs hold; a provider is only called on a fresh verdict, and comes back.
- *Adapters*: a call fails, is retried, waits and is classified by what it raises; calls in
  flight share one token that somebody else rotates. Correct: a rejected token is not sent
  again; the router is told of each failure in the class its cause calls for.
- *Feed*: verified documents go to the disk and come back after a restart, while they expire,
  the file ages and a kill may cut it. Correct: nothing that was not vouched for is routed
  on; a gateway that is left alone comes up.
- *Stall store*: it evicts inside the call that adds a session. Correct: a session is
  reported once per stay, and leaves for its age or for newer ones.
- *Command line*: a setup writes several files and boots a gateway, and may be killed or
  fail between any two steps. Correct: a setup that says it succeeded leaves files that
  agree and work; no gateway is left behind.

`PROJECT.json` lists the hazards at their lines, with the properties that would show them
going wrong, and the three nothing covers.

## 2. The modules

Each module models one component; a step ends where the code can suspend (or, for a
translator, at each event it yields).

### RequestPath, RequestLifecycle

`RequestPath` is the path of a request through any of the three handlers. `pc[r]` is where
its handler stands, `decision[r]` the routing decision in force, `servedModel[r]` the local
taken from the first one, which also keys the caches; `exact` and `semantic` are the shared
caches, `events` and `recorded` count what the hooks and the memory were given.

| Actions | Code |
|---|---|
| `Reject`, `RouteFails`, `Route` | header and policy checks, `router.route`, `RouterError` |
| `ExactMiss/Hit`, `SemanticMiss/Hit`, `Replay` | cache lookups, the semantic hit's copy into the exact cache, the answer from a hit |
| `Respond`, `CallFails`, `Failover`, `GiveUp` | `_completion_with_failover` and its messages twin |
| `StoreExact`, `StoreSemantic`, `Report`, `Record` | what follows a completion |
| `OpenStream`, `EndStream`, `BreakStream`, `FailStream`, `Disconnect` | the SSE generators |

The router is left open: any model may be decided and any other on failover. A cache may miss at
any time, which covers eviction, expiry and failing backends; similarity of prompts is any
relation within a tenant and a model. A completion remembers what it was produced for and by, and
has its `label`, the `model` field that chat and responses pin to the decision's model while
messages keeps what the adapter echoed, an upstream slug (`pinned` says which). What a client
reads in the body is `BodyModel`: messages puts the local `served_model` over the label.

`RequestLifecycle` is the abstract specification: every request has one outcome
(rejected, failed, replayed, answered or cut), at most one event, and enters memory once, only
as an answer and only after its event. `ImplementsLifecycle` maps `RequestPath` onto it.

### TieredRouter

The health cache, callers with one request in hand each, upstreams that go down and come
back, and a clock. `Walk` is the loop of `route()` up to the next awaited probe, `Probed` and
`Charged` are what a probe and `route_after_failure` write. A `_HealthState` object has a
generation, because two probes that both found no object create one each and the later one
replaces the earlier, while a probe that holds a replaced object writes to nothing. An age is
kept up to `TTL`, since only `age < TTL` is ever asked; `elapsed` is how long ago a probe read
`now`. `RoutePassthrough` is a handler's request through a `SingleAdapterRouter`, whose
failure the handler still hands to the persistent router.

### CapabilityScout, CapabilityRouter

`CapabilityScout` is `choose()`, which awaits nothing: operators over a registry given as a
constant list of rows, with both of its indexes (`Live` is `_by_key`, `ById` is `_by_id`),
the policies (`Pool`, `Bar`), the filters (`Qualifies`), the ranking (`Before`, `Position`)
and what comes out (`Chosen`, `Fallbacks`). Scores are percentages, costs and latencies
whole numbers; the ranking by latency is scaled by 100 and the median by 2, so that it stays
in the integers.

`CapabilityRouter` is the router around it: the health cache by provider name, callers with one
request in hand, upstreams and a clock as in TieredRouter.

| Actions | Code |
|---|---|
| `Route` | `route()` up to the first awaited probe: the scout's choice, then `Resolve`, the walk of `_resolve_or_fail` |
| `ProbeReturns` | the rest of `_is_healthy`, then the walk goes on |
| `FirstCallFails` | `route_after_failure`: the provider is marked, the walk starts again without the BYOK adapters, which the handlers do not hand on |
| `SecondCallFails`, `CallRefused`, `CallSucceeds`, `Respond` | the handler's ends |
| `RoutePassthrough` | a request through a `SingleAdapterRouter`, whose failure marks the operator's provider of that name |

`chosen` is the `CapabilityDecision` as `with_model` leaves it, `wire` what is probed or
called, with the row its slug comes from; they differ, because a fallback that is another
row of the same model does not become the decision's.

### Summarizer, SummaryLog

The memory of one session with the three kinds of coroutine on it: `record()` of requests,
`run_once` of workers, `assemble_context` of readers. With the in-memory store a chain of
store calls never suspends and is one action (`RecordInMemory`, `FetchInMemory`,
`AssembleInMemory`); with Postgres each call is an action of its own and may raise. A turn is
its position in the log, the text of a summary the set of turns folded into it.

`SummaryLog` is the abstract specification: a log that grows, and a summary of its first
`covered` turns that only moves forward, by at least a threshold's worth of turns, until it is
cleared.

### MessagesStream, AnthropicWire

A streamed `/v1/messages` answer. From an Anthropic upstream the events go through
`AnthropicStreamTranslator` (blocks to tool indexes) and then
`OpenAIToAnthropicStreamTranslator` (tool indexes to blocks); from an OpenAI upstream only
through the second. One event in, one chunk in hand, one event out per step; `finalize` is
the `Final...` actions. `client` is what the events sent so far amount to, `sent` is what the
upstream sent. A chunk carries one part, because `translate_chunk` handles the content and
the tool calls of a larger one in turn. An Anthropic upstream keeps to the order of its own
protocol. An OpenAI upstream sends text, tool calls and their arguments in any order, with the
calls numbered 0, 1, ... as they begin; arguments that come when their call is not what was begun
last are `late`, and the source counts on there being none (section 3, `messages_late_arguments`).

`AnthropicWire` is the abstract specification: the order of SSE events an Anthropic client
may be sent, one block at a time and deltas for the open one. It has one licence the protocol
does not give: a piece its source gave away late may reach a tool call's block that is stopped.

### ResponsesStream, ResponsesWire

A streamed `/v1/responses` answer. A chunk is translated as a whole (`TextPart`, `ToolPart`,
`OtherChunk`) into events that are then sent one by one (`Yield`); `OpenFails`, `Breaks`, `Ends`
and `Finalize` are the ends. `translator` is the object, `events` what it made and the
generator still holds, each event under its sequence number, `seen` what the client made of
what it was sent and `expected` the number it waits for. An output item is
opened when its first part comes and all are closed at the end, so several are open at a
time, other than in an Anthropic stream; providers are assumed to number the tool calls of a
message from 0 on.

`ResponsesWire` is the abstract specification: created, items added at consecutive indexes,
deltas for open ones, all closed with the whole of what their deltas brought, completed with
the items; sequence numbers without a gap.

### MessageTranslation

A conversation without streams, over `/v1/messages` or `/v1/chat/completions`. A client sends its
whole history in every request, and each turn may be routed to either kind of upstream (`Ask`).
What that is sent (`Request`) depends on both:

| | OpenAI-compatible upstream | Anthropic upstream |
|---|---|---|
| `/v1/messages` | `from_anthropic_request` (`FromAnthropic`) | the client's own body, its system messages moved to the front (`_build_params` with `native_request`, `Hoisted`) |
| chat | the client's messages | `to_anthropic_params` (`ToAnthropic`) |

The answer comes back through `from_anthropic_response` and, for a client of `/v1/messages`,
`to_anthropic_response` (`TranslateAnswer`), and becomes the client's next assistant turn. A
message is a sequence of blocks, text and tool calls and results; joined texts are sequences of
texts, since a join keeps the order and forgets the seams. `ConversationSurvives` compares what
each party has with what the other one said: `Said` is what the messages of a role hold of a kind
in a turn, in however many messages, and each answer begins a new turn; a chat message is read as
the blocks it stands for (`Heard`). Images on chat, the memory context and redactions are not in
this module.

### ProviderCalls

Calls of the OpenAI and Anthropic adapters (`sdk`), of the Anthropic adapter with a
subscriber's token (`oauth`) and of the Codex adapter, from `retry_async` to the error the
handler gets: `Begin`, `Send`, `Succeeds`, `Fails`, `StreamBreaksOff`, and for Codex
`Rejected`, `Reload` and `Resend`, while somebody else rotates the token in `auth.json`
(`Issue`, `Rotate`). A stream is tried again only until it is open. Errors are told apart as
the code tells them: by status, or by the class of the exception.

### RegistryFeed

The lifespan of gateways, one after the other, on one host: read the cache file, ask the
server, validate, write, swap registry and router; killed at any step, also within a write,
which leaves a file cut in its text or within a character. The operator starts a gateway again;
nothing in the repository does. The server answers with any document that was published, or not at
all; documents expire and the file ages.

A document may carry one `flaw` its publisher signed. `schema` stands for what is looked for and
refused. The others raise out of `fetch`, which ends the start: `envelope` (a `valid_until` that
is no string or has no time zone) wherever the document is looked at; `registry` (rows `from_json`
fails on with anything but a `KeyError` or `ValueError`) unless it has expired; `version` (a
`feed_version` that is no number) after it was written to the cache, and again from there.

### SessionStall

The detectors over the history a request carries, `SessionStallStore` with expiry and cap, and
the two hooks (`-auto` requests on messages and chat). A hook awaits nothing, so a request is
a step. A history may be compacted or started over by its client. Thresholds of 0 are
accepted by `_int_env`, so the model has them, and what `detect_stall` then raises
(`LoopRaises`).

### CompletionCache

`InMemoryCompletionCache` with its clock: `Hit`, `Miss` and `Set` under its lock, an entry
with a time to live of its own, the least recently used first. It is compared with the
history of the calls, not with another cache. RequestPath takes from it that a lookup
answers what was stored or nothing.

### Setup

`modelmeld setup` for Claude Code, Codex and self-hosting, one after the other on one
machine: arguments and environment, each file written in three steps (`OpenTemp`, `WriteTemp`,
`ReplaceFile`), the transient gateway and the process it is (`Boot`, `GatewayComesUp`,
`GatewayDies`), the smoke tests, `finally`, Ctrl-C and kill. The first two sections of
`modelmeld doctor` only read; their verdicts are `EnvironmentIsClean` and `CacheIsGood`, which
`ReadyAfterSetup` uses. Between setups the operator sources the scripts or does not. A key is
good or bad, a URL is what `_validate_base_url` tells apart.

## 3. The runs

| Run | Question | Bounds | Size |
|---|---|---|---|
| `request_path` | outcomes, events, caches and headers of interleaved requests | 2 requests of every kind (3 endpoints x streaming x cacheable x overrides x 2 tenants x 2 prompts), 2 models | 1.6 M states |
| `request_failover_cached` | violated: `ReplayedForItsModel` | 2 cacheable requests, 1 tenant, 1 prompt | |
| `request_replayed_slug` | violated: `CachedBodiesAreClean` | same | |
| `request_silent_disconnect` | violated: `EveryRequestIsReported` | same, every kind | |
| `tiered_router` | who is out and for what; who comes back | 2 callers, 2 tiers, threshold 2, TTL 2, 1 fault | 0.5 M states, liveness |
| `capability_router` | what is called on a detour, on whose word; who comes back | 2 callers, 4 requests, 7 rows on 5 providers, TTL 1, 1 fault | 0.35 M states, liveness |
| `capability_exclusions` | violated: `ExcludedStaysOut` | 1 caller, the same registry, `together` configured and excluded | |
| `summarizer_race` | the version check under racing workers, and what a context holds while they fold, both backends | 2 workers, or 1 worker and 1 reader; 2 requests, threshold 1, cap 1, 2 attempts, 1 clear | refinement, liveness |
| `summarizer_clear_race` | violated: `SummaryNeverSkips` | 2 workers, Postgres, 1 clear | |
| `host` | what surrounds the request path, eight parts of which a behaviour is one | see below | 1.5 M states, liveness |
| `messages_late_arguments` | violated: `DeltasOnOpenBlocks` | an OpenAI upstream, 2 tool calls, 2 pieces | |
| `feed_never_raises` | violated: `FetchNeverRaises` | the feed alone, 1 document without flaws, 1 stop | |

The parts of `host` (module `MCHost`) share no state; they are one run because each alone is
small. A variable `part` is chosen at the start and the other parts stay as they are.

| Part | Bounds |
|---|---|
| setup | 2 setups of any tool, 1 open and 1 frontier provider, 3 kinds of base URL |
| feed | 2 documents, each without a flaw or with one of 4 kinds, 2 stops of the gateway |
| calls | 2 calls, 2 attempts, 2 rotations of the token, 3 kinds of adapter |
| stall | 3 sessions, store of 2, TTL 1, histories of 3 turns with 3 kinds of tool, threshold 2, 3 requests |
| cache | 3 keys, 2 entries, TTL 0 or 1, 5 calls |
| messages | 3 blocks, 4 pieces, both upstreams |
| responses | 4 parts, the text and 2 tool calls |
| translation | both APIs, 3 user turns, 2 answers of up to 3 blocks |

Why these bounds are enough. Requests meet only in the caches, pairwise: one stores, one replays;
two tenants, two prompts and two models are what a wrong key confuses. Drift along similarity
needs one store and one hit that would be embedded. The router's races are between two probes, or
a probe and a failure, of one tier; a threshold of 2 separates "one failure" from "at the
threshold", a TTL of 2 lets a slow probe be born old, one fault is one outage or one blip;
CapabilityRouter only tells fresh from expired, so a TTL of 1 is enough there, and failures with a
customer's credentials are not bounded at all. Its registry holds what a walk can meet: a model on
three providers whose last row, the one it is looked up as, is not configured, dear and without
tools; two models on one provider; a disabled row; frontier rows with and without the operator's
key. Two workers race pairwise; two attempts are one retry; a clear between the reads of one is
the ABA. Three requests are up to six turns: two folds of two turns, and a hot zone past its cap
of 2. Three blocks hold text between two tool calls, so that block numbers and tool indexes
differ, and arguments that come after either. A second setup is what meets the files of a first; a
second document is what a server can fall back behind, and the second start is what reads the
first one's file. Two calls share a token pairwise, two attempts are one retry, two rotations one
reload that is late. A third session makes a store of two choose which to evict, by age or, seen
at one time, either; for more, `EvictionHasCause` shows it of every cap. Three turns hold a run of
the threshold and a turn that ends it. With a threshold of 2 nothing raises: that only a threshold
of 0 does is shown by `VerdictIsTheHistorys`, not by the run. A cache of two entries and a third
key evict the less recently used one. Two calls and the text are three items of which the text
need not come first. Three user turns carry two answers back, with the results of up to three tool
calls. Where a proof exists (section 5) the bounds do not matter.

Symmetry: requests are interchangeable in every run that uses it, and tenants, prompts and
models are as well; it is not used with liveness properties.

What the passing runs show:

- `ImplementsLifecycle`: through failovers, breaks and disconnects no request is reported
  twice, none is recorded without an answer or before its event.
- `CachesKeepTenantAndModel`, `AnswersDoNotDrift`: the shared caches file an answer under
  the tenant it was made for and, failovers aside, the model that made it; a semantic hit
  travels one similarity and no further, because it is copied to the exact cache only.
- `AnsweredAsAnnounced`: `x-modelmeld-routed-model` names the model that answered, and so does the
  body, but for that of messages after a failover. A replayed answer keeps to its header unless a
  failover got it; replayed by messages its body names the header's model, replayed by chat the
  one that gave it, if the handler that stored it pinned the field. That messages does not is
  `request_replayed_slug`.
- `OutForCause`, `BackInRotation`: whatever races the probes run, a tier is out only after an
  outage or a threshold of failures; a tier that stays up and is preferred is used again,
  once passthrough requests (below) stop.
- `SaverCeiling`, `SlugIsTheProviders`, `QualifiedIfOneRow`: through any chain of detours a
  saver request stays with open-source providers, the slug fits the provider, and a model
  with one row is fit for the request. The first needs `TiersApart`, which the shipped
  registry has: no model on providers of both tiers. The last cannot be had for models with
  more rows (below).
- `VouchedFor`, `BackInRotation`: no call, first or second, goes to a provider no probe
  vouched for within `health_ttl`; a provider that stays up is called again, once requests
  with credentials of their own stop.
- `SummaryFoldsPrefix`, `HighWaterInLog`, `ImplementsSummaryLog`, `RunOnceEnds`: the version
  check rejects every torn pair of reads as long as versions do not restart; a lost race
  ends.
- `ContextRepeatsNothing`, `ContextGapIsSummarized`, `ExchangesInOrder`: a context shows no
  turn twice; a turn it shows nowhere is in the stored summary by then; an answer is never
  logged before its question. Half an exchange may be in the log, since `record()` swallows
  what fails between its two appends; the property is about order alone.
- `LookupsMatchHistory`: a hit returns what was stored last under its key, in time; a miss was
  due, for want of a store, of time or of room.
- `ContentSurvives`, `StopReasonSurvives`, `ImplementsAnthropicWire`, `OutputHoldsStream`,
  `ImplementsResponsesWire`: a client gets a well-formed stream of its dialect, with every piece
  in its own block or item, in order, and the upstream's reason for stopping. The one exception is
  in `AnthropicWire`: late arguments go to the block of their call, but it may be closed.
- `ConversationSurvives`: neither party's words, calls or results are lost, reordered
  within what the dialects keep, or attached to another call, whether a request is translated,
  forwarded natively or sent as it is.
- `RejectedTokenNotResent`, `FailuresClassified`: calls that reload a token under each other
  send no rejected one again; a failure reaches the handler as transient or permanent as its
  cause is, with two exceptions that are stated in the property because the code has them: a
  throttled call on the OAuth paths is permanent, and what breaks an open Codex stream is no
  `AdapterError`.
- `RegistryVouchedFor`, `ComesUp`: the registry in force, and the router built from it, is
  the seed or a document that was signed, without a flaw and not expired when the gateway started.
  A gateway that the operator starts again whenever a start failed comes up once it is not
  stopped any more, at the latest when a file that cannot be read is older than the TTL; unless a
  document was published that raises, which may end every start.
- `VerdictMatchesHistory`, `ReportedOncePerStay`, `EvictedForCause`: what is detected is what
  the history says, counted independently; a stuck session is reported once for each stay
  in the store, and it leaves only when its time is over or the cap needs its place.
- `ReadyAfterSetup`, `VerifiedConfigRoutes`, `NothingLeftRunning`: see section 1. The second
  holds when the environment exports no key that was not given, which its premise says.

Deadlock is checked in the routers' and the summarizer's runs. It is not in the runs of
RequestPath and MessagesStream: there, requests and streams end.

### What the violation runs show

Statements of the code's own comments and docs that the code does not keep:

- `request_failover_cached`. `cache/base.py:94-97` wants an answer keyed by the served model.
  `served_model` and the key are taken before the call and not again after a failover, so
  the fallback's answer is replayed as the first model's once that one is healthy again.
- `request_replayed_slug`. `chat.py:603-607` pins the model field before caching "so cached bodies
  are clean too". Messages stores what its adapter echoed in the same cache, and chat
  replays it as it is: the body shows the upstream's slug.
- `messages_late_arguments`. `openai_anthropic.py:984` promises Anthropic's order of events, and
  `:1223` takes the block of a continuation to be open. Arguments of two calls that alternate, or
  with text in between, are emitted on a block that is closed. The comment there knows, and
  expects no OpenAI stream to do it; other providers may, and `test_responses_stream.py:229-241`
  does.
- `request_silent_disconnect`. `hooks.py:41` promises an event for every request that
  resolves. A cancelled stream generator fires none.
- `capability_exclusions`. `docs/routing-hints.md:27` forbids an excluded provider for the
  request. The ranking leaves its rows out, but a fallback is looked up by model and may
  come back as a row on that very provider: with deepseek-v4-pro of the shipped registry on
  vllm, fireworks and openrouter and openrouter excluded, one failing probe is enough.
- `summarizer_clear_race`. `summarizer.py:7-8` trusts the version check to keep concurrent
  workers safe; after `clear_summary` versions start again at 0 (Postgres).
- `feed_never_raises`. `scout/feed.py:183` and `:306` say that fetching and reading the file
  never raise. A file cut within a UTF-8 character makes `json.loads` raise a
  `UnicodeDecodeError`, which is not caught: every start fails until the file is older than
  its TTL.

Seen while modelling, and kept by no run: failures of passthrough calls are charged to the CLOUD
tier, or the provider of that name, of the persistent router, which
`subscription_passthrough.py:14-16` calls unaffected. After a failover the body of messages still
names the model of the first decision, the header that of the fallback, although
`messages.py:727-730` has them match. `cache/in_memory.py:6` has expired entries evicted first, but
`set` evicts from the front and asks for no expiry, and an entry that was read stands at the end
without being renewed.

Also seen: with Postgres an upsert between the two reads of a
reader drops turns from one context, although `memory/base.py:109-111` has L3 cover what the
summary does not (`ContextGapIsSummarized` is what holds). The docstring of `responses_stream.py`
closes items in the order of their output_index, `finalize` closes the text first. What breaks an
open Codex stream is not wrapped in an `AdapterError`; a throttled call on the OAuth paths is
raised as permanent. Signed feed documents raise out of `fetch` in the ways listed under
RegistryFeed, which `ComesUp` excepts. On `/v1/messages` the memory context and redactions are put
into the internal request, while an Anthropic upstream is sent the client's own body
(`messages.py:544-550`, `anthropic_adapter.py:361-394`). `scout/stall.py:247` has a loop imply a
last turn that calls a tool; `MODELMELD_STALL_REPEAT_THRESHOLD=0` is accepted, a run of 0 reaches
it, and `assistant_obs[-1].tool_names[0]` raises an `IndexError` out of a hook that "Changes
NOTHING about routing", so that the first request of a conversation fails (`VerdictIsTheHistorys`
shows that only this threshold does that).

## 4. Fairness

Safety needs none. Of the passing runs four check liveness.

- `Summarizer!FairSpec`: weak fairness of `RunStep(w)`, the continuation of a `run_once`
  that has begun. The event loop resumes whatever is ready, and store and model calls come
  back or raise. Beginning a run is not fair: nothing in the gateway schedules one. Failing
  is not fair either.
- `TieredRouter!FairSpec` and `CapabilityRouter!FairSpec`: weak fairness of `Tick` (time passes)
  and of `Finish(c)` (health
  probes and calls have timeouts, so a handler's await ends, in whatever way). Requests
  need not come; `BackInRotation` assumes in its premises that requests preferring the tier, or
  for which the provider is the scout's choice,
  keep coming and that the upstream stays up.

- `RegistryFeed!FeedSpec`, and `HostSpec` for it: weak fairness of `GatewayStep` (start-up
  goes on: the event loop resumes what is ready and the HTTP client has a timeout) and of
  `CacheAges` (time passes). Starting a gateway, publishing and stopping are not fair, and
  nothing in the repository starts a gateway again: that somebody does is the premise of
  `ComesUp`, `[]<>(gateway # "down")`.

`RequestPath` and the stream modules claim no liveness: a handler's end is the provider's, and
a client may leave. `Setup` claims none either: an operator may leave a prompt unanswered.

## 5. The proofs

TLAPS checks, for every value of the constants under the `ASSUME` of each module (thresholds,
retries and TTL positive, as the constructors enforce; kinds, tiers and backends among
those the code has):

- **SummarizerProofs**: `TypeCorrect`, `SummaryIsPrefix`, `HighWaterExists`,
  `MemoryIsSummaryLog`, `NothingIsRepeated`, `GapIsSummarized`, `ExchangesAreInOrder`. That
  the summary folds a prefix is not inductive, since an upsert writes what its worker read
  long ago. The invariant adds what those reads are worth: versions tell summaries apart
  while no clear has happened (`VersionsTellSummaries`), a worker's summary stands for a
  prefix, and if the version it read is still the stored one its turns follow that prefix
  (`WorkersHoldPrefix`), and its slice is inside the log and a threshold long
  (`WorkersHoldSlice`). For contexts it says what each reader's reads are worth while the
  log and the summary move on.
- **RequestPathProofs**: `TypeCorrect`, `CachesAreKept`, `NoDrift`, `AnnouncementsHold`,
  `RequestsFollowLifecycle`. What a cache holds is what a handler put there and what a
  handler replays is what a cache held, so `RequestSound` says of each request what its
  locals are worth at each place of its handler, and how often it has been reported by then;
  each step is of one request and leaves the others' locals alone (`OthersStay`, `OnlyOne`).
  `LabelsSound` says what the labels in the caches are worth, whoever stored them.
- **TieredRouterProofs**: `TypeCorrect`, `TiersOutForCause`. The strengthening is that a tier
  that is down has had an outage (`DownHasFailed`), which is what a failing probe finds.
- **CapabilityRouterProofs**: `TypeCorrect`, `SaverIsCeiled`, `SlugsFit`, `LoneRowsQualify`,
  `CallsAreVouched`, for every registry and every request. What is on the wire need not be a
  row the scout let through, but its model has such a row; that is `Planned`, and it must
  hold of the decision too, from which a walk starts again (`TasksPlanned`).
  `HealthIsVouched` says what a fresh entry is worth: the probe behind it is no older than
  the entry claims, although its clock was read before the probe.
- **MessagesProofs**, of both modules about `/v1/messages`. MessagesStream: `TypeCorrect`,
  `ContentIsKept`, `ReasonIsKept`, `MessageIsAnthropicWire`. The translator emits a
  continuation on the block its table gives, whether or not it is open. The invariant shows that
  it is the block of its call (`CallsAgree`), and the open one unless the piece is late: tool
  indexes are given in order, so a continuation in turn is for the last tool call, and the last
  tool call's block is the open one until something else opens (`BlocksAgree`); only an OpenAI upstream's
  pieces are ever late (`LateAgrees`). `ContentAgrees` says what the chunk in
  hand still has to bring.

  MessageTranslation: `TranslationTypeCorrect`, `ConversationIsKept`, for conversations, answers
  and system prompts of any length. A request is made of a dialogue message by message
  (`Through`), and what is said in a turn is said message by message, so a fact about all
  dialogues is shown by adding one message to any dialogue. `NothingLost` does that once, for any
  translation of messages one by one that says the same (`Translates`); `FromTranslates`,
  `InPlaceTranslates` and `ToTranslates` are the three that the code has, and with the chat
  client's own messages they are all cases of `RequestSays`: whatever the API and the upstream,
  what it is sent says what the dialogue says. A prefix of a dialogue is not in the order strict
  upstreams demand, since its last calls may be open: `OrderedSoFar` says what is true of
  prefixes, and that calls are answered at once by what follows. The invariant
  (`TranslationInductive`) is that the client leads a dialogue these facts are about, also after a
  refusal took its last turn back.
- **ResponsesStreamProofs**: `ResponsesTypeCorrect`, `OutputIsHeld`, `StreamIsResponsesWire`,
  for any number of parts and tool calls. The translator runs ahead of the client: a chunk
  becomes several events at once, and `finalize` makes the closing events of all items in one
  list. So an invariant about the next event is not inductive. `Pending` says that the events
  not yet sent, each allowed where the ones before it lead (`Leads`), bring the client to
  where the translator is: to the same items (`InStep`) or to the completed response (`Done`).
  What `Finalize` flattens is closed item by item, in an induction over the items
  (`ClosingLeads`). `Placed` gives each item an output index of its own, `HoldsPieces` says that it
  has all of what the parts so far brought for it, in their order.
- **HostProofs**, one part for each component on the host and in the process that MCHost runs, and
  one for MCHost itself:
  - ProviderCalls: `CallsTypeCorrect`, `RejectedStaysUnsent`, `FailuresAreClassified`, for any
    number of calls, attempts and rotations. Tokens only get newer on their way from the
    issuer over `auth.json` to the adapter and to a call, so a reload that finds the token it
    was rejected with raises and any other gives a newer one.
  - SessionStall: `StallTypeCorrect`, `VerdictIsTheHistorys`, `ReportedOnce`,
    `EvictionHasCause`, for any store, sessions, thresholds and histories. A run at the end of
    a history is a maximum over its lengths, the count of the trailing errors a cardinality;
    that they say what `Looping`, `StuckOnErrors` and `EditsUnseen` say of the history is
    shown for every length. No entry is from the future, so those the cap leaves are at
    least as young as what it pushes out.
  - CompletionCache: `CacheTypeCorrect`, `LookupsMatch`, for any size, keys, times to live and
    sequences of calls. A lookup is decided by the entries and judged by all calls before it.
    The invariant joins the two: entries stand in the order of the last use of their keys,
    each is what the last `set` of its key made it (`IsLastStored`), and a key that was stored
    and has no entry has expired or gave way to as many other keys, used since, as the cache
    holds (`GoneForCause`).
  - RegistryFeed: `FeedTypeCorrect`, `RegistryIsVouchedFor`. A document that is in hand or on the
    disk was read (`Parsed`), but only one that gave a result (`Signed`) is swapped in: the flaw
    `version` shows in between. What is in force must be carried back to what was in hand when it
    was validated, and that of a whole file to the gateway that wrote it; expiry goes on
    meanwhile, so the invariant speaks of what had expired when this gateway started.
  - Setup: `SetupTypeCorrect`, `SetupLeavesReady`, `VerifiedRoutes`, `NoGatewayLeft`, for any
    number of setups, keys and URLs. `StepSound` says which steps a tool takes, `FilesSound`
    what is written by each, `DiskSound` what earlier setups may have left in the other files.
  - MCHost: `HostComposes`, `HostTypeCorrect`, `HostKeepsConfigs`, `HostKeepsSharedState`,
    `HostKeepsAnswers`. A step of the host is a step of one part and leaves the variables of the
    other seven alone (`StepOfEachPart`), so a behaviour of `HostSpec` is one of each part's
    specification; with the parts' theorems, those of the two modules about streams and messages
    included, it keeps every invariant and action property of the run, and implements both wire
    specifications (AnthropicWire with its licence), for all constants. Of the feed only the
    safety part carries over: its fairness is the host's.
- **DataLemmas** has what these need of numbers, sequences and finite sets. Induction is
  there a fact about sets of naturals (`Induction`, from the well-foundedness of their order),
  so that it can be used for any formula: with the set of the numbers it holds for. From it
  come induction over sequences (`SeqInduction`), the greatest and least element of a bounded
  set, and what `FlattenSeq` comes to.

Only model-checked: the liveness properties (`BackInRotation`, `RunOnceEnds`, `ComesUp`: fairness
is out of this prover's reach), and of course the violations.

## 6. What is not modelled

- Exceptions the handlers do not name (a 500 without an event), memory-inactive requests
  (a subset of the behaviours: `Record` writes nothing), `count_tokens`,
  header texts and wire formats. Prompts are taken after redaction.
- Time and the LRU order of the caches in RequestPath; CompletionCache has them on their own. No
  backend of the semantic cache is in the repository, so its expiry is not modelled.
- The text of contexts and summaries, facts (L1), tenants of the store (one session is
  modelled, and sessions share nothing); the SQL inside a Postgres store method, and two
  processes on one database: `append_turn` takes its index and writes under a lock of the
  process only. Nothing in the repository says what should hold then.
- The HTTP code of adapters, the length of a backoff, and the outcome of a probe between its
  start and its return: a probe says what the upstream is like when it returns.
- In streams: usage counts, made-up ids, a client that leaves (RequestPath has that). On the
  OAuth path an upstream `error` event is yielded like any other and ignored by
  `translate_event`; the stream is then finalized as complete, which `StreamEnds` covers and
  no property forbids.
- In MessageTranslation: images on chat, memory context, redactions, sampling parameters, tool
  definitions and `tool_choice`, cache control; seams of joined texts. Of Responses requests and
  non-streamed answers: everything, they are conversions field by field.
- How a session key is made of a request; what a model registry contains; signatures beyond
  whether they hold.
- A power loss: `_atomic_write_text` does not fsync, so what is shown of files holds of killed
  processes, not of machines that go down.
- In Setup, the start of the transient gateway is one step (`Boot`), and an interrupt within
  the step that stops it is left out; both are windows of a few statements.
- The prompts of `modelmeld setup`, section 3 of the doctor (it probes a gateway as the
  smoke tests do), file permissions.
- Components with status `not_modelled` in `PROJECT.json`, each with its reason: pure
  parsing (headers, classifiers, scrubber), data declarations, start-up wiring, read-only
  endpoints. They keep no state that two steps could disagree about.

## 7. Plan

Done, in this order: Summarizer with SummaryLog; RequestPath with RequestLifecycle;
TieredRouter; MessagesStream with AnthropicWire; CapabilityScout and CapabilityRouter; proofs
of each; Setup, RegistryFeed, ProviderCalls, SessionStall, ResponsesStream with ResponsesWire,
MessageTranslation, CompletionCache; proofs of the first four and of the Summarizer's contexts.

Then the proofs about histories and sequences: CompletionCache, the verdicts of SessionStall,
ResponsesStream with the refinement of ResponsesWire, MessageTranslation.

What would add most next:

1. `CapabilityScout` alone: the ranking against sorting in the order of the code, over all small
   registries.
2. `PostgresStore`: statements and two processes on one database, refining the atomic store
   in one process.
