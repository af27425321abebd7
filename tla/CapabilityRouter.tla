-------------------------- MODULE CapabilityRouter --------------------------
(***************************************************************************)
(* CapabilityRouter: let the scout choose a row, find an adapter for its   *)
(* provider, walk the fallbacks when there is none or it is believed       *)
(* unhealthy, and walk them again after a failed call.  Health is cached   *)
(* per provider name for health_ttl; adapter.health() suspends the request *)
(* while others read and write the cache.                                  *)
(*                                                                         *)
(* A caller is a route handler with one request in hand at a time.  Its    *)
(* BYOK adapters shadow the configured ones in route(); the handlers do    *)
(* not hand them to route_after_failure.  Time passes in ticks; an age     *)
(* that reaches TTL stays there, since only `age < TTL` is ever asked.     *)
(***************************************************************************)
EXTENDS CapabilityScout

CONSTANTS Callers,       \* concurrent route handlers
          Requests,      \* the requests they may get
          Asked,         \* what each asks for
          Passthrough,   \* the callers that get subscription-passthrough requests too
          SkipUnhealthy, \* CapabilityRouter.skip_unhealthy
          TTL,           \* CapabilityRouter.health_ttl, in ticks
          MaxFaults      \* bound on outages and blips

ASSUME RouterAssumption ==
    /\ Requests # {} /\ Asked \in [Requests -> Request]
    /\ Passthrough \subseteq Callers
    /\ SkipUnhealthy \in BOOLEAN
    /\ TTL \in Nat \ {0}
    /\ MaxFaults \in Nat

\* The providers whose adapter's health() says yes without asking the upstream.
Unprobed == {"anthropic", "stub"}

VARIABLES up,      \* [Providers -> whether the upstream is there for the operator's key]
          faults,  \* outages and blips so far
          health,  \* CapabilityRouter._health_cache
          task,    \* [Callers -> the request in hand]
          vouched  \* history: [Providers -> ticks since a probe last said yes]

vars == <<up, faults, health, task, vouched>>

-----------------------------------------------------------------------------
(* Values *)

Verdict == [healthy : BOOLEAN, age : 0..TTL]

\* No entry in the cache.
Absent == [healthy |-> TRUE, age |-> TTL]

\* One row to try: `rank` is the fallback it stands for, 0 for the chosen row; `slug` is the
\* row whose provider_model_id goes on the wire.
Attempt == [rank : Rows \cup {0}, model : {Registry[r].model : r \in Rows} \cup {""},
            provider : Providers, slug : Rows \cup {0}]

Nothing == [rank |-> 0, model |-> "", provider |-> "anthropic", slug |-> 0]

\* `chosen`: the decision as it stands; `wire`: what is probed or called; `rest`: the ranks
\* left if the probe says no; `failed`: the provider failed over from; `extra`: the BYOK
\* adapters the router was handed; `elapsed`: how long ago the probe read the clock.
Task ==
    [pc : {"idle", "probing", "calling", "ended"}, passthrough : BOOLEAN, req : Requests,
     chosen : Attempt, wire : Attempt, rest : SUBSET (Rows \cup {0}),
     failed : Providers \cup {"none"}, extra : SUBSET Frontier, elapsed : 0..TTL]

SomeRequest == CHOOSE q \in Requests : TRUE

Idle ==
    [pc |-> "idle", passthrough |-> FALSE, req |-> SomeRequest, chosen |-> Nothing,
     wire |-> Nothing, rest |-> {}, failed |-> "none", extra |-> {}, elapsed |-> 0]

TypeOK ==
    /\ up \in [Providers -> BOOLEAN]
    /\ faults \in 0..MaxFaults
    /\ health \in [Providers -> Verdict]
    /\ task \in [Callers -> Task]
    /\ vouched \in [Providers -> 0..TTL]

Init ==
    /\ up = [p \in Providers |-> TRUE]
    /\ faults = 0
    /\ health = [p \in Providers |-> Absent]
    /\ task = [c \in Callers |-> Idle]
    /\ vouched = [p \in Providers |-> TTL]

\* The scout's plan for each request.
Best == [q \in Requests |-> Chosen(Asked[q])]
Others == [q \in Requests |-> Fallbacks(Asked[q])]
Brought == [q \in Requests |-> Keyed(Asked[q])]
LookedUp == [r \in Rows |-> ById(Registry[r].model)]
Place == [q \in Requests |-> [r \in Others[q] |-> Position(Asked[q], r)]]

-----------------------------------------------------------------------------
(* The walk over the chosen row and the fallbacks *)

Primary(r) ==
    [rank |-> 0, model |-> Registry[r].model, provider |-> Registry[r].provider, slug |-> r]

\* Mutant: the fallback's model with the wire slug of the decision.
FallbackSlugKept(tk, r) ==
    {[rank |-> r, model |-> Registry[r].model, provider |-> Registry[k].provider,
      slug |-> tk.chosen.slug] : k \in LookedUp[r]}

\* lookup_fallback: the registry's one row for the fallback's model.
Fallback(tk, r) ==
    {[rank |-> r, model |-> Registry[r].model, provider |-> Registry[k].provider,
      slug |-> k] : k \in LookedUp[r]}

Attempts(tk, ranks) ==
    {tk.chosen : r \in ranks \cap {0}} \cup UNION {Fallback(tk, r) : r \in ranks \cap Rows}

\* The chosen row first, then the fallbacks in order.
Earlier(q, a, b) == b # 0 /\ (a # 0 => Place[q][a] < Place[q][b])

\* Mutant: what was once learnt never expires.
FreshForever(p, cache) == cache[p] # Absent

\* Mutant: what is not in the cache, or no longer, is taken to be healthy.
FreshAlways(p, cache) == cache[p] \in Verdict

\* The cache is only asked for health_ttl after it was written.
Fresh(p, cache) == cache[p].age < TTL

\* What is known of a provider before asking it: yes, no or ask.
Believed(tk, p, cache) ==
    CASE p = tk.failed \/ p \notin Configured \cup tk.extra -> "no"
      [] ~(p = tk.failed \/ p \notin Configured \cup tk.extra) /\ ~SkipUnhealthy -> "yes"
      [] ~(p = tk.failed \/ p \notin Configured \cup tk.extra) /\ SkipUnhealthy
           /\ ~Fresh(p, cache) -> "ask"
      [] OTHER -> IF cache[p].healthy THEN "yes" ELSE "no"

\* _build_decision: a fallback of another model becomes the decision's choice.
Calling(tk, a) ==
    [tk EXCEPT !.pc = "calling", !.wire = a, !.rest = {}, !.elapsed = 0,
               !.chosen = IF a.model = @.model THEN @ ELSE [a EXCEPT !.rank = 0]]

Probing(tk, a, rest) ==
    [tk EXCEPT !.pc = "probing", !.wire = a, !.rest = rest, !.elapsed = 0]

\* The request has its answer or its error.
Ended(tk) == [Idle EXCEPT !.pc = "ended", !.req = tk.req, !.passthrough = tk.passthrough]

\* The first attempt not known to be out is called, or probed first; with none left,
\* RouterError.
Resolve(c, tk, ranks, cache) ==
    LET open == {a \in Attempts(tk, ranks) : Believed(tk, a.provider, cache) # "no"}
    IN \/ /\ open = {}
          /\ task' = [task EXCEPT ![c] = Ended(tk)]
       \/ \E a \in open :
            /\ \A b \in open : b.rank # a.rank => Earlier(tk.req, a.rank, b.rank)
            /\ task' = [task EXCEPT
                 ![c] = IF Believed(tk, a.provider, cache) = "yes" THEN Calling(tk, a)
                        ELSE Probing(tk, a, {r \in ranks : Earlier(tk.req, a.rank, r)})]

-----------------------------------------------------------------------------
(* Actions *)

\* route(): what the scout chooses is resolved; the scout's error is a RouterError.
Route(c) ==
    /\ task[c].pc = "idle"
    /\ \E q \in Requests :
         LET tk == [Idle EXCEPT !.req = q]
         IN \/ /\ Best[q] = {}
               /\ task' = [task EXCEPT ![c] = Ended(tk)]
            \/ \E r \in Best[q] :
                 Resolve(c, [tk EXCEPT !.chosen = Primary(r), !.extra = Brought[q]],
                         Others[q] \cup {0}, health)
    /\ UNCHANGED <<up, faults, health, vouched>>

\* A passthrough request goes through a SingleAdapterRouter of its own, whose adapter has
\* the name of the operator's.
RoutePassthrough(c) ==
    /\ task[c].pc = "idle" /\ c \in Passthrough
    /\ task' = [task EXCEPT ![c] = [Idle EXCEPT !.pc = "calling", !.passthrough = TRUE]]
    /\ UNCHANGED <<up, faults, health, vouched>>

\* The request uses credentials of its own, not the operator's.
OwnKey(tk) == tk.passthrough \/ tk.wire.provider \in tk.extra

\* The key is not refused, as far as the operator's or a BYOK key goes.
KeyWorks(tk) ==
    tk.wire.provider \in tk.extra => Asked[tk.req].keys[tk.wire.provider] = "good"

\* adapter.health() comes back.
ProbeReturns(c) ==
    /\ task[c].pc = "probing"
    /\ LET tk == task[c]
           p == tk.wire.provider
           yes == p \in Unprobed \/ (up[p] /\ KeyWorks(tk))
           cache == [health EXCEPT ![p] = [healthy |-> yes, age |-> tk.elapsed]]
       IN /\ health' = cache
          /\ vouched' = IF yes THEN [vouched EXCEPT ![p] = 0] ELSE vouched
          /\ \/ /\ yes
                /\ task' = [task EXCEPT ![c] = Calling(tk, tk.wire)]
             \/ /\ ~yes
                /\ Resolve(c, tk, tk.rest, cache)
    /\ UNCHANGED <<up, faults>>

CallSucceeds(c) ==
    /\ task[c].pc = "calling"
    /\ OwnKey(task[c]) \/ up[task[c].wire.provider]
    /\ task[c].passthrough \/ KeyWorks(task[c])
    /\ task' = [task EXCEPT ![c] = Ended(task[c])]
    /\ UNCHANGED <<up, faults, health, vouched>>

\* A transient error: the customer's own limits, the upstream down, or a blip.
CanFail(c) ==
    /\ task[c].pc = "calling"
    /\ IF OwnKey(task[c]) \/ ~up[task[c].wire.provider]
         THEN faults' = faults
         ELSE faults < MaxFaults /\ faults' = faults + 1

\* route_after_failure: the adapter's provider is marked and the walk starts again, unless
\* the decision was not the scout's.
FirstCallFails(c) ==
    /\ CanFail(c) /\ task[c].failed = "none"
    /\ LET tk == task[c]
           p == tk.wire.provider
           cache == [health EXCEPT ![p] = [healthy |-> FALSE, age |-> 0]]
       IN /\ health' = cache
          /\ \/ /\ tk.passthrough
                /\ task' = [task EXCEPT ![c] = Ended(tk)]
             \/ /\ ~tk.passthrough
                /\ Resolve(c, [tk EXCEPT !.failed = p, !.extra = {}],
                           Others[tk.req] \cup {0}, cache)
    /\ UNCHANGED <<up, vouched>>

\* The second adapter fails: the client gets both errors, nobody tells the router.
SecondCallFails(c) ==
    /\ CanFail(c) /\ task[c].failed # "none"
    /\ task' = [task EXCEPT ![c] = Ended(task[c])]
    /\ UNCHANGED <<up, health, vouched>>

\* A PermanentAdapterError is the caller's own: no failover, no bookkeeping.
CallRefused(c) ==
    /\ task[c].pc = "calling"
    /\ task' = [task EXCEPT ![c] = Ended(task[c])]
    /\ UNCHANGED <<up, faults, health, vouched>>

\* The response is out; the next request arrives later.
Respond(c) ==
    /\ task[c].pc = "ended"
    /\ task' = [task EXCEPT ![c] = Idle]
    /\ UNCHANGED <<up, faults, health, vouched>>

Older(n) == IF n < TTL THEN n + 1 ELSE TTL

Tick ==
    /\ health' = [p \in Providers |-> [health[p] EXCEPT !.age = Older(@)]]
    /\ vouched' = [p \in Providers |-> Older(vouched[p])]
    /\ task' = [c \in Callers |->
         IF task[c].pc = "probing" THEN [task[c] EXCEPT !.elapsed = Older(@)] ELSE task[c]]
    /\ UNCHANGED <<up, faults>>

\* Whatever the operator's or a customer's key may reach.
Upstreams == Configured \cup Frontier

Outage(p) ==
    /\ up[p] /\ faults < MaxFaults
    /\ up' = [up EXCEPT ![p] = FALSE]
    /\ faults' = faults + 1
    /\ UNCHANGED <<health, task, vouched>>

Recover(p) ==
    /\ ~up[p]
    /\ up' = [up EXCEPT ![p] = TRUE]
    /\ UNCHANGED <<faults, health, task, vouched>>

Finish(c) ==
    \/ ProbeReturns(c) \/ CallSucceeds(c) \/ FirstCallFails(c) \/ SecondCallFails(c)
    \/ CallRefused(c) \/ Respond(c)

Next ==
    \/ \E c \in Callers : Route(c) \/ RoutePassthrough(c) \/ Finish(c)
    \/ \E p \in Upstreams : Outage(p) \/ Recover(p)
    \/ Tick

Spec == Init /\ [][Next]_vars

\* Probes and calls time out, handlers finish, the clock runs.
FairSpec == Spec /\ WF_vars(Tick) /\ \A c \in Callers : WF_vars(Finish(c))

-----------------------------------------------------------------------------
(* Properties *)

\* The callers whose request is at an upstream the scout chose.
Served(c) == task[c].pc = "calling" /\ ~task[c].passthrough

\* Rows of one model are all of one tier, as in the registry shipped with the package.
TiersApart ==
    \A r, s \in Rows :
      Registry[r].model = Registry[s].model =>
        (Registry[r].provider \in OpenSource <=> Registry[s].provider \in OpenSource)

\* policy.py on SAVER: "customer cannot be surprise-billed frontier rates".  However its
\* walk went, and although a fallback is looked up again by model alone, a saver request
\* without a threshold or a pin of its own is sent to an open-source provider.
SaverCeiling ==
    TiersApart =>
      \A c \in Callers :
        Served(c) /\ Asked[task[c].req].policy = "saver" /\ Asked[task[c].req].bar = None
            /\ Asked[task[c].req].pin = ""
          => task[c].wire.provider \in OpenSource

\* The slug on the wire is that provider's own name for that model, on the first call and
\* after any number of detours.
SlugIsTheProviders ==
    \A c \in Callers :
      Served(c) =>
        /\ task[c].wire.slug \in Rows
        /\ Registry[task[c].wire.slug].provider = task[c].wire.provider
        /\ Registry[task[c].wire.slug].model = task[c].wire.model

\* docs/routing-hints.md on x-modelmeld-exclude-providers: "Forbids the listed providers from
\* being chosen for this request".
ExcludedStaysOut ==
    \A c \in Callers : Served(c) => task[c].wire.provider \notin Asked[task[c].req].excluded

\* scout/capability.py on fallback_model_ids: "next-cheapest qualified models".  It holds of
\* the models that have one row in the registry: enabled, allowed, fit, on every detour.
QualifiedIfOneRow ==
    \A c \in Callers :
      LET wire == task[c].wire
      IN Served(c) /\ Asked[task[c].req].pin = ""
           /\ (\A r \in Rows : Registry[r].model = wire.model => r = wire.slug)
         => Qualifies(Asked[task[c].req], wire.slug)

\* A step that sends the request of c to an upstream, for the first time or after a failure.
Sends(c) == Served(c)' /\ (Served(c) => task'[c].wire # task[c].wire)

\* A request is only sent to a provider a probe vouched for within the last health_ttl,
\* whoever probed it and however long that took; after a failed call as well.
VouchedFor ==
    [][\A c \in Callers : SkipUnhealthy /\ Sends(c) => vouched'[task'[c].wire.provider] < TTL]_vars

\* Requests for which provider p is the scout's choice keep coming.
KeepsComing(p) ==
    []<>(\E c \in Callers :
           /\ task[c].pc # "idle" /\ ~task[c].passthrough
           /\ \E r \in Best[task[c].req] : Registry[r].provider = p)

\* A provider whose upstream stays up is called again, whatever failed before and however
\* its probes raced, once requests with credentials of their own have stopped.
BackInRotation ==
    \A p \in Configured :
      /\ <>[]up[p]
      /\ <>[](\A c \in Callers : task[c].pc # "idle" =>
                              ~task[c].passthrough /\ Brought[task[c].req] = {})
      /\ KeepsComing(p)
      => []<>(\E c \in Callers : Served(c) /\ task[c].wire.provider = p)
=============================================================================
