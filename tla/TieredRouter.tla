---------------------------- MODULE TieredRouter ----------------------------
(***************************************************************************)
(* TieredRouter: pick the LOCAL or the CLOUD tier for a request, skip a    *)
(* tier believed unhealthy, and fail over to the other tier when a call    *)
(* fails.  Health is cached per tier for health_ttl and refreshed by       *)
(* adapter.health(), which the event loop may suspend in for as long as it *)
(* likes while other requests read and write the same cache.               *)
(*                                                                         *)
(* A caller is a route handler with one request in hand at a time.  Time   *)
(* passes in ticks; an age that reaches TTL stays there, since only        *)
(* `age < TTL` is ever asked.  A _HealthState object has a generation: a   *)
(* probe that found no object replaces whatever object is there when it    *)
(* comes back, and a probe that holds a replaced object updates nothing.   *)
(***************************************************************************)
EXTENDS Integers

CONSTANTS Callers,       \* concurrent route handlers
          Passthrough,   \* those that get subscription-passthrough requests too
          Configured,    \* the tiers with an adapter
          Preferences,   \* the tiers the policy or the scout may prefer
          Unserved,      \* <<caller, tier>>: serves_model is false for the caller
          SkipUnhealthy, \* TieredRouter.skip_unhealthy
          Threshold,     \* TieredRouter.unhealthy_threshold
          TTL,           \* TieredRouter.health_ttl, in ticks
          MaxFaults      \* bound on outages and blips

Tiers == {"local", "cloud"}

ASSUME TieredRouterAssumption ==
    /\ Passthrough \subseteq Callers
    /\ Configured \subseteq Tiers
    /\ Preferences \subseteq Tiers
    /\ Unserved \subseteq Callers \X Tiers
    /\ SkipUnhealthy \in BOOLEAN
    /\ Threshold \in Nat \ {0}      \* the constructor raises otherwise
    /\ TTL \in Nat \ {0}
    /\ MaxFaults \in Nat

VARIABLES up,      \* [Tiers -> whether the tier's upstream is there]
          faults,  \* outages and blips so far
          health,  \* TieredRouter._health_cache
          task,    \* [Callers -> the request in hand]
          failing  \* history: the tiers that have had an outage

vars == <<up, faults, health, task, failing>>

-----------------------------------------------------------------------------
(* Values *)

Other(t) == IF t = "local" THEN "cloud" ELSE "local"

HealthState == [gen : Nat, healthy : BOOLEAN, failures : 0..Threshold, age : 0..TTL]

\* No entry in the cache.
Absent == [gen |-> 0, healthy |-> TRUE, failures |-> 0, age |-> TTL]

\* `passthrough`: the request came with a subscription bearer; `probe`: the generation of
\* the object the probe of `tier` found; `elapsed`: how long ago it read the clock; `rest`:
\* the tiers to try if the probe says no.
Task ==
    [pc : {"idle", "probing", "calling", "ended"},
     passthrough : BOOLEAN, preferred : Tiers, tier : Tiers, failover : BOOLEAN,
     rest : SUBSET Tiers, probe : Nat, elapsed : 0..TTL]

Idle ==
    [pc |-> "idle", passthrough |-> FALSE, preferred |-> "local", tier |-> "local",
     failover |-> FALSE, rest |-> {}, probe |-> 0, elapsed |-> 0]

TypeOK ==
    /\ up \in [Tiers -> BOOLEAN]
    /\ faults \in 0..MaxFaults
    /\ health \in [Tiers -> HealthState]
    /\ task \in [Callers -> Task]
    /\ failing \subseteq Tiers

Init ==
    /\ up = [t \in Tiers |-> TRUE]
    /\ faults = 0
    /\ health = [t \in Tiers |-> Absent]
    /\ task = [c \in Callers |-> Idle]
    /\ failing = {}

-----------------------------------------------------------------------------
(* _is_healthy and the walk over the tiers *)

\* Mutant: what was once learnt never expires.
FreshForever(t, cache) == cache[t].gen # 0

\* The cache is only asked for health_ttl after it was written.
Fresh(t, cache) == cache[t].gen # 0 /\ cache[t].age < TTL

\* What _is_healthy says without asking the adapter: yes, no or ask.
Believed(t, cache) ==
    CASE t \notin Configured -> "no"
      [] t \in Configured /\ ~SkipUnhealthy -> "yes"
      [] t \in Configured /\ SkipUnhealthy /\ ~Fresh(t, cache) -> "ask"
      [] OTHER -> IF cache[t].healthy THEN "yes" ELSE "no"

Probing(tk, t, rest, cache) ==
    [tk EXCEPT !.pc = "probing", !.tier = t, !.rest = rest,
               !.probe = cache[t].gen, !.elapsed = 0]

\* The request has its answer or its error: a completion, the error of the last call, or
\* RouterError when no tier was left.
Ended(tk) ==
    [Idle EXCEPT !.pc = "ended", !.preferred = tk.preferred, !.passthrough = tk.passthrough]

\* A tier is chosen.  On failover the adapter must also serve the requested model.
Chosen(c, tk, t) ==
    IF tk.failover /\ <<c, t>> \in Unserved
      THEN Ended(tk)
      ELSE [tk EXCEPT !.pc = "calling", !.tier = t, !.rest = {}, !.probe = 0, !.elapsed = 0]

\* The first of `tiers`, the preferred one before the other, that is not known to be out:
\* chosen, or probed first.
Walk(c, tk, tiers, cache) ==
    LET open == {t \in tiers : Believed(t, cache) # "no"}
        first == IF tk.preferred \in open THEN tk.preferred ELSE Other(tk.preferred)
    IN CASE open = {} -> Ended(tk)
         [] open # {} /\ Believed(first, cache) = "yes" -> Chosen(c, tk, first)
         [] OTHER -> Probing(tk, first, tiers \ {tk.preferred, first}, cache)

\* The cache after the caller's probe of its tier came back.
Probed(tk, healthyNow, cache) ==
    LET t == tk.tier
        now == [cache[t] EXCEPT !.healthy = healthyNow, !.age = tk.elapsed,
                                !.failures = IF healthyNow THEN 0 ELSE @]
    IN CASE tk.probe = 0 ->
              [cache EXCEPT ![t] = [gen |-> cache[t].gen + 1, healthy |-> healthyNow,
                                    failures |-> 0, age |-> tk.elapsed]]
         [] tk.probe # 0 /\ tk.probe = cache[t].gen -> [cache EXCEPT ![t] = now]
         [] OTHER -> cache

AtMost(n, bound) == IF n > bound THEN bound ELSE n

\* Mutant: the first failed call takes the tier out.
ChargedAtOnce(t, cache) ==
    [cache EXCEPT ![t] = [gen |-> IF @.gen = 0 THEN 1 ELSE @.gen, healthy |-> FALSE,
                          failures |-> AtMost(@.failures + 1, Threshold), age |-> 0]]

\* The cache after a failed call was charged to a tier.
Charged(t, cache) ==
    LET failures == AtMost(cache[t].failures + 1, Threshold)
    IN [cache EXCEPT ![t] = [gen |-> IF @.gen = 0 THEN 1 ELSE @.gen,
                             healthy |-> @.healthy /\ failures < Threshold,
                             failures |-> failures, age |-> 0]]

-----------------------------------------------------------------------------
(* Actions *)

\* route(): the tier the policy prefers, then the other one.
Route(c) ==
    /\ task[c].pc = "idle"
    /\ \E t \in Preferences :
         task' = [task EXCEPT
           ![c] = Walk(c, [Idle EXCEPT !.preferred = t], Tiers, health)]
    /\ UNCHANGED <<up, faults, health, failing>>

\* Mutant: the decision of the SingleAdapterRouter names no tier.
RoutePassthroughUntiered(c) ==
    /\ task[c].pc = "idle" /\ c \in Passthrough
    /\ task' = [task EXCEPT
         ![c] = [Idle EXCEPT !.pc = "calling", !.passthrough = TRUE,
                             !.preferred = "none", !.tier = "none"]]
    /\ UNCHANGED <<up, faults, health, failing>>

\* A passthrough request goes through a SingleAdapterRouter of its own, which calls its
\* tier CLOUD and asks nobody's health.
RoutePassthrough(c) ==
    /\ task[c].pc = "idle" /\ c \in Passthrough
    /\ task' = [task EXCEPT
         ![c] = [Idle EXCEPT !.pc = "calling", !.passthrough = TRUE,
                             !.preferred = "cloud", !.tier = "cloud"]]
    /\ UNCHANGED <<up, faults, health, failing>>

\* adapter.health() comes back with what the upstream is like by now.
ProbeReturns(c) ==
    /\ task[c].pc = "probing"
    /\ LET tk == task[c]
           cache == Probed(tk, up[tk.tier], health)
       IN /\ health' = cache
          /\ task' = [task EXCEPT
               ![c] = IF up[tk.tier] THEN Chosen(c, tk, tk.tier)
                                     ELSE Walk(c, tk, tk.rest, cache)]
    /\ UNCHANGED <<up, faults, failing>>

\* The upstream a caller's call goes to: its tier's, unless it is passthrough's own.
OwnUpstream(c) == task[c].passthrough /\ ~task[c].failover

\* No handler calls record_success.
CallSucceeds(c) ==
    /\ task[c].pc = "calling"
    /\ OwnUpstream(c) \/ up[task[c].tier]
    /\ task' = [task EXCEPT ![c] = Ended(task[c])]
    /\ UNCHANGED <<up, faults, health, failing>>

\* The error of a call that can fail: with the tier's upstream down, or as a blip.
CanFail(c) ==
    /\ task[c].pc = "calling"
    /\ IF OwnUpstream(c) \/ ~up[task[c].tier]
         THEN faults' = faults
         ELSE faults < MaxFaults /\ faults' = faults + 1

\* The first adapter fails with a transient error: route_after_failure.
FirstCallFails(c) ==
    /\ CanFail(c) /\ ~task[c].failover
    /\ LET t == task[c].tier
           cache == Charged(t, health)
       IN /\ health' = cache
          /\ task' = [task EXCEPT
               ![c] = Walk(c, [task[c] EXCEPT !.failover = TRUE], {Other(t)}, cache)]
    /\ UNCHANGED <<up, failing>>

\* The second adapter fails: the client gets both errors, nobody tells the router.
SecondCallFails(c) ==
    /\ CanFail(c) /\ task[c].failover
    /\ task' = [task EXCEPT ![c] = Ended(task[c])]
    /\ UNCHANGED <<up, health, failing>>

\* A PermanentAdapterError is the caller's own: no failover, no bookkeeping.
CallRefused(c) ==
    /\ task[c].pc = "calling"
    /\ task' = [task EXCEPT ![c] = Ended(task[c])]
    /\ UNCHANGED <<up, faults, health, failing>>

\* The response is out; the next request arrives later.
Respond(c) ==
    /\ task[c].pc = "ended"
    /\ task' = [task EXCEPT ![c] = Idle]
    /\ UNCHANGED <<up, faults, health, failing>>

Tick ==
    /\ health' = [t \in Tiers |-> [health[t] EXCEPT !.age = AtMost(@ + 1, TTL)]]
    /\ task' = [c \in Callers |->
         IF task[c].pc = "probing"
           THEN [task[c] EXCEPT !.elapsed = AtMost(@ + 1, TTL)] ELSE task[c]]
    /\ UNCHANGED <<up, faults, failing>>

Outage(t) ==
    /\ up[t] /\ faults < MaxFaults
    /\ up' = [up EXCEPT ![t] = FALSE]
    /\ faults' = faults + 1
    /\ failing' = failing \cup {t}
    /\ UNCHANGED <<health, task>>

Recover(t) ==
    /\ ~up[t]
    /\ up' = [up EXCEPT ![t] = TRUE]
    /\ UNCHANGED <<faults, health, task, failing>>

Finish(c) ==
    \/ ProbeReturns(c) \/ CallSucceeds(c) \/ FirstCallFails(c) \/ SecondCallFails(c)
    \/ CallRefused(c) \/ Respond(c)

Next ==
    \/ \E c \in Callers : Route(c) \/ RoutePassthrough(c) \/ Finish(c)
    \/ \E t \in Configured : Outage(t) \/ Recover(t)
    \/ Tick

Spec == Init /\ [][Next]_vars

\* Probes and calls time out, handlers finish, the clock runs.
FairSpec == Spec /\ WF_vars(Tick) /\ \A c \in Callers : WF_vars(Finish(c))

-----------------------------------------------------------------------------
(* Properties *)

\* A blip does not take a tier out: a tier is out only after an outage, or with a
\* threshold's worth of failed calls counted since its last good probe.
OutForCause ==
    \A t \in Tiers : ~health[t].healthy => t \in failing \/ health[t].failures = Threshold

\* Requests that prefer tier t keep coming, and a request is sent to it again and again.
KeepsComing(t) ==
    []<>(\E c \in Callers : /\ task[c].pc # "idle" /\ ~task[c].passthrough
                            /\ task[c].preferred = t)
IsUsed(t) ==
    []<>(\E c \in Callers : /\ task[c].pc = "calling" /\ ~task[c].passthrough
                            /\ task[c].tier = t)

\* A tier whose upstream stays up is used again, whatever failed before, whatever races
\* the probes ran and whatever the other tier does: once passthrough requests stop, and
\* as long as others prefer it.
BackInRotation ==
    \A t \in Configured :
      <>[]up[t] /\ <>[](\A c \in Callers : ~task[c].passthrough) /\ KeepsComing(t)
        => IsUsed(t)
=============================================================================
