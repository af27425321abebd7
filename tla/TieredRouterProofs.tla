-------------------------- MODULE TieredRouterProofs --------------------------
(***************************************************************************)
(* Proofs about TieredRouter for any callers, any threshold, time to live  *)
(* and number of faults, and any set of configured or preferred tiers.     *)
(*                                                                         *)
(* OutForCause needs to know why a probe says no: a tier that is down has  *)
(* had an outage.                                                          *)
(***************************************************************************)
EXTENDS TieredRouter, TLAPS

\* Whatever is down has gone down.
DownHasFailed == \A t \in Tiers : ~up[t] => t \in failing

IInv == TypeOK /\ DownHasFailed /\ OutForCause

-----------------------------------------------------------------------------
(* Types *)

\* _other of a tier is a tier.
LEMMA OtherType ==
  ASSUME NEW t \in Tiers
  PROVE  Other(t) \in Tiers
  BY DEF Other, Tiers

\* No entry in the health cache reads as a healthy one that is not fresh.
LEMMA AbsentType == Absent \in HealthState
  BY TieredRouterAssumption DEF Absent, HealthState

\* A handler without a request.
LEMMA IdleType == Idle \in Task
  BY TieredRouterAssumption DEF Idle, Task, Tiers

\* A handler whose request has its answer or its error.
LEMMA EndedType ==
  ASSUME NEW tk \in Task
  PROVE  Ended(tk) \in Task
  BY IdleType DEF Ended, Task

\* A tier is chosen, or the failover ends at a tier that does not serve the model.
LEMMA ChosenType ==
  ASSUME NEW c, NEW tk \in Task, NEW t \in Tiers
  PROVE  Chosen(c, tk, t) \in Task
<1>1. Ended(tk) \in Task
  BY EndedType
<1>2. 0 \in Nat /\ 0 \in 0..TTL /\ {} \in SUBSET Tiers
  BY TieredRouterAssumption
<1>3. [tk EXCEPT !.pc = "calling", !.tier = t, !.rest = {}, !.probe = 0, !.elapsed = 0] \in Task
  BY <1>2 DEF Task
<1> QED
  BY <1>1, <1>3 DEF Chosen

\* A handler that awaits adapter.health().
LEMMA ProbingType ==
  ASSUME NEW tk \in Task, NEW t \in Tiers, NEW rest \in SUBSET Tiers,
         NEW cache \in [Tiers -> HealthState]
  PROVE  Probing(tk, t, rest, cache) \in Task
<1>1. cache[t].gen \in Nat /\ 0 \in 0..TTL
  BY TieredRouterAssumption DEF HealthState
<1> QED
  BY <1>1 DEF Probing, Task

\* The walk over the tiers ends in a choice, a probe or an error.
LEMMA WalkType ==
  ASSUME NEW c, NEW tk \in Task, NEW tiers \in SUBSET Tiers,
         NEW cache \in [Tiers -> HealthState]
  PROVE  Walk(c, tk, tiers, cache) \in Task
<1> DEFINE open == {t \in tiers : Believed(t, cache) # "no"}
           first == IF tk.preferred \in open THEN tk.preferred ELSE Other(tk.preferred)
<1>1. tk.preferred \in Tiers
  BY DEF Task
<1>2. first \in Tiers
  BY <1>1, OtherType
<1>3. tiers \ {tk.preferred, first} \in SUBSET Tiers
  OBVIOUS
<1>4. /\ Ended(tk) \in Task /\ Chosen(c, tk, first) \in Task
      /\ Probing(tk, first, tiers \ {tk.preferred, first}, cache) \in Task
  BY <1>2, <1>3, EndedType, ChosenType, ProbingType
<1> HIDE DEF open, first
<1> QED
  BY <1>4 DEF Walk, open, first

\* A probe that comes back leaves the health cache well formed.
LEMMA ProbedType ==
  ASSUME NEW tk \in Task, NEW healthyNow \in BOOLEAN, NEW cache \in [Tiers -> HealthState]
  PROVE  Probed(tk, healthyNow, cache) \in [Tiers -> HealthState]
<1>1. tk.tier \in Tiers /\ tk.elapsed \in 0..TTL /\ 0 \in 0..Threshold
  BY TieredRouterAssumption DEF Task
<1>2. cache[tk.tier] \in HealthState /\ cache[tk.tier].gen + 1 \in Nat
  BY <1>1 DEF HealthState
<1>3. /\ [gen |-> cache[tk.tier].gen + 1, healthy |-> healthyNow, failures |-> 0,
          age |-> tk.elapsed] \in HealthState
      /\ [cache[tk.tier] EXCEPT !.healthy = healthyNow, !.age = tk.elapsed,
                                !.failures = IF healthyNow THEN 0 ELSE @] \in HealthState
  BY <1>1, <1>2 DEF HealthState
<1> QED
  BY <1>1, <1>3 DEF Probed

\* route_after_failure leaves the health cache well formed.
LEMMA ChargedType ==
  ASSUME NEW t \in Tiers, NEW cache \in [Tiers -> HealthState]
  PROVE  Charged(t, cache) \in [Tiers -> HealthState]
<1> DEFINE failures == AtMost(cache[t].failures + 1, Threshold)
           gen == IF cache[t].gen = 0 THEN 1 ELSE cache[t].gen
           healthy == cache[t].healthy /\ failures < Threshold
<1>1. failures \in 0..Threshold /\ 0 \in 0..TTL
  BY TieredRouterAssumption DEF HealthState, AtMost
<1>2. gen \in Nat /\ healthy \in BOOLEAN
  BY DEF HealthState
<1> HIDE DEF failures, gen, healthy
<1>3. [gen |-> gen, healthy |-> healthy, failures |-> failures, age |-> 0] \in HealthState
  BY <1>1, <1>2 DEF HealthState
<1> QED
  BY <1>3 DEF Charged, failures, gen, healthy

\* Every step of the router, of the handlers, of the upstreams and of time keeps the types.
LEMMA TypeStep ==
  ASSUME TypeOK, Next
  PROVE  TypeOK'
<1> USE TieredRouterAssumption
<1>1. ASSUME NEW c \in Callers, Route(c) PROVE TypeOK'
  <2>1. PICK t \in Preferences :
          task' = [task EXCEPT ![c] = Walk(c, [Idle EXCEPT !.preferred = t], Tiers, health)]
    BY <1>1 DEF Route
  <2>2. [Idle EXCEPT !.preferred = t] \in Task
    BY IdleType DEF Task
  <2>3. Walk(c, [Idle EXCEPT !.preferred = t], Tiers, health) \in Task
    BY <2>2, WalkType DEF TypeOK
  <2> QED
    BY <1>1, <2>1, <2>3 DEF Route, TypeOK
<1>2. ASSUME NEW c \in Callers, RoutePassthrough(c) PROVE TypeOK'
  <2>1. [Idle EXCEPT !.pc = "calling", !.passthrough = TRUE,
                     !.preferred = "cloud", !.tier = "cloud"] \in Task
    BY IdleType DEF Task, Tiers
  <2> QED
    BY <1>2, <2>1 DEF RoutePassthrough, TypeOK
<1>3. ASSUME NEW c \in Callers, Finish(c) PROVE TypeOK'
  <2>0. task[c] \in Task /\ task[c].tier \in Tiers /\ task[c].rest \in SUBSET Tiers
    BY DEF TypeOK, Task
  <2>1. Ended(task[c]) \in Task
    BY <2>0, EndedType
  <2>2. CASE ProbeReturns(c)
    <3>1. up[task[c].tier] \in BOOLEAN
      BY <2>0 DEF TypeOK
    <3>2. Probed(task[c], up[task[c].tier], health) \in [Tiers -> HealthState]
      BY <2>0, <3>1, ProbedType DEF TypeOK
    <3>3. /\ Chosen(c, task[c], task[c].tier) \in Task
          /\ Walk(c, task[c], task[c].rest, Probed(task[c], up[task[c].tier], health)) \in Task
      BY <2>0, <3>2, ChosenType, WalkType
    <3> QED
      BY <2>2, <3>2, <3>3 DEF ProbeReturns, TypeOK
  <2>3. CASE CallSucceeds(c)
    BY <2>1, <2>3 DEF CallSucceeds, TypeOK
  <2>4. CASE FirstCallFails(c)
    <3>1. faults' \in 0..MaxFaults
      BY <2>4 DEF FirstCallFails, CanFail, TypeOK
    <3>2. Charged(task[c].tier, health) \in [Tiers -> HealthState]
      BY <2>0, ChargedType DEF TypeOK
    <3>3. [task[c] EXCEPT !.failover = TRUE] \in Task
      BY <2>0 DEF Task
    <3>4. {Other(task[c].tier)} \in SUBSET Tiers
      BY <2>0, OtherType
    <3>5. Walk(c, [task[c] EXCEPT !.failover = TRUE], {Other(task[c].tier)},
               Charged(task[c].tier, health)) \in Task
      BY <3>2, <3>3, <3>4, WalkType
    <3> QED
      BY <2>4, <3>1, <3>2, <3>5 DEF FirstCallFails, TypeOK
  <2>5. CASE SecondCallFails(c)
    BY <2>1, <2>5 DEF SecondCallFails, CanFail, TypeOK
  <2>6. CASE CallRefused(c)
    BY <2>1, <2>6 DEF CallRefused, TypeOK
  <2>7. CASE Respond(c)
    BY <2>7, IdleType DEF Respond, TypeOK
  <2> QED
    BY <1>3, <2>2, <2>3, <2>4, <2>5, <2>6, <2>7 DEF Finish
<1>4. ASSUME NEW t \in Configured, Outage(t) \/ Recover(t) PROVE TypeOK'
  <2>1. t \in Tiers /\ up \in [Tiers -> BOOLEAN]
    BY DEF TypeOK
  <2>2. up' \in [Tiers -> BOOLEAN]
    BY <1>4, <2>1 DEF Outage, Recover
  <2>3. faults' \in 0..MaxFaults /\ failing' \subseteq Tiers
    BY <1>4, <2>1 DEF Outage, Recover, TypeOK
  <2> QED
    BY <1>4, <2>2, <2>3 DEF Outage, Recover, TypeOK
<1>5. CASE Tick
  <2>1. ASSUME NEW n \in 0..TTL PROVE AtMost(n + 1, TTL) \in 0..TTL
    BY DEF AtMost
  <2>2. ASSUME NEW t \in Tiers
        PROVE  [health[t] EXCEPT !.age = AtMost(@ + 1, TTL)] \in HealthState
    <3>1. health[t] \in HealthState /\ AtMost(health[t].age + 1, TTL) \in 0..TTL
      BY <2>1 DEF TypeOK, HealthState
    <3> QED
      BY <3>1 DEF HealthState
  <2>3. ASSUME NEW c \in Callers
        PROVE  [task[c] EXCEPT !.elapsed = AtMost(@ + 1, TTL)] \in Task
    <3>1. task[c] \in Task /\ AtMost(task[c].elapsed + 1, TTL) \in 0..TTL
      BY <2>1 DEF TypeOK, Task
    <3> QED
      BY <3>1 DEF Task
  <2> QED
    BY <1>5, <2>2, <2>3 DEF Tick, TypeOK
<1> QED
  BY <1>1, <1>2, <1>3, <1>4, <1>5 DEF Next

-----------------------------------------------------------------------------
(* Out for cause *)

\* A probe that comes back empty-handed found a tier down.
LEMMA ProbedForCause ==
  ASSUME IInv, NEW tk \in Task
  PROVE  \A t \in Tiers :
           LET cache == Probed(tk, up[tk.tier], health)
           IN ~cache[t].healthy => t \in failing \/ cache[t].failures = Threshold
<1> SUFFICES ASSUME NEW t \in Tiers
             PROVE  LET cache == Probed(tk, up[tk.tier], health)
                    IN ~cache[t].healthy => t \in failing \/ cache[t].failures = Threshold
  OBVIOUS
<1> DEFINE cache == Probed(tk, up[tk.tier], health)
<1>1. /\ health \in [Tiers -> HealthState] /\ up \in [Tiers -> BOOLEAN] /\ tk.tier \in Tiers
      /\ DownHasFailed /\ OutForCause
  BY DEF IInv, TypeOK, Task
<1>2. CASE t # tk.tier
  <2>1. cache[t] = health[t]
    BY <1>1, <1>2 DEF Probed
  <2> QED
    BY <1>1, <2>1 DEF OutForCause
<1>3. CASE t = tk.tier /\ ~up[t]
  BY <1>1, <1>3 DEF DownHasFailed
<1>4. CASE t = tk.tier /\ up[t]
  <2>1. cache = health \/ cache[t].healthy
    BY <1>1, <1>4 DEF Probed, HealthState
  <2> QED
    BY <1>1, <2>1 DEF OutForCause
<1> QED
  BY <1>1, <1>2, <1>3, <1>4

\* A charge takes a tier out only with the threshold reached.
LEMMA ChargedForCause ==
  ASSUME TypeOK, OutForCause, NEW u \in Tiers
  PROVE  \A t \in Tiers : ~Charged(u, health)[t].healthy =>
           t \in failing \/ Charged(u, health)[t].failures = Threshold
<1> SUFFICES ASSUME NEW t \in Tiers, ~Charged(u, health)[t].healthy
             PROVE  t \in failing \/ Charged(u, health)[t].failures = Threshold
  OBVIOUS
<1>1. health \in [Tiers -> HealthState] /\ Threshold \in Nat \ {0}
  BY TieredRouterAssumption DEF TypeOK
<1>2. CASE t # u
  <2>1. Charged(u, health)[t] = health[t]
    BY <1>1, <1>2 DEF Charged
  <2> QED
    BY <2>1 DEF OutForCause
<1>3. CASE t = u
  <2> DEFINE failures == AtMost(health[t].failures + 1, Threshold)
  <2>1. /\ Charged(u, health)[t].failures = failures
        /\ Charged(u, health)[t].healthy = (health[t].healthy /\ failures < Threshold)
    BY <1>1, <1>3 DEF Charged
  <2>2. health[t].failures \in 0..Threshold /\ failures \in 0..Threshold
    BY <1>1 DEF HealthState, AtMost
  <2>3. CASE health[t].healthy
    <3>1. ~(health[t].healthy /\ failures < Threshold)
      BY <1>3, <2>1, Zenon
    <3>2. ~(failures < Threshold)
      BY <2>3, <3>1
    <3>3. failures = Threshold
      BY <1>1, <2>2, <3>2
    <3> QED
      BY <1>3, <2>1, <3>3
  <2>4. CASE ~health[t].healthy
    <3>1. t \in failing \/ health[t].failures = Threshold
      BY <2>4 DEF OutForCause
    <3> QED
      BY <1>1, <2>1, <2>2, <3>1 DEF AtMost
  <2> QED
    BY <2>3, <2>4
<1> QED
  BY <1>2, <1>3

\* No probe and no charge takes a tier out without a cause.
LEMMA CauseStep ==
  ASSUME IInv, Next
  PROVE  DownHasFailed' /\ OutForCause'
<1>0. TypeOK /\ DownHasFailed /\ OutForCause
  BY DEF IInv
<1>1. ASSUME NEW c \in Callers, ProbeReturns(c) PROVE DownHasFailed' /\ OutForCause'
  <2>1. health' = Probed(task[c], up[task[c].tier], health) /\ UNCHANGED <<up, failing>>
    BY <1>1 DEF ProbeReturns
  <2>2. task[c] \in Task
    BY <1>0 DEF TypeOK
  <2> QED
    BY <1>0, <2>1, <2>2, ProbedForCause DEF DownHasFailed, OutForCause
<1>2. ASSUME NEW c \in Callers, FirstCallFails(c) PROVE DownHasFailed' /\ OutForCause'
  <2>1. health' = Charged(task[c].tier, health) /\ UNCHANGED <<up, failing>>
    BY <1>2 DEF FirstCallFails
  <2>2. task[c].tier \in Tiers
    BY <1>0 DEF TypeOK, Task
  <2> QED
    BY <1>0, <2>1, <2>2, ChargedForCause DEF DownHasFailed, OutForCause
<1>3. ASSUME NEW t \in Configured, Outage(t) \/ Recover(t)
      PROVE  DownHasFailed' /\ OutForCause'
  BY <1>0, <1>3, TieredRouterAssumption DEF Outage, Recover, TypeOK, DownHasFailed, OutForCause
<1>4. CASE Tick
  BY <1>0, <1>4 DEF Tick, TypeOK, HealthState, DownHasFailed, OutForCause
<1>5. CASE UNCHANGED <<up, health, failing>>
  BY <1>0, <1>5 DEF DownHasFailed, OutForCause
<1>6. \/ \E c \in Callers : ProbeReturns(c) \/ FirstCallFails(c)
      \/ \E t \in Configured : Outage(t) \/ Recover(t)
      \/ Tick
      \/ UNCHANGED <<up, health, failing>>
  BY DEF Next, Finish, Route, RoutePassthrough, CallSucceeds, SecondCallFails, CallRefused,
         Respond
<1> QED
  BY <1>1, <1>2, <1>3, <1>4, <1>5, <1>6

-----------------------------------------------------------------------------
(* The theorems *)

\* Through every race of probes and failed calls on the health cache the invariant holds.
THEOREM InvariantHolds == Spec => []IInv
<1>1. Init => IInv
  <2> SUFFICES ASSUME Init PROVE IInv
    OBVIOUS
  <2>1. TypeOK
    BY TieredRouterAssumption, AbsentType, IdleType DEF Init, TypeOK
  <2>2. DownHasFailed /\ OutForCause
    BY DEF Init, DownHasFailed, OutForCause, Absent
  <2> QED
    BY <2>1, <2>2 DEF IInv
<1>2. IInv /\ [Next]_vars => IInv'
  <2> SUFFICES ASSUME IInv, [Next]_vars PROVE IInv'
    OBVIOUS
  <2>1. CASE Next
    BY <2>1, TypeStep, CauseStep DEF IInv
  <2>2. CASE UNCHANGED vars
    BY <2>2 DEF vars, IInv, TypeOK, DownHasFailed, OutForCause
  <2> QED
    BY <2>1, <2>2
<1> QED
  BY <1>1, <1>2, PTL DEF Spec

\* Every variable keeps its type.
THEOREM TypeCorrect == Spec => []TypeOK
<1>1. IInv => TypeOK
  BY DEF IInv
<1> QED
  BY <1>1, InvariantHolds, PTL

\* No blip takes a tier out of rotation, whichever requests failed and probes raced.
THEOREM TiersOutForCause == Spec => []OutForCause
<1>1. IInv => OutForCause
  BY DEF IInv
<1> QED
  BY <1>1, InvariantHolds, PTL
=============================================================================
