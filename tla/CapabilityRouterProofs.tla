----------------------- MODULE CapabilityRouterProofs -----------------------
(***************************************************************************)
(* Proofs about CapabilityRouter for any registry, any settings, any       *)
(* callers and any requests.                                               *)
(*                                                                         *)
(* The registry forgets on which provider a fallback was ranked, so a row  *)
(* on the wire need not be a row the scout let through.  What survives is  *)
(* that its model has such a row: Planned, of the decision and of what is  *)
(* on the wire alike, because a walk after a failure starts again from the *)
(* decision.                                                               *)
(***************************************************************************)
EXTENDS CapabilityRouter, TLAPS

\* An attempt is a row, of a model that has a row the scout let through.
Planned(q, a) ==
    /\ a.slug \in Rows
    /\ Registry[a.slug].provider = a.provider /\ Registry[a.slug].model = a.model
    /\ Asked[q].pin = "" =>
         \E r \in Rows : Qualifies(Asked[q], r) /\ Registry[r].model = a.model

\* What a request in hand, probing or calling, has got from the scout and the registry.
TaskPlanned(tk) ==
    /\ tk.pc = "probing" => ~tk.passthrough
    /\ tk.pc \in {"probing", "calling"} /\ ~tk.passthrough =>
         /\ Planned(tk.req, tk.chosen) /\ Planned(tk.req, tk.wire)
         /\ tk.rest \subseteq Others[tk.req] \cup {0}

TasksPlanned == \A c \in Callers : TaskPlanned(task[c])

\* A healthy entry that is fresh is no younger than the probe that vouched for it.
HealthIsVouched ==
    \A p \in Providers :
      health[p].healthy /\ health[p].age < TTL => vouched[p] <= health[p].age

IInv == TypeOK /\ TasksPlanned /\ HealthIsVouched

-----------------------------------------------------------------------------
(* The scout *)

\* Every row the scout ranks is one it let through.
LEMMA RankedQualify ==
  ASSUME NEW q, NEW r \in Ranked(q)
  PROVE  r \in Rows /\ Qualifies(q, r)
<1>1. r \in Candidates(q)
  BY DEF Ranked, Preferred, Reliable
<1> QED
  BY <1>1 DEF Candidates, Live

\* The chosen row qualifies, if it was not pinned.
LEMMA BestQualifies ==
  ASSUME NEW q \in Requests, NEW r \in Best[q]
  PROVE  r \in Rows /\ (Asked[q].pin = "" => Qualifies(Asked[q], r))
<1>1. r \in Chosen(Asked[q])
  BY DEF Best
<1>2. CASE Asked[q].pin # ""
  BY <1>1, <1>2 DEF Chosen, ById
<1>3. CASE Asked[q].pin = ""
  <2>1. r \in Ranked(Asked[q])
    BY <1>1, <1>3 DEF Chosen
  <2> QED
    BY <2>1, RankedQualify
<1> QED
  BY <1>2, <1>3

\* So do the fallbacks; a pin has none.
LEMMA OthersQualify ==
  ASSUME NEW q \in Requests, NEW r \in Others[q]
  PROVE  r \in Rows /\ Qualifies(Asked[q], r)
<1>1. r \in Fallbacks(Asked[q])
  BY DEF Others
<1>2. r \in Ranked(Asked[q])
  BY <1>1 DEF Fallbacks
<1> QED
  BY <1>2, RankedQualify

-----------------------------------------------------------------------------
(* The walk *)

\* A row's provider is one of those the router may hear of, and 0 is no row.
LEMMA RowFacts ==
  /\ 0 \notin Rows
  /\ \A r \in Rows : Registry[r].provider \in Providers
  /\ Frontier \subseteq Providers /\ "anthropic" \in Frontier
  BY ScoutAssumption DEF Rows, Providers, Frontier

\* What stands for the chosen row is planned.
LEMMA PrimaryPlanned ==
  ASSUME NEW q \in Requests, NEW r \in Best[q]
  PROVE  Primary(r) \in Attempt /\ Planned(q, Primary(r))
<1>1. r \in Rows /\ (Asked[q].pin = "" => Qualifies(Asked[q], r))
  BY BestQualifies
<1>2. Primary(r) \in Attempt
  BY <1>1, RowFacts DEF Primary, Attempt
<1>3. /\ Primary(r).slug = r /\ Primary(r).provider = Registry[r].provider
      /\ Primary(r).model = Registry[r].model
  BY DEF Primary
<1> QED
  BY <1>1, <1>2, <1>3 DEF Planned

\* What a fallback is looked up as is planned.
LEMMA FallbackPlanned ==
  ASSUME NEW q \in Requests, NEW r \in Others[q], NEW tk, NEW a \in Fallback(tk, r)
  PROVE  a \in Attempt /\ Planned(q, a)
<1>1. r \in Rows /\ Qualifies(Asked[q], r)
  BY OthersQualify
<1>2. PICK k \in ById(Registry[r].model) :
        a = [rank |-> r, model |-> Registry[r].model, provider |-> Registry[k].provider,
             slug |-> k]
  BY <1>1 DEF Fallback, LookedUp
<1>3. k \in Rows /\ Registry[k].model = Registry[r].model
  BY <1>2 DEF ById
<1>4. a \in Attempt
  BY <1>1, <1>2, <1>3, RowFacts DEF Attempt
<1>5. /\ a.slug = k /\ a.provider = Registry[k].provider
      /\ a.model = Registry[r].model
  BY <1>2
<1> QED
  BY <1>1, <1>3, <1>4, <1>5 DEF Planned

\* Everything on the walk is planned, if the decision is.
LEMMA AttemptsPlanned ==
  ASSUME NEW tk \in Task, Planned(tk.req, tk.chosen),
         NEW ranks \in SUBSET (Others[tk.req] \cup {0}), NEW a \in Attempts(tk, ranks)
  PROVE  a \in Attempt /\ Planned(tk.req, a)
<1>1. tk.chosen \in Attempt /\ tk.req \in Requests
  BY DEF Task
<1>2. CASE a = tk.chosen
  BY <1>1, <1>2
<1>3. CASE a # tk.chosen
  <2>1. PICK r \in ranks \cap Rows : a \in Fallback(tk, r)
    BY <1>3 DEF Attempts
  <2>2. r \in Others[tk.req]
    BY <2>1, RowFacts
  <2> QED
    BY <1>1, <2>1, <2>2, FallbackPlanned
<1> QED
  BY <1>2, <1>3

\* A provider that is believed in was told to be healthy within the time to live.
LEMMA BelievedYes ==
  ASSUME NEW tk, NEW p, NEW cache, Believed(tk, p, cache) = "yes", SkipUnhealthy
  PROVE  cache[p].healthy /\ cache[p].age < TTL
<1> DEFINE out == p = tk.failed \/ p \notin Configured \cup tk.extra
<1>1. CASE out
  BY <1>1 DEF Believed
<1>2. CASE ~out /\ ~Fresh(p, cache)
  BY <1>2 DEF Believed
<1>3. CASE ~out /\ Fresh(p, cache)
  <2>1. Believed(tk, p, cache) = IF cache[p].healthy THEN "yes" ELSE "no"
    BY <1>3 DEF Believed
  <2> QED
    BY <1>3, <2>1 DEF Fresh
<1> QED
  BY <1>1, <1>2, <1>3

\* Nothing in hand.
LEMMA IdleType == Idle \in Task
<1>1. SomeRequest \in Requests
  BY RouterAssumption DEF SomeRequest
<1>2. Nothing \in Attempt
  BY RowFacts DEF Nothing, Attempt
<1> QED
  BY <1>1, <1>2, RouterAssumption DEF Idle, Task

\* The request has its answer or its error.
LEMMA EndedType ==
  ASSUME NEW tk \in Task
  PROVE  Ended(tk) \in Task /\ Ended(tk).pc = "ended"
  BY IdleType DEF Ended, Task, Idle

\* A call to what is planned.
LEMMA CallingPlanned ==
  ASSUME NEW tk \in Task, NEW a \in Attempt, Planned(tk.req, tk.chosen), Planned(tk.req, a)
  PROVE  /\ Calling(tk, a) \in Task /\ TaskPlanned(Calling(tk, a))
         /\ Calling(tk, a).pc = "calling" /\ Calling(tk, a).wire = a
<1> DEFINE chosen == IF a.model = tk.chosen.model THEN tk.chosen ELSE [a EXCEPT !.rank = 0]
           new == [tk EXCEPT !.pc = "calling", !.wire = a, !.rest = {}, !.elapsed = 0,
                             !.chosen = chosen]
<1>1. Calling(tk, a) = new
  BY DEF Calling, Task
<1>2. [a EXCEPT !.rank = 0] \in Attempt /\ Planned(tk.req, [a EXCEPT !.rank = 0])
  BY DEF Attempt, Planned
<1>3. chosen \in Attempt /\ Planned(tk.req, chosen)
  BY <1>2 DEF Task
<1> HIDE DEF chosen
<1>4. 0 \in 0..TTL
  BY RouterAssumption
<1>5. /\ new \in Task /\ new.pc = "calling" /\ new.wire = a /\ new.chosen = chosen
      /\ new.rest = {} /\ new.req = tk.req
  BY <1>3, <1>4 DEF Task
<1> QED
  BY <1>1, <1>3, <1>5 DEF TaskPlanned

\* A probe of what is planned.
LEMMA ProbingPlanned ==
  ASSUME NEW tk \in Task, NEW a \in Attempt, Planned(tk.req, tk.chosen), Planned(tk.req, a),
         ~tk.passthrough, NEW rest \in SUBSET (Others[tk.req] \cup {0})
  PROVE  /\ Probing(tk, a, rest) \in Task /\ TaskPlanned(Probing(tk, a, rest))
         /\ Probing(tk, a, rest).pc = "probing"
<1> DEFINE new == Probing(tk, a, rest)
<1>1. rest \subseteq Rows \cup {0}
  BY OthersQualify DEF Task
<1>2. 0 \in 0..TTL
  BY RouterAssumption
<1>3. /\ new \in Task /\ new.pc = "probing" /\ new.wire = a /\ new.chosen = tk.chosen
      /\ new.rest = rest /\ new.req = tk.req /\ new.passthrough = tk.passthrough
  BY <1>1, <1>2 DEF Task, Probing
<1> HIDE DEF new
<1> QED
  BY <1>3 DEF TaskPlanned, new

\* What a walk leaves the caller with.
Walked(c, cache) ==
    \E new \in Task :
      /\ task' = [task EXCEPT ![c] = new]
      /\ TaskPlanned(new)
      /\ new.pc = "calling" /\ SkipUnhealthy =>
           cache[new.wire.provider].healthy /\ cache[new.wire.provider].age < TTL

\* A walk that starts from a planned decision ends in an error, a planned probe or a planned
\* call to a provider the cache speaks for.
LEMMA ResolvePlanned ==
  ASSUME NEW c \in Callers, NEW tk \in Task, ~tk.passthrough, Planned(tk.req, tk.chosen),
         NEW ranks \in SUBSET (Others[tk.req] \cup {0}), NEW cache,
         Resolve(c, tk, ranks, cache)
  PROVE  Walked(c, cache)
<1>1. CASE task' = [task EXCEPT ![c] = Ended(tk)]
  BY <1>1, EndedType DEF Walked, TaskPlanned
<1>2. ASSUME NEW a \in Attempts(tk, ranks), Believed(tk, a.provider, cache) = "yes",
             task' = [task EXCEPT ![c] = Calling(tk, a)]
      PROVE  Walked(c, cache)
  <2>1. a \in Attempt /\ Planned(tk.req, a)
    BY AttemptsPlanned
  <2>2. /\ Calling(tk, a) \in Task /\ TaskPlanned(Calling(tk, a))
        /\ Calling(tk, a).wire = a
    BY <2>1, CallingPlanned
  <2>3. SkipUnhealthy => cache[a.provider].healthy /\ cache[a.provider].age < TTL
    BY <1>2, BelievedYes
  <2> QED
    BY <1>2, <2>2, <2>3 DEF Walked
<1>3. ASSUME NEW a \in Attempts(tk, ranks),
             task' = [task EXCEPT ![c] =
                        Probing(tk, a, {r \in ranks : Earlier(tk.req, a.rank, r)})]
      PROVE  Walked(c, cache)
  <2> DEFINE rest == {r \in ranks : Earlier(tk.req, a.rank, r)}
  <2>1. a \in Attempt /\ Planned(tk.req, a)
    BY AttemptsPlanned
  <2>2. rest \in SUBSET (Others[tk.req] \cup {0})
    OBVIOUS
  <2> HIDE DEF rest
  <2>3. /\ Probing(tk, a, rest) \in Task /\ TaskPlanned(Probing(tk, a, rest))
        /\ Probing(tk, a, rest).pc = "probing"
    BY <2>1, <2>2, ProbingPlanned
  <2> QED
    BY <1>3, <2>3 DEF Walked, rest
<1> QED
  BY <1>1, <1>2, <1>3 DEF Resolve

\* What Walked says of the caller's task carries over to the types of all.
LEMMA WalkedKeeps ==
  ASSUME TypeOK, TasksPlanned, NEW c \in Callers, NEW cache, Walked(c, cache)
  PROVE  task' \in [Callers -> Task] /\ TasksPlanned'
<1>1. PICK new \in Task : task' = [task EXCEPT ![c] = new] /\ TaskPlanned(new)
  BY DEF Walked
<1>2. task \in [Callers -> Task]
  BY DEF TypeOK
<1> QED
  BY <1>1, <1>2 DEF TasksPlanned

-----------------------------------------------------------------------------
(* The steps *)

\* A handler gets a new request and lets it be routed.
LEMMA RouteStep ==
  ASSUME TypeOK, TasksPlanned, NEW c \in Callers, Route(c)
  PROVE  Walked(c, health)
<1>1. PICK q \in Requests :
        LET tk == [Idle EXCEPT !.req = q]
        IN \/ task' = [task EXCEPT ![c] = Ended(tk)]
           \/ \E r \in Best[q] :
                Resolve(c, [tk EXCEPT !.chosen = Primary(r), !.extra = Brought[q]],
                        Others[q] \cup {0}, health)
  BY DEF Route
<1> DEFINE tk == [Idle EXCEPT !.req = q]
<1>2. tk \in Task /\ tk.req = q
  BY IdleType DEF Task
<1>3. CASE task' = [task EXCEPT ![c] = Ended(tk)]
  <2> HIDE DEF tk
  <2> QED
    BY <1>2, <1>3, EndedType DEF Walked, TaskPlanned
<1>4. ASSUME NEW r \in Best[q],
             Resolve(c, [tk EXCEPT !.chosen = Primary(r), !.extra = Brought[q]],
                     Others[q] \cup {0}, health)
      PROVE  Walked(c, health)
  <2> DEFINE new == [tk EXCEPT !.chosen = Primary(r), !.extra = Brought[q]]
  <2>1. Primary(r) \in Attempt /\ Planned(q, Primary(r))
    BY <1>4, PrimaryPlanned
  <2>2. Brought[q] \subseteq Frontier
    BY DEF Brought, Keyed
  <2>3. ~tk.passthrough
    BY DEF Idle
  <2> HIDE DEF tk
  <2>4. new \in Task /\ new.req = q /\ new.chosen = Primary(r) /\ ~new.passthrough
    BY <1>2, <2>1, <2>2, <2>3 DEF Task
  <2> HIDE DEF new
  <2>5. Resolve(c, new, Others[new.req] \cup {0}, health)
    BY <1>4, <2>4 DEF new
  <2> QED
    BY <2>1, <2>4, <2>5, ResolvePlanned
<1> QED
  BY <1>1, <1>3, <1>4

\* adapter.health() comes back to a request that was waiting for it.
LEMMA ProbeStep ==
  ASSUME TypeOK, TasksPlanned, NEW c \in Callers, ProbeReturns(c)
  PROVE  \/ Walked(c, health')
         \/ \E new \in Task :
              /\ task' = [task EXCEPT ![c] = new] /\ TaskPlanned(new)
              /\ vouched'[new.wire.provider] = 0
<1> DEFINE tk == task[c]
<1>1. /\ tk \in Task /\ ~tk.passthrough /\ tk.pc = "probing"
      /\ Planned(tk.req, tk.chosen) /\ Planned(tk.req, tk.wire)
      /\ tk.rest \in SUBSET (Others[tk.req] \cup {0})
  BY DEF TypeOK, TasksPlanned, TaskPlanned, ProbeReturns
<1>2. tk.wire \in Attempt /\ tk.wire.provider \in Providers
  BY <1>1 DEF Task, Attempt
<1>3. \/ Resolve(c, tk, tk.rest, health')
      \/ /\ task' = [task EXCEPT ![c] = Calling(tk, tk.wire)]
         /\ vouched' = [vouched EXCEPT ![tk.wire.provider] = 0]
  BY DEF ProbeReturns
<1> HIDE DEF tk
<1>4. CASE Resolve(c, tk, tk.rest, health')
  BY <1>1, <1>4, ResolvePlanned
<1>5. CASE /\ task' = [task EXCEPT ![c] = Calling(tk, tk.wire)]
           /\ vouched' = [vouched EXCEPT ![tk.wire.provider] = 0]
  <2>1. /\ Calling(tk, tk.wire) \in Task /\ TaskPlanned(Calling(tk, tk.wire))
        /\ Calling(tk, tk.wire).wire = tk.wire
    BY <1>1, <1>2, CallingPlanned
  <2>2. vouched'[tk.wire.provider] = 0
    BY <1>2, <1>5 DEF TypeOK
  <2> QED
    BY <1>5, <2>1, <2>2
<1> QED
  BY <1>3, <1>4, <1>5

\* The first call fails: a passthrough request has its error, any other walks again.
LEMMA FailureStep ==
  ASSUME TypeOK, TasksPlanned, NEW c \in Callers, FirstCallFails(c)
  PROVE  Walked(c, health')
<1> DEFINE tk == task[c]
           new == [tk EXCEPT !.failed = tk.wire.provider, !.extra = {}]
<1>1. tk \in Task /\ tk.pc = "calling" /\ tk.wire.provider \in Providers
  BY DEF TypeOK, FirstCallFails, CanFail, Task, Attempt
<1>2. \/ /\ tk.passthrough
         /\ task' = [task EXCEPT ![c] = Ended(tk)]
      \/ /\ ~tk.passthrough
         /\ Resolve(c, new, Others[tk.req] \cup {0}, health')
  BY DEF FirstCallFails
<1>3. ~tk.passthrough => Planned(tk.req, tk.chosen)
  BY <1>1 DEF TasksPlanned, TaskPlanned
<1> HIDE DEF tk
<1>4. CASE task' = [task EXCEPT ![c] = Ended(tk)]
  BY <1>1, <1>4, EndedType DEF Walked, TaskPlanned
<1>5. CASE ~tk.passthrough /\ Resolve(c, new, Others[tk.req] \cup {0}, health')
  <2>1. /\ new \in Task /\ new.req = tk.req /\ new.chosen = tk.chosen
        /\ new.passthrough = tk.passthrough
    BY <1>1 DEF Task
  <2> HIDE DEF new
  <2> QED
    BY <1>3, <1>5, <2>1, ResolvePlanned
<1> QED
  BY <1>2, <1>4, <1>5

\* A call that ends, well or not, and an answered request leave a task that is planned.
LEMMA EndStep ==
  ASSUME TypeOK, TasksPlanned, NEW c \in Callers,
         CallSucceeds(c) \/ SecondCallFails(c) \/ CallRefused(c) \/ Respond(c)
  PROVE  task' \in [Callers -> Task] /\ TasksPlanned'
<1>1. task \in [Callers -> Task]
  BY DEF TypeOK
<1>2. /\ Ended(task[c]) \in Task /\ TaskPlanned(Ended(task[c]))
      /\ Idle \in Task /\ TaskPlanned(Idle)
  BY <1>1, EndedType, IdleType DEF TaskPlanned, Idle
<1>3. task' = [task EXCEPT ![c] = Ended(task[c])] \/ task' = [task EXCEPT ![c] = Idle]
  BY DEF CallSucceeds, SecondCallFails, CallRefused, Respond
<1> QED
  BY <1>1, <1>2, <1>3 DEF TasksPlanned

\* Ages stay within the time to live and do not change their order.
LEMMA OlderFacts ==
  /\ \A n \in 0..TTL : Older(n) \in 0..TTL /\ (Older(n) < TTL => n < TTL)
  /\ \A m, n \in 0..TTL : m <= n => Older(m) <= Older(n)
  BY RouterAssumption DEF Older

\* Time passes for those that wait for a probe as well; what they have in hand stays.
LEMMA TickStep ==
  ASSUME TypeOK, TasksPlanned, Tick
  PROVE  task' \in [Callers -> Task] /\ TasksPlanned'
<1>1. ASSUME NEW c \in Callers
      PROVE  /\ task'[c] \in Task
             /\ \A f \in {"pc", "passthrough", "req", "chosen", "wire", "rest"} :
                  task'[c][f] = task[c][f]
  <2>1. task[c] \in Task /\ Older(task[c].elapsed) \in 0..TTL
    BY OlderFacts DEF TypeOK, Task
  <2>2. task'[c] = task[c] \/ task'[c] = [task[c] EXCEPT !.elapsed = Older(@)]
    BY DEF Tick
  <2> QED
    BY <2>1, <2>2 DEF Task
<1>2. task' = [c \in Callers |-> task'[c]]
  BY DEF Tick
<1> QED
  BY <1>1, <1>2 DEF TasksPlanned, TaskPlanned

\* Whoever moves, the tasks keep their types and stay planned.
LEMMA TasksStep ==
  ASSUME TypeOK, TasksPlanned, Next
  PROVE  task' \in [Callers -> Task] /\ TasksPlanned'
<1>0. task \in [Callers -> Task]
  BY DEF TypeOK
<1>1. ASSUME NEW c \in Callers, Route(c) \/ FirstCallFails(c)
      PROVE  task' \in [Callers -> Task] /\ TasksPlanned'
  BY <1>1, RouteStep, FailureStep, WalkedKeeps
<1>2. ASSUME NEW c \in Callers, ProbeReturns(c)
      PROVE  task' \in [Callers -> Task] /\ TasksPlanned'
  <2>1. CASE Walked(c, health')
    BY <2>1, WalkedKeeps
  <2>2. CASE \E new \in Task : task' = [task EXCEPT ![c] = new] /\ TaskPlanned(new)
    BY <1>0, <2>2 DEF TasksPlanned
  <2> QED
    BY <1>2, <2>1, <2>2, ProbeStep
<1>3. ASSUME NEW c \in Callers, RoutePassthrough(c)
      PROVE  task' \in [Callers -> Task] /\ TasksPlanned'
  <2> DEFINE new == [Idle EXCEPT !.pc = "calling", !.passthrough = TRUE]
  <2>1. new \in Task /\ TaskPlanned(new)
    BY IdleType DEF Task, TaskPlanned, Idle
  <2>2. task' = [task EXCEPT ![c] = new]
    BY <1>3 DEF RoutePassthrough
  <2> HIDE DEF new
  <2> QED
    BY <1>0, <2>1, <2>2 DEF TasksPlanned
<1>4. ASSUME NEW c \in Callers,
             CallSucceeds(c) \/ SecondCallFails(c) \/ CallRefused(c) \/ Respond(c)
      PROVE  task' \in [Callers -> Task] /\ TasksPlanned'
  BY <1>4, EndStep
<1>5. CASE Tick
  BY <1>5, TickStep
<1>6. ASSUME NEW p \in Upstreams, Outage(p) \/ Recover(p)
      PROVE  task' \in [Callers -> Task] /\ TasksPlanned'
  BY <1>0, <1>6 DEF Outage, Recover, TasksPlanned
<1> QED
  BY <1>1, <1>2, <1>3, <1>4, <1>5, <1>6 DEF Next, Finish

\* The caches and the rest of the world keep their types, and a fresh and healthy entry
\* still has its probe behind it.
LEMMA HealthStep ==
  ASSUME TypeOK, HealthIsVouched, Next
  PROVE  /\ up' \in [Providers -> BOOLEAN] /\ faults' \in 0..MaxFaults
         /\ health' \in [Providers -> Verdict] /\ vouched' \in [Providers -> 0..TTL]
         /\ HealthIsVouched'
<1> DEFINE Goal ==
      /\ up' \in [Providers -> BOOLEAN] /\ faults' \in 0..MaxFaults
      /\ health' \in [Providers -> Verdict] /\ vouched' \in [Providers -> 0..TTL]
      /\ HealthIsVouched'
<1>0. /\ up \in [Providers -> BOOLEAN] /\ faults \in 0..MaxFaults
      /\ health \in [Providers -> Verdict] /\ vouched \in [Providers -> 0..TTL]
      /\ task \in [Callers -> Task] /\ MaxFaults \in Nat /\ TTL \in Nat \ {0}
  BY RouterAssumption DEF TypeOK
<1>1. ASSUME NEW c \in Callers, ProbeReturns(c) PROVE Goal
  <2> DEFINE p == task[c].wire.provider
             yes == p \in Unprobed \/ (up[p] /\ KeyWorks(task[c]))
             verdict == [healthy |-> yes, age |-> task[c].elapsed]
  <2>1. p \in Providers /\ task[c].elapsed \in 0..TTL
    BY <1>0 DEF Task, Attempt
  <2>2. yes \in BOOLEAN
    BY <1>0, <2>1 DEF KeyWorks, Task
  <2>3. /\ health' = [health EXCEPT ![p] = verdict]
        /\ vouched' = IF yes THEN [vouched EXCEPT ![p] = 0] ELSE vouched
        /\ UNCHANGED <<up, faults>>
    BY <1>1 DEF ProbeReturns
  <2> HIDE DEF yes, p
  <2>4. verdict \in Verdict /\ verdict.healthy = yes /\ verdict.age = task[c].elapsed
    BY <2>1, <2>2 DEF Verdict
  <2> HIDE DEF verdict
  <2>5. health' \in [Providers -> Verdict] /\ vouched' \in [Providers -> 0..TTL]
    BY <1>0, <2>1, <2>3, <2>4
  <2>6. HealthIsVouched'
    <3> SUFFICES ASSUME NEW x \in Providers, health'[x].healthy, health'[x].age < TTL
                 PROVE  vouched'[x] <= health'[x].age
      BY DEF HealthIsVouched
    <3>1. CASE x = p
      <4>1. health'[x] = verdict /\ yes
        BY <1>0, <2>1, <2>3, <2>4, <3>1
      <4>2. vouched'[x] = 0
        BY <1>0, <2>1, <2>3, <3>1, <4>1
      <4> QED
        BY <2>1, <2>4, <4>1, <4>2
    <3>2. CASE x # p
      <4>1. health'[x] = health[x] /\ vouched'[x] = vouched[x]
        BY <1>0, <2>3, <3>2
      <4> QED
        BY <4>1 DEF HealthIsVouched
    <3> QED
      BY <3>1, <3>2
  <2> QED
    BY <1>0, <2>3, <2>5, <2>6
<1>2. ASSUME NEW c \in Callers, FirstCallFails(c) PROVE Goal
  <2> DEFINE p == task[c].wire.provider
             verdict == [healthy |-> FALSE, age |-> 0]
  <2>1. p \in Providers
    BY <1>0 DEF Task, Attempt
  <2>2. health' = [health EXCEPT ![p] = verdict] /\ UNCHANGED <<up, vouched>>
    BY <1>2 DEF FirstCallFails
  <2>3. faults' \in 0..MaxFaults
    BY <1>0, <1>2 DEF FirstCallFails, CanFail
  <2> HIDE DEF p
  <2>4. verdict \in Verdict /\ ~verdict.healthy
    BY <1>0 DEF Verdict
  <2> HIDE DEF verdict
  <2>5. health' \in [Providers -> Verdict]
    BY <1>0, <2>1, <2>2, <2>4
  <2>6. HealthIsVouched'
    BY <1>0, <2>1, <2>2, <2>4 DEF HealthIsVouched
  <2> QED
    BY <1>0, <2>2, <2>3, <2>5, <2>6
<1>3. CASE Tick
  <2>1. ASSUME NEW p \in Providers
        PROVE  /\ health'[p] \in Verdict /\ vouched'[p] \in 0..TTL
               /\ health'[p].healthy = health[p].healthy
               /\ health'[p].age = Older(health[p].age) /\ vouched'[p] = Older(vouched[p])
    <3>1. health[p] \in Verdict /\ Older(health[p].age) \in 0..TTL /\ Older(vouched[p]) \in 0..TTL
      BY <1>0, OlderFacts DEF Verdict
    <3>2. health'[p] = [health[p] EXCEPT !.age = Older(@)] /\ vouched'[p] = Older(vouched[p])
      BY <1>3 DEF Tick
    <3> QED
      BY <3>1, <3>2 DEF Verdict
  <2>2. health' \in [Providers -> Verdict] /\ vouched' \in [Providers -> 0..TTL]
    BY <1>3, <2>1 DEF Tick
  <2>3. HealthIsVouched'
    <3> SUFFICES ASSUME NEW p \in Providers, health'[p].healthy, health'[p].age < TTL
                 PROVE  vouched'[p] <= health'[p].age
      BY DEF HealthIsVouched
    <3>1. health[p].age \in 0..TTL /\ vouched[p] \in 0..TTL
      BY <1>0 DEF Verdict
    <3>2. health[p].age < TTL
      BY <2>1, <3>1, OlderFacts
    <3>3. vouched[p] <= health[p].age
      BY <2>1, <3>2 DEF HealthIsVouched
    <3> QED
      BY <2>1, <3>1, <3>3, OlderFacts
  <2> QED
    BY <1>0, <1>3, <2>2, <2>3 DEF Tick
<1>4. ASSUME NEW p \in Upstreams, Outage(p) \/ Recover(p) PROVE Goal
  <2>1. up' = [up EXCEPT ![p] = FALSE] \/ up' = [up EXCEPT ![p] = TRUE]
    BY <1>4 DEF Outage, Recover
  <2>2. up' \in [Providers -> BOOLEAN]
    BY <1>0, <2>1
  <2>3. (faults < MaxFaults /\ faults' = faults + 1) \/ faults' = faults
    BY <1>4 DEF Outage, Recover
  <2>4. faults' \in 0..MaxFaults
    BY <1>0, <2>3
  <2>5. UNCHANGED <<health, vouched>>
    BY <1>4 DEF Outage, Recover
  <2> QED
    BY <1>0, <2>2, <2>4, <2>5 DEF HealthIsVouched
<1>5. ASSUME NEW c \in Callers, SecondCallFails(c) PROVE Goal
  BY <1>0, <1>5 DEF SecondCallFails, CanFail, HealthIsVouched
<1>6. CASE UNCHANGED <<up, faults, health, vouched>>
  BY <1>0, <1>6 DEF HealthIsVouched
<1>7. \/ \E c \in Callers : ProbeReturns(c) \/ FirstCallFails(c) \/ SecondCallFails(c)
      \/ \E p \in Upstreams : Outage(p) \/ Recover(p)
      \/ Tick
      \/ UNCHANGED <<up, faults, health, vouched>>
  BY DEF Next, Finish, Route, RoutePassthrough, CallSucceeds, CallRefused, Respond
<1> QED
  BY <1>1, <1>2, <1>3, <1>4, <1>5, <1>6, <1>7

-----------------------------------------------------------------------------
(* The theorems *)

\* Through every detour of every request, and every race on the health cache, the invariant
\* holds.
THEOREM InvariantHolds == Spec => []IInv
<1>1. Init => IInv
  <2> SUFFICES ASSUME Init PROVE IInv
    OBVIOUS
  <2>1. Absent \in Verdict /\ Absent.age = TTL /\ TTL \in 0..TTL /\ 0 \in 0..MaxFaults
    BY RouterAssumption DEF Absent, Verdict
  <2>2. TypeOK
    BY <2>1, IdleType DEF Init, TypeOK
  <2>3. TasksPlanned
    BY DEF Init, TasksPlanned, TaskPlanned, Idle
  <2>4. HealthIsVouched
    BY <2>1, RouterAssumption DEF Init, HealthIsVouched
  <2> QED
    BY <2>2, <2>3, <2>4 DEF IInv
<1>2. IInv /\ [Next]_vars => IInv'
  <2> SUFFICES ASSUME IInv, [Next]_vars PROVE IInv'
    OBVIOUS
  <2>1. CASE Next
    BY <2>1, TasksStep, HealthStep DEF IInv, TypeOK
  <2>2. CASE UNCHANGED vars
    BY <2>2 DEF vars, IInv, TypeOK, TasksPlanned, HealthIsVouched
  <2> QED
    BY <2>1, <2>2
<1> QED
  BY <1>1, <1>2, PTL DEF Spec

\* Every variable keeps its type.
THEOREM TypeCorrect == Spec => []TypeOK
<1>1. IInv => TypeOK
  BY DEF IInv
<1> QED
  BY <1>1, InvariantHolds, PTL

\* What is called is planned.
LEMMA ServedIsPlanned ==
  ASSUME IInv, NEW c \in Callers, Served(c)
  PROVE  /\ task[c].req \in Requests /\ Planned(task[c].req, task[c].wire)
  BY DEF IInv, TypeOK, Task, TasksPlanned, TaskPlanned, Served

\* A saver request stays with the open-source providers, if models are of one tier.
THEOREM SaverIsCeiled == Spec => []SaverCeiling
<1>1. IInv => SaverCeiling
  <2> SUFFICES ASSUME IInv, TiersApart, NEW c \in Callers, Served(c),
                      Asked[task[c].req].policy = "saver", Asked[task[c].req].bar = None,
                      Asked[task[c].req].pin = ""
               PROVE  task[c].wire.provider \in OpenSource
    BY DEF SaverCeiling
  <2> DEFINE wire == task[c].wire
             q == Asked[task[c].req]
  <2>1. Planned(task[c].req, wire)
    BY ServedIsPlanned
  <2>2. PICK r \in Rows : Qualifies(q, r) /\ Registry[r].model = wire.model
    BY <2>1 DEF Planned
  <2>3. Registry[r].provider \in OpenSource
    BY <2>2 DEF Qualifies, Pool
  <2>4. /\ wire.slug \in Rows /\ Registry[wire.slug].provider = wire.provider
        /\ Registry[wire.slug].model = wire.model
    BY <2>1 DEF Planned
  <2> QED
    BY <2>2, <2>3, <2>4 DEF TiersApart
<1> QED
  BY <1>1, InvariantHolds, PTL

\* The slug on the wire is the called provider's own.
THEOREM SlugsFit == Spec => []SlugIsTheProviders
<1>1. IInv => SlugIsTheProviders
  BY ServedIsPlanned DEF SlugIsTheProviders, Planned
<1> QED
  BY <1>1, InvariantHolds, PTL

\* A model with one row is only called for requests that row qualifies for.
THEOREM LoneRowsQualify == Spec => []QualifiedIfOneRow
<1>1. IInv => QualifiedIfOneRow
  <2> SUFFICES ASSUME IInv, NEW c \in Callers, Served(c), Asked[task[c].req].pin = "",
                      \A r \in Rows :
                        Registry[r].model = task[c].wire.model => r = task[c].wire.slug
               PROVE  Qualifies(Asked[task[c].req], task[c].wire.slug)
    BY DEF QualifiedIfOneRow
  <2>1. Planned(task[c].req, task[c].wire)
    BY ServedIsPlanned
  <2> QED
    BY <2>1 DEF Planned
<1> QED
  BY <1>1, InvariantHolds, PTL

\* Where a walk ends in a call, the cache has a probe behind it.
LEMMA WalkedIsVouched ==
  ASSUME TypeOK, HealthIsVouched', NEW c \in Callers, NEW d \in Callers, SkipUnhealthy,
         task' \in [Callers -> Task], health' \in [Providers -> Verdict],
         vouched' \in [Providers -> 0..TTL], Walked(c, health'), Sends(d)
  PROVE  vouched'[task'[d].wire.provider] < TTL
<1>1. PICK new \in Task :
        /\ task' = [task EXCEPT ![c] = new]
        /\ new.pc = "calling" =>
             health'[new.wire.provider].healthy /\ health'[new.wire.provider].age < TTL
  BY DEF Walked
<1>2. task \in [Callers -> Task]
  BY DEF TypeOK
<1>3. CASE d # c
  BY <1>1, <1>2, <1>3 DEF Sends, Served
<1>4. CASE d = c
  <2> DEFINE p == new.wire.provider
  <2>1. task'[d] = new /\ new.pc = "calling" /\ p \in Providers
    BY <1>1, <1>2, <1>4 DEF Sends, Served, Task, Attempt
  <2>2. health'[p].healthy /\ health'[p].age < TTL
    BY <1>1, <2>1
  <2>3. vouched'[p] <= health'[p].age
    BY <2>1, <2>2 DEF HealthIsVouched
  <2>4. vouched'[p] \in 0..TTL /\ health'[p].age \in 0..TTL /\ TTL \in Nat
    BY <2>1, RouterAssumption DEF Verdict
  <2>5. vouched'[p] < TTL
    BY <2>2, <2>3, <2>4
  <2> QED
    BY <2>1, <2>5
<1> QED
  BY <1>3, <1>4

\* A request is only sent where a probe said yes within the time to live.
THEOREM CallsAreVouched == Spec => VouchedFor
<1> DEFINE A == \A c \in Callers :
                  SkipUnhealthy /\ Sends(c) => vouched'[task'[c].wire.provider] < TTL
<1>1. IInv /\ IInv' /\ [Next]_vars => [A]_vars
  <2> SUFFICES ASSUME IInv, IInv', Next, NEW d \in Callers, SkipUnhealthy, Sends(d)
               PROVE  vouched'[task'[d].wire.provider] < TTL
    OBVIOUS
  <2>0. /\ TypeOK /\ TasksPlanned /\ HealthIsVouched' /\ task \in [Callers -> Task]
        /\ task' \in [Callers -> Task] /\ health' \in [Providers -> Verdict]
        /\ vouched' \in [Providers -> 0..TTL] /\ TTL \in Nat \ {0}
    BY RouterAssumption DEF IInv, TypeOK
  <2>1. ASSUME NEW c \in Callers, Walked(c, health')
        PROVE  vouched'[task'[d].wire.provider] < TTL
    BY <2>0, <2>1, WalkedIsVouched
  <2>2. ASSUME NEW c \in Callers, Route(c)
        PROVE  vouched'[task'[d].wire.provider] < TTL
    <3>1. Walked(c, health) /\ health' = health
      BY <2>0, <2>2, RouteStep DEF Route
    <3> QED
      BY <2>1, <3>1
  <2>3. ASSUME NEW c \in Callers, FirstCallFails(c)
        PROVE  vouched'[task'[d].wire.provider] < TTL
    BY <2>0, <2>1, <2>3, FailureStep
  <2>4. ASSUME NEW c \in Callers, ProbeReturns(c)
        PROVE  vouched'[task'[d].wire.provider] < TTL
    <3>1. CASE Walked(c, health')
      BY <2>1, <3>1
    <3>2. CASE \E new \in Task : /\ task' = [task EXCEPT ![c] = new]
                                 /\ vouched'[new.wire.provider] = 0
      BY <2>0, <3>2 DEF Sends, Served
    <3> QED
      BY <2>0, <2>4, <3>1, <3>2, ProbeStep
  <2>5. ASSUME NEW c \in Callers,
               \/ RoutePassthrough(c) \/ CallSucceeds(c) \/ SecondCallFails(c)
               \/ CallRefused(c) \/ Respond(c)
        PROVE  FALSE
    <3> DEFINE own == [Idle EXCEPT !.pc = "calling", !.passthrough = TRUE]
               end == Ended(task[c])
    <3>1. own.passthrough /\ Idle.pc = "idle"
      BY DEF Idle
    <3>2. end.pc = "ended"
      BY <2>0, EndedType
    <3>3. \/ task' = [task EXCEPT ![c] = own] \/ task' = [task EXCEPT ![c] = end]
          \/ task' = [task EXCEPT ![c] = Idle]
      BY <2>5 DEF RoutePassthrough, CallSucceeds, SecondCallFails, CallRefused, Respond
    <3> HIDE DEF own, end
    <3> QED
      BY <2>0, <3>1, <3>2, <3>3 DEF Sends, Served
  <2>6. CASE Tick
    BY <2>0, <2>6 DEF Tick, Sends, Served, Task
  <2>7. ASSUME NEW p \in Upstreams, Outage(p) \/ Recover(p)
        PROVE  FALSE
    BY <2>7 DEF Outage, Recover, Sends, Served
  <2> QED
    BY <2>2, <2>3, <2>4, <2>5, <2>6, <2>7 DEF Next, Finish
<1> QED
  BY <1>1, InvariantHolds, PTL DEF Spec, VouchedFor
=============================================================================
