-------------------------- MODULE RequestPathProofs --------------------------
(***************************************************************************)
(* Proofs about RequestPath for any requests, kinds, tenants, prompts and  *)
(* models.                                                                 *)
(*                                                                         *)
(* What the caches hold is only as good as what the handlers put there,    *)
(* and what a handler replays only as good as what it took out, so the     *)
(* invariant speaks of both: RequestSound says of every request what its   *)
(* locals are worth where its handler stands, and how often it has been    *)
(* reported and recorded by then.                                          *)
(***************************************************************************)
EXTENDS RequestPath, TLAPS

Answered == {"store", "embed", "report", "record", "streaming", "closing", "broken", "answered"}
Replaying == {"hit", "replayed"}
Reported == {"failed", "replayed", "record", "answered"}
First == {"exact", "semantic", "call", "failover", "open"} \cup Replaying

\* The completion in hand came from the model in force, for this request.
AnswerSound(r) ==
    /\ completion[r] \in Completion
    /\ completion[r].tenant = kind[r].tenant
    /\ completion[r].prompt = kind[r].prompt
    /\ completion[r].by = decision[r]
    /\ completion[r].fellBack \/ decision[r] = servedModel[r]
    /\ completion[r].pinned = Pins(r)
    /\ completion[r].pinned => completion[r].label = decision[r]

\* The completion in hand came from a cache, filed under the model in force.
ReplaySound(r) ==
    /\ completion[r] \in Completion
    /\ completion[r].tenant = kind[r].tenant
    /\ completion[r].fellBack \/ completion[r].by = servedModel[r]
    /\ completion[r].pinned => completion[r].label = completion[r].by

RequestSound(r) ==
    /\ pc[r] \notin {"new", "rejected", "failed"} =>
         decision[r] \in Models /\ servedModel[r] \in Models
    /\ pc[r] \in First => decision[r] = servedModel[r]
    /\ pc[r] \in Answered => AnswerSound(r)
    /\ pc[r] \in Replaying => ReplaySound(r)
    /\ recorded[r] = (IF pc[r] = "answered" THEN 1 ELSE 0)
    /\ pc[r] \in Reported => events[r] = 1
    /\ pc[r] = "cut" => events[r] \in {0, 1}
    /\ pc[r] \notin Reported \cup {"cut"} => events[r] = 0

\* What was stored pinned names the model that gave it.
LabelsSound == \A e \in exact \cup semantic : e.value.pinned => e.value.label = e.value.by

IInv ==
    /\ TypeOK
    /\ \A r \in Requests : RequestSound(r)
    /\ LabelsSound
    /\ CachesKeepTenantAndModel
    /\ AnswersDoNotDrift

-----------------------------------------------------------------------------
(* Types *)

\* The fields of a request's kind have the types the handlers read them with.
LEMMA KindFields ==
  ASSUME TypeOK, NEW r \in Requests
  PROVE  /\ kind[r].route \in {"chat", "messages", "responses"}
         /\ kind[r].stream \in BOOLEAN /\ kind[r].cacheable \in BOOLEAN
         /\ kind[r].overrides \in BOOLEAN
         /\ kind[r].tenant \in Tenants /\ kind[r].prompt \in Prompts
  BY RequestPathAssumption DEF TypeOK

\* What an adapter answers, pinned, is a completion for the request.
LEMMA AnswersType ==
  ASSUME TypeOK, NEW r \in Requests, decision[r] \in Models, NEW c \in Answers(r)
  PROVE  /\ c \in Completion
         /\ c.tenant = kind[r].tenant /\ c.prompt = kind[r].prompt /\ c.by = decision[r]
         /\ c.fellBack = (pc[r] = "fallback")
         /\ c.pinned = Pins(r)
         /\ c.pinned => c.label = decision[r]
<1>1. PICK echo \in {decision[r], Slug} :
        c = [tenant |-> kind[r].tenant, prompt |-> kind[r].prompt, by |-> decision[r],
             label |-> Pinned(r, echo), pinned |-> Pins(r), fellBack |-> pc[r] = "fallback"]
  BY DEF Answers
<1>2. Pinned(r, echo) \in Models \cup {Slug}
  BY DEF Pinned
<1>3. Pins(r) => Pinned(r, echo) = decision[r]
  BY DEF Pinned
<1>4. (pc[r] = "fallback") \in BOOLEAN /\ Pins(r) \in BOOLEAN
  BY DEF Pins
<1>5. kind[r].tenant \in Tenants /\ kind[r].prompt \in Prompts
  BY KindFields
<1>6. c \in Completion
  BY <1>1, <1>2, <1>4, <1>5 DEF Completion
<1> QED
  BY <1>1, <1>3, <1>6

\* set files an answer under the request's tenant, served model and prompt.
LEMMA EntryType ==
  ASSUME TypeOK, NEW r \in Requests, servedModel[r] \in Models, NEW c \in Completion
  PROVE  EntryFor(r, c) \in Entry
  BY KindFields DEF EntryFor, Entry

\* Replacing the one value of a key leaves the exact cache a set of entries.
LEMMA PutType ==
  ASSUME TypeOK, NEW r \in Requests, servedModel[r] \in Models, NEW c \in Completion
  PROVE  Put(r, c) \subseteq Entry
<1>1. EntryFor(r, c) \in Entry
  BY EntryType
<1> QED
  BY <1>1 DEF Put, TypeOK

\* Each step of a handler keeps the types of its locals and of the shared caches.
LEMMA TypeStep ==
  ASSUME TypeOK, NEW r \in Requests, RequestSound(r),
         \/ Reject(r) \/ RouteFails(r) \/ Route(r)
         \/ CacheStep(r) \/ CallStep(r) \/ StreamStep(r)
  PROVE  TypeOK'
<1> USE DEF Goto, Fire, caches, Steps
<1>1. CASE Reject(r) \/ RouteFails(r)
  BY <1>1 DEF Reject, RouteFails, TypeOK
<1>2. CASE Route(r)
  <2>1. PICK m \in Models : /\ decision' = [decision EXCEPT ![r] = m]
                            /\ servedModel' = [servedModel EXCEPT ![r] = m]
    BY <1>2 DEF Route
  <2>2. pc' \in [Requests -> Steps]
    BY <1>2 DEF Route, TypeOK
  <2> QED
    BY <1>2, <2>1, <2>2 DEF Route, TypeOK
<1>3. CASE CacheStep(r)
  <2>1. CASE ExactMiss(r) \/ SemanticMiss(r) \/ Replay(r)
    BY <2>1 DEF ExactMiss, SemanticMiss, Replay, TypeOK
  <2>2. CASE ExactHit(r)
    <3>1. PICK e \in exact : completion' = [completion EXCEPT ![r] = e.value]
      BY <2>2 DEF ExactHit, Cached
    <3>2. e.value \in Completion
      BY DEF TypeOK, Entry
    <3> QED
      BY <2>2, <3>1, <3>2 DEF ExactHit, TypeOK
  <2>3. CASE SemanticHit(r)
    <3>1. PICK e \in semantic : /\ completion' = [completion EXCEPT ![r] = e.value]
                                /\ exact' = Put(r, e.value)
      BY <2>3 DEF SemanticHit, Similar
    <3>2. e.value \in Completion
      BY DEF TypeOK, Entry
    <3>3. servedModel[r] \in Models
      BY <2>3 DEF SemanticHit, RequestSound
    <3>4. exact' \subseteq Entry
      BY <3>1, <3>2, <3>3, PutType
    <3> QED
      BY <2>3, <3>1, <3>2, <3>4 DEF SemanticHit, TypeOK
  <2>4. CASE StoreExact(r) \/ StoreSemantic(r)
    <3>1. servedModel[r] \in Models /\ completion[r] \in Completion
      BY <2>4 DEF StoreExact, StoreSemantic, RequestSound, Answered, AnswerSound
    <3>2. Put(r, completion[r]) \subseteq Entry /\ EntryFor(r, completion[r]) \in Entry
      BY <3>1, PutType, EntryType
    <3> QED
      BY <2>4, <3>2 DEF StoreExact, StoreSemantic, TypeOK
  <2> QED
    BY <1>3, <2>1, <2>2, <2>3, <2>4 DEF CacheStep
<1>4. CASE CallStep(r) \/ StreamStep(r)
  <2>1. CASE Respond(r) \/ OpenStream(r)
    <3>1. PICK c \in Answers(r) : completion' = [completion EXCEPT ![r] = c]
      BY <2>1 DEF Respond, OpenStream
    <3>2. decision[r] \in Models
      BY <2>1 DEF Respond, OpenStream, RequestSound
    <3>3. c \in Completion
      BY <3>2, AnswersType
    <3>4. pc' \in [Requests -> Steps]
      BY <2>1 DEF Respond, OpenStream, TypeOK
    <3> QED
      BY <2>1, <3>1, <3>3, <3>4 DEF Respond, OpenStream, TypeOK
  <2>2. CASE CallFails(r) \/ GiveUp(r) \/ Report(r) \/ Record(r)
    BY <2>2 DEF CallFails, GiveUp, Report, Record, TypeOK
  <2>3. CASE Failover(r)
    BY <2>3 DEF Failover, TypeOK
  <2>4. CASE EndStream(r) \/ BreakStream(r) \/ FailStream(r) \/ Disconnect(r)
    BY <2>4 DEF EndStream, BreakStream, FailStream, Disconnect, TypeOK
  <2> QED
    BY <1>4, <2>1, <2>2, <2>3, <2>4 DEF CallStep, StreamStep
<1> QED
  BY <1>1, <1>2, <1>3, <1>4

-----------------------------------------------------------------------------
(* What a step does to the requests and to the caches *)

\* A step of one request leaves the others as they were.
LEMMA OthersStay ==
  ASSUME TypeOK, NEW r \in Requests, NEW q \in Requests, q # r, RequestSound(q),
         \/ Reject(r) \/ RouteFails(r) \/ Route(r)
         \/ CacheStep(r) \/ CallStep(r) \/ StreamStep(r)
  PROVE  RequestSound(q)'
<1>1. /\ kind' = kind /\ pc'[q] = pc[q] /\ decision'[q] = decision[q]
      /\ servedModel'[q] = servedModel[q] /\ completion'[q] = completion[q]
      /\ events'[q] = events[q] /\ recorded'[q] = recorded[q]
  BY DEF TypeOK, Goto, Fire, caches, Reject, RouteFails, Route, CacheStep, CallStep,
         StreamStep, ExactMiss, ExactHit, SemanticMiss, SemanticHit, Replay, StoreExact,
         StoreSemantic, Respond, CallFails, Failover, GiveUp, Report, Record, OpenStream,
         EndStream, BreakStream, FailStream, Disconnect
<1> QED
  BY <1>1 DEF RequestSound, AnswerSound, ReplaySound, Pins

\* A handler's own step keeps what its step counter says of its locals and reports.
LEMMA RequestStep ==
  ASSUME IInv, NEW r \in Requests,
         \/ Reject(r) \/ RouteFails(r) \/ Route(r)
         \/ CacheStep(r) \/ CallStep(r) \/ StreamStep(r)
  PROVE  RequestSound(r)'
<1>0. TypeOK /\ RequestSound(r) /\ CachesKeepTenantAndModel /\ LabelsSound
  BY DEF IInv
<1> USE DEF RequestSound, AnswerSound, ReplaySound, First, Reported, Answered, Replaying,
            Pins, Goto, Fire, caches
<1>1. CASE Reject(r) \/ RouteFails(r)
  BY <1>0, <1>1 DEF Reject, RouteFails, TypeOK
<1>2. CASE Route(r)
  BY <1>0, <1>2 DEF Route, TypeOK
<1>3. CASE CacheStep(r)
  <2>1. CASE ExactMiss(r) \/ SemanticMiss(r) \/ Replay(r)
    BY <1>0, <2>1 DEF ExactMiss, SemanticMiss, Replay, TypeOK
  <2>2. CASE ExactHit(r) \/ SemanticHit(r)
    <3>1. PICK e \in exact \cup semantic :
            /\ completion' = [completion EXCEPT ![r] = e.value]
            /\ e.tenant = kind[r].tenant /\ e.model = servedModel[r]
      BY <2>2 DEF ExactHit, SemanticHit, Cached, Similar
    <3>2. e.value \in Completion
      BY <1>0 DEF TypeOK, Entry
    <3>3. /\ e.value.tenant = e.tenant /\ (e.value.by = e.model \/ e.value.fellBack)
          /\ e.value.pinned => e.value.label = e.value.by
      BY <1>0 DEF CachesKeepTenantAndModel, LabelsSound
    <3> QED
      BY <1>0, <2>2, <3>1, <3>2, <3>3 DEF ExactHit, SemanticHit, TypeOK
  <2>3. CASE StoreExact(r) \/ StoreSemantic(r)
    BY <1>0, <2>3 DEF StoreExact, StoreSemantic, TypeOK
  <2> QED
    BY <1>3, <2>1, <2>2, <2>3 DEF CacheStep
<1>4. CASE CallStep(r) \/ StreamStep(r)
  <2>1. CASE Respond(r) \/ OpenStream(r)
    <3>1. PICK c \in Answers(r) : completion' = [completion EXCEPT ![r] = c]
      BY <2>1 DEF Respond, OpenStream
    <3>2. /\ c \in Completion
          /\ c.tenant = kind[r].tenant /\ c.prompt = kind[r].prompt /\ c.by = decision[r]
          /\ c.fellBack = (pc[r] = "fallback")
          /\ c.pinned = Pins(r)
          /\ c.pinned => c.label = decision[r]
      BY <1>0, <2>1, AnswersType DEF Respond, OpenStream
    <3>3. c.fellBack \/ decision[r] = servedModel[r]
      BY <1>0, <2>1, <3>2 DEF Respond, OpenStream
    <3>4. pc'[r] \in {"store", "report", "streaming"}
      BY <1>0, <2>1 DEF Respond, OpenStream, TypeOK
    <3> QED
      BY <1>0, <2>1, <3>1, <3>2, <3>3, <3>4 DEF Respond, OpenStream, TypeOK
  <2>2. CASE CallFails(r) \/ GiveUp(r)
    BY <1>0, <2>2 DEF CallFails, GiveUp, TypeOK
  <2>3. CASE Report(r) \/ Record(r)
    BY <1>0, <2>3 DEF Report, Record, TypeOK
  <2>4. CASE Failover(r)
    BY <1>0, <2>4 DEF Failover, TypeOK
  <2>5. CASE EndStream(r) \/ BreakStream(r) \/ FailStream(r) \/ Disconnect(r)
    BY <1>0, <2>5 DEF EndStream, BreakStream, FailStream, Disconnect, TypeOK
  <2> QED
    BY <1>4, <2>1, <2>2, <2>3, <2>4, <2>5 DEF CallStep, StreamStep
<1> QED
  BY <1>1, <1>2, <1>3, <1>4

\* What a handler puts into a cache is sound for the key it goes under.
LEMMA CachesStep ==
  ASSUME IInv, NEW r \in Requests,
         \/ Reject(r) \/ RouteFails(r) \/ Route(r)
         \/ CacheStep(r) \/ CallStep(r) \/ StreamStep(r)
  PROVE  CachesKeepTenantAndModel' /\ AnswersDoNotDrift' /\ LabelsSound'
<1>0. /\ TypeOK /\ RequestSound(r) /\ CachesKeepTenantAndModel /\ AnswersDoNotDrift
      /\ LabelsSound
  BY DEF IInv
<1>1. CASE SemanticHit(r)
  <2>1. PICK e \in semantic : /\ exact' = Put(r, e.value)
                              /\ e.tenant = kind[r].tenant /\ e.model = servedModel[r]
    BY <1>1 DEF SemanticHit, Similar
  <2>2. e.value.tenant = e.tenant /\ (e.value.by = e.model \/ e.value.fellBack)
    BY <1>0 DEF CachesKeepTenantAndModel
  <2>3. semantic' = semantic
    BY <1>1 DEF SemanticHit
  <2>4. ASSUME NEW x \in exact' PROVE x \in exact \/ x = EntryFor(r, e.value)
    BY <2>1 DEF Put
  <2>5. /\ EntryFor(r, e.value).value = e.value
        /\ EntryFor(r, e.value).tenant = e.tenant
        /\ EntryFor(r, e.value).model = e.model
    BY <2>1 DEF EntryFor
  <2>6. CachesKeepTenantAndModel'
    BY <1>0, <2>2, <2>3, <2>4, <2>5 DEF CachesKeepTenantAndModel
  <2>7. AnswersDoNotDrift'
    BY <1>0, <2>3, <2>4, <2>5 DEF AnswersDoNotDrift
  <2>8. LabelsSound'
    BY <1>0, <2>3, <2>4, <2>5 DEF LabelsSound
  <2> QED
    BY <2>6, <2>7, <2>8
<1>2. CASE StoreExact(r) \/ StoreSemantic(r)
  <2> DEFINE new == EntryFor(r, completion[r])
  <2>1. AnswerSound(r)
    BY <1>0, <1>2 DEF StoreExact, StoreSemantic, RequestSound, Answered
  <2>2. /\ new.value = completion[r] /\ new.tenant = kind[r].tenant
        /\ new.model = servedModel[r] /\ new.prompt = kind[r].prompt
    BY DEF EntryFor
  <2>3. /\ new.value.tenant = new.tenant /\ new.value.prompt = new.prompt
        /\ new.value.by = new.model \/ new.value.fellBack
        /\ new.value.pinned => new.value.label = new.value.by
    BY <2>1, <2>2 DEF AnswerSound
  <2>4. /\ \A x \in exact' : x \in exact \/ x = new
        /\ \A x \in semantic' : x \in semantic \/ x = new
        /\ semantic \subseteq semantic'
    BY <1>2 DEF StoreExact, StoreSemantic, Put
  <2> HIDE DEF new
  <2>5. CachesKeepTenantAndModel'
    BY <1>0, <2>3, <2>4 DEF CachesKeepTenantAndModel
  <2>6. AnswersDoNotDrift'
    BY <1>0, <2>3, <2>4 DEF AnswersDoNotDrift
  <2>7. LabelsSound'
    BY <1>0, <2>3, <2>4 DEF LabelsSound
  <2> QED
    BY <2>5, <2>6, <2>7
<1>3. CASE UNCHANGED caches
  BY <1>0, <1>3 DEF caches, CachesKeepTenantAndModel, AnswersDoNotDrift, LabelsSound
<1>4. SemanticHit(r) \/ StoreExact(r) \/ StoreSemantic(r) \/ UNCHANGED caches
  BY DEF caches, Reject, RouteFails, Route, CacheStep, CallStep, StreamStep, ExactMiss,
         ExactHit, SemanticMiss, Replay, Respond, CallFails, Failover, GiveUp, Report,
         Record, OpenStream, EndStream, BreakStream, FailStream, Disconnect
<1> QED
  BY <1>1, <1>2, <1>3, <1>4

-----------------------------------------------------------------------------
(* The invariant *)

\* With empty caches and no request begun, the invariant holds.
LEMMA InitSound == Init => IInv
<1> SUFFICES ASSUME Init PROVE IInv
  OBVIOUS
<1>1. TypeOK
  BY DEF Init, TypeOK, Steps
<1>2. \A r \in Requests : RequestSound(r)
  BY DEF Init, RequestSound, Reported, First, Answered, Replaying
<1>3. CachesKeepTenantAndModel /\ AnswersDoNotDrift /\ LabelsSound
  BY DEF Init, CachesKeepTenantAndModel, AnswersDoNotDrift, LabelsSound
<1> QED
  BY <1>1, <1>2, <1>3 DEF IInv

\* Whatever handler moves, every request and both caches stay as the invariant says.
LEMMA StepSound == IInv /\ [Next]_vars => IInv'
<1> SUFFICES ASSUME IInv, [Next]_vars PROVE IInv'
  OBVIOUS
<1>1. CASE Next
  <2>1. PICK r \in Requests : \/ Reject(r) \/ RouteFails(r) \/ Route(r)
                              \/ CacheStep(r) \/ CallStep(r) \/ StreamStep(r)
    BY <1>1 DEF Next
  <2>2. TypeOK /\ \A q \in Requests : RequestSound(q)
    BY DEF IInv
  <2>3. TypeOK'
    BY <2>1, <2>2, TypeStep
  <2>4. \A q \in Requests : RequestSound(q)'
    BY <2>1, <2>2, OthersStay, RequestStep
  <2>5. CachesKeepTenantAndModel' /\ AnswersDoNotDrift' /\ LabelsSound'
    BY <2>1, CachesStep
  <2> QED
    BY <2>3, <2>4, <2>5 DEF IInv
<1>2. CASE UNCHANGED vars
  BY <1>2 DEF IInv, vars, caches, TypeOK, RequestSound, AnswerSound, ReplaySound,
              Pins, CachesKeepTenantAndModel, AnswersDoNotDrift, LabelsSound
<1> QED
  BY <1>1, <1>2

\* At every step of every request the invariant above holds.
THEOREM InvariantHolds == Spec => []IInv
  BY InitSound, StepSound, PTL DEF Spec

\* Every variable keeps its type.
THEOREM TypeCorrect == Spec => []TypeOK
<1>1. IInv => TypeOK
  BY DEF IInv
<1> QED
  BY <1>1, InvariantHolds, PTL

\* The caches shared by the chat and messages handlers replay only what was produced for
\* the tenant that asks and, failovers aside, by the model it is filed under.
THEOREM CachesAreKept == Spec => []CachesKeepTenantAndModel
<1>1. IInv => CachesKeepTenantAndModel
  BY DEF IInv
<1> QED
  BY <1>1, InvariantHolds, PTL

\* The backfill of the exact cache after a semantic hit never makes an answer drift.
THEOREM NoDrift == Spec => []AnswersDoNotDrift
<1>1. IInv => AnswersDoNotDrift
  BY DEF IInv
<1> QED
  BY <1>1, InvariantHolds, PTL

\* The headers and bodies a client gets name the model that answered, except the body of
\* messages after a failover and, of what the caches replay, what was got by a failover or
\* stored unpinned.
THEOREM AnnouncementsHold == Spec => []AnsweredAsAnnounced
<1>1. IInv => AnsweredAsAnnounced
  <2> SUFFICES ASSUME IInv, NEW r \in Requests
               PROVE  AnsweredAsAnnounced!(r)
    BY DEF AnsweredAsAnnounced
  <2>1. RequestSound(r)
    BY DEF IInv
  <2>2. CASE pc[r] = "answered"
    BY <2>1, <2>2 DEF RequestSound, AnswerSound, Answered, BodyModel, Pins
  <2>3. CASE pc[r] = "replayed"
    BY <2>1, <2>3 DEF RequestSound, ReplaySound, Replaying, First, BodyModel
  <2> QED
    BY <2>2, <2>3
<1> QED
  BY <1>1, InvariantHolds, PTL

-----------------------------------------------------------------------------
(* The refinement *)

\* No request begun is no request resolved, reported or recorded.
LEMMA InitRefines == Init => Lifecycle!LInit
<1> SUFFICES ASSUME Init PROVE Lifecycle!LInit
  OBVIOUS
<1>1. \A r \in Requests : pc[r] = "new" /\ events[r] = 0 /\ recorded[r] = 0
  BY DEF Init
<1> QED
  BY <1>1 DEF Lifecycle!LInit

Ends == {"rejected", "failed", "replayed", "answered", "cut"}

OutcomeOf(r) == IF pc[r] \in Ends THEN pc[r] ELSE "open"

EventOf(r) ==
    CASE events[r] = 0 -> "none"
      [] events[r] = 1 -> IF pc[r] = "failed" THEN "failure" ELSE "success"
      [] OTHER -> "repeated"

\* The mapped variables, request by request.
outcomes == [r \in Requests |-> OutcomeOf(r)]
told == [r \in Requests |-> EventOf(r)]
exchanges == {r \in Requests : recorded[r] = 1}

\* A step of one request changes the mapped variables at that request only.
LEMMA MappedStep ==
  ASSUME TypeOK, TypeOK', NEW r \in Requests,
         \A q \in Requests \ {r} : /\ pc'[q] = pc[q] /\ events'[q] = events[q]
                                   /\ recorded'[q] = recorded[q]
  PROVE  /\ outcomes' = [outcomes EXCEPT ![r] = OutcomeOf(r)']
         /\ told' = [told EXCEPT ![r] = EventOf(r)']
         /\ recorded'[r] = recorded[r] => exchanges' = exchanges
         /\ recorded'[r] = 1 => exchanges' = exchanges \cup {r}
<1>1. \A q \in Requests \ {r} : OutcomeOf(q)' = OutcomeOf(q) /\ EventOf(q)' = EventOf(q)
  BY DEF OutcomeOf, EventOf
<1>2. outcomes' = [outcomes EXCEPT ![r] = OutcomeOf(r)']
  BY <1>1 DEF outcomes
<1>3. told' = [told EXCEPT ![r] = EventOf(r)']
  BY <1>1 DEF told
<1> QED
  BY <1>2, <1>3 DEF exchanges

\* A handler's step leaves the step, the events and the record calls of others alone.
LEMMA OnlyOne ==
  ASSUME TypeOK, NEW r \in Requests, NEW q \in Requests \ {r},
         \/ Reject(r) \/ RouteFails(r) \/ Route(r)
         \/ CacheStep(r) \/ CallStep(r) \/ StreamStep(r)
  PROVE  pc'[q] = pc[q] /\ events'[q] = events[q] /\ recorded'[q] = recorded[q]
  BY DEF TypeOK, Goto, Fire, caches, Reject, RouteFails, Route, CacheStep, CallStep,
         StreamStep, ExactMiss, ExactHit, SemanticMiss, SemanticHit, Replay, StoreExact,
         StoreSemantic, Respond, CallFails, Failover, GiveUp, Report, Record, OpenStream,
         EndStream, BreakStream, FailStream, Disconnect

\* What the step of a request does to its own outcome and event.
LEMMA OwnStep ==
  ASSUME TypeOK, NEW r \in Requests, RequestSound(r),
         \/ Reject(r) \/ RouteFails(r) \/ Route(r)
         \/ CacheStep(r) \/ CallStep(r) \/ StreamStep(r)
  PROVE  /\ pc[r] \notin Ends
         /\ \/ /\ pc'[r] = "rejected" /\ events[r] = 0
               /\ events'[r] = 0 /\ recorded'[r] = recorded[r]
            \/ /\ pc'[r] \in {"failed", "replayed"} /\ events[r] = 0
               /\ events'[r] = 1 /\ recorded'[r] = recorded[r]
            \/ /\ pc'[r] = "record" /\ events[r] = 0
               /\ events'[r] = 1 /\ recorded'[r] = recorded[r]
            \/ /\ pc'[r] = "answered" /\ events[r] = 1
               /\ events'[r] = 1 /\ recorded'[r] = 1
            \/ /\ pc'[r] = "cut" /\ events'[r] = events[r] /\ events[r] \in {0, 1}
               /\ recorded'[r] = recorded[r]
            \/ /\ pc'[r] \notin Ends /\ events'[r] = events[r] /\ events[r] \in {0, 1}
               /\ recorded'[r] = recorded[r]
<1> USE DEF TypeOK, Goto, Fire, caches, RequestSound, Reported, Ends
<1>1. CASE Reject(r) \/ RouteFails(r) \/ Route(r)
  BY <1>1 DEF Reject, RouteFails, Route
<1>2. CASE ExactMiss(r) \/ ExactHit(r) \/ SemanticMiss(r) \/ SemanticHit(r)
  BY <1>2 DEF ExactMiss, ExactHit, SemanticMiss, SemanticHit
<1>3. CASE Replay(r) \/ StoreExact(r) \/ StoreSemantic(r)
  BY <1>3 DEF Replay, StoreExact, StoreSemantic
<1>4. CASE Respond(r) \/ CallFails(r) \/ Failover(r) \/ GiveUp(r)
  BY <1>4 DEF Respond, CallFails, Failover, GiveUp
<1>5. CASE Report(r) \/ Record(r)
  BY <1>5 DEF Report, Record
<1>6. CASE OpenStream(r) \/ EndStream(r) \/ BreakStream(r) \/ FailStream(r)
  BY <1>6 DEF OpenStream, EndStream, BreakStream, FailStream
<1>7. CASE Disconnect(r)
  BY <1>7 DEF Disconnect
<1> QED
  BY <1>1, <1>2, <1>3, <1>4, <1>5, <1>6, <1>7 DEF CacheStep, CallStep, StreamStep

\* The actions of the lifecycle, said of the mapped variables.
LEMMA MappedActions ==
  ASSUME NEW r \in Requests, outcomes[r] = "open"
  PROVE  /\ told[r] = "none" /\ outcomes' = [outcomes EXCEPT ![r] = "rejected"]
            /\ told' = told /\ exchanges' = exchanges => Lifecycle!Reject(r)
         /\ told[r] = "none" /\ outcomes' = [outcomes EXCEPT ![r] = "failed"]
            /\ told' = [told EXCEPT ![r] = "failure"] /\ exchanges' = exchanges
            => Lifecycle!Fail(r)
         /\ told[r] = "none" /\ outcomes' = [outcomes EXCEPT ![r] = "replayed"]
            /\ told' = [told EXCEPT ![r] = "success"] /\ exchanges' = exchanges
            => Lifecycle!Replay(r)
         /\ told[r] = "none" /\ outcomes' = outcomes
            /\ told' = [told EXCEPT ![r] = "success"] /\ exchanges' = exchanges
            => Lifecycle!Report(r)
         /\ told[r] = "success" /\ outcomes' = [outcomes EXCEPT ![r] = "answered"]
            /\ told' = told /\ exchanges' = exchanges \cup {r} => Lifecycle!Answer(r)
         /\ outcomes' = [outcomes EXCEPT ![r] = "cut"]
            /\ told' = told /\ exchanges' = exchanges => Lifecycle!Cut(r)
<1> USE DEF outcomes, told, exchanges, OutcomeOf, EventOf, Ends
<1>1. told[r] = "none" /\ outcomes' = [outcomes EXCEPT ![r] = "rejected"]
        /\ told' = told /\ exchanges' = exchanges => Lifecycle!Reject(r)
  BY DEF Lifecycle!Reject
<1>2. told[r] = "none" /\ outcomes' = [outcomes EXCEPT ![r] = "failed"]
        /\ told' = [told EXCEPT ![r] = "failure"] /\ exchanges' = exchanges
        => Lifecycle!Fail(r)
  BY DEF Lifecycle!Fail
<1>3. told[r] = "none" /\ outcomes' = [outcomes EXCEPT ![r] = "replayed"]
        /\ told' = [told EXCEPT ![r] = "success"] /\ exchanges' = exchanges
        => Lifecycle!Replay(r)
  BY DEF Lifecycle!Replay
<1>4. told[r] = "none" /\ outcomes' = outcomes
        /\ told' = [told EXCEPT ![r] = "success"] /\ exchanges' = exchanges
        => Lifecycle!Report(r)
  BY DEF Lifecycle!Report
<1>5. told[r] = "success" /\ outcomes' = [outcomes EXCEPT ![r] = "answered"]
        /\ told' = told /\ exchanges' = exchanges \cup {r} => Lifecycle!Answer(r)
  BY DEF Lifecycle!Answer
<1>6. outcomes' = [outcomes EXCEPT ![r] = "cut"]
        /\ told' = told /\ exchanges' = exchanges => Lifecycle!Cut(r)
  BY DEF Lifecycle!Cut
<1> QED
  BY <1>1, <1>2, <1>3, <1>4, <1>5, <1>6

\* Each step of a handler is a step of the request lifecycle, or no step of it.
LEMMA StepRefines ==
  IInv /\ IInv' /\ [Next]_vars => [Lifecycle!LNext]_(Lifecycle!lifecycle)
<1> SUFFICES ASSUME IInv, IInv', [Next]_vars
             PROVE  [Lifecycle!LNext]_(Lifecycle!lifecycle)
  OBVIOUS
<1> DEFINE Same == outcomes' = outcomes /\ told' = told /\ exchanges' = exchanges
<1>0. ASSUME Same PROVE UNCHANGED Lifecycle!lifecycle
  BY <1>0 DEF Lifecycle!lifecycle, outcomes, told, exchanges, OutcomeOf, EventOf, Ends
<1>1. CASE Next
  <2>1. PICK r \in Requests : \/ Reject(r) \/ RouteFails(r) \/ Route(r)
                              \/ CacheStep(r) \/ CallStep(r) \/ StreamStep(r)
    BY <1>1 DEF Next
  <2>2. TypeOK /\ TypeOK' /\ RequestSound(r)
    BY DEF IInv
  <2>3. /\ outcomes' = [outcomes EXCEPT ![r] = OutcomeOf(r)']
        /\ told' = [told EXCEPT ![r] = EventOf(r)']
        /\ recorded'[r] = recorded[r] => exchanges' = exchanges
        /\ recorded'[r] = 1 => exchanges' = exchanges \cup {r}
    BY <2>1, <2>2, OnlyOne, MappedStep
  <2>4. outcomes[r] = OutcomeOf(r) /\ told[r] = EventOf(r)
    BY DEF outcomes, told
  <2>5. pc[r] \notin Ends /\ outcomes[r] = "open"
    BY <2>1, <2>2, <2>4, OwnStep DEF OutcomeOf
  <2>6. \/ /\ outcomes' = [outcomes EXCEPT ![r] = "rejected"] /\ told[r] = "none"
           /\ told' = told /\ exchanges' = exchanges
        \/ /\ outcomes' = [outcomes EXCEPT ![r] = "failed"] /\ told[r] = "none"
           /\ told' = [told EXCEPT ![r] = "failure"] /\ exchanges' = exchanges
        \/ /\ outcomes' = [outcomes EXCEPT ![r] = "replayed"] /\ told[r] = "none"
           /\ told' = [told EXCEPT ![r] = "success"] /\ exchanges' = exchanges
        \/ /\ outcomes' = outcomes /\ told[r] = "none"
           /\ told' = [told EXCEPT ![r] = "success"] /\ exchanges' = exchanges
        \/ /\ outcomes' = [outcomes EXCEPT ![r] = "answered"] /\ told[r] = "success"
           /\ told' = told /\ exchanges' = exchanges \cup {r}
        \/ /\ outcomes' = [outcomes EXCEPT ![r] = "cut"]
           /\ told' = told /\ exchanges' = exchanges
        \/ Same
    <3>1. /\ outcomes' = [outcomes EXCEPT ![r] = "open"] => outcomes' = outcomes
          /\ EventOf(r)' = EventOf(r) => told' = told
      BY <2>3, <2>4, <2>5 DEF outcomes, told
    <3>2. CASE pc'[r] = "rejected" /\ events[r] = 0 /\ events'[r] = 0
                 /\ recorded'[r] = recorded[r]
      BY <2>3, <2>4, <3>1, <3>2 DEF OutcomeOf, EventOf, Ends
    <3>3. CASE pc'[r] \in {"failed", "replayed"} /\ events[r] = 0 /\ events'[r] = 1
                 /\ recorded'[r] = recorded[r]
      <4>1. EventOf(r) = "none" /\ OutcomeOf(r)' = pc'[r]
        BY <3>3 DEF OutcomeOf, EventOf, Ends
      <4>2. CASE pc'[r] = "failed"
        <5>1. EventOf(r)' = "failure"
          BY <3>3, <4>2 DEF EventOf
        <5> QED
          BY <2>3, <2>4, <3>3, <4>1, <4>2, <5>1
      <4>3. CASE pc'[r] = "replayed"
        <5>1. EventOf(r)' = "success"
          BY <3>3, <4>3 DEF EventOf
        <5> QED
          BY <2>3, <2>4, <3>3, <4>1, <4>3, <5>1
      <4> QED
        BY <3>3, <4>2, <4>3
    <3>4. CASE pc'[r] = "record" /\ events[r] = 0 /\ events'[r] = 1
                 /\ recorded'[r] = recorded[r]
      BY <2>3, <2>4, <3>1, <3>4 DEF OutcomeOf, EventOf, Ends
    <3>5. CASE pc'[r] = "answered" /\ events[r] = 1 /\ events'[r] = 1 /\ recorded'[r] = 1
      BY <2>3, <2>4, <2>5, <3>1, <3>5 DEF OutcomeOf, EventOf, Ends
    <3>6. CASE pc'[r] = "cut" /\ events'[r] = events[r] /\ recorded'[r] = recorded[r]
      BY <2>3, <2>5, <3>1, <3>6 DEF OutcomeOf, EventOf, Ends
    <3>7. CASE pc'[r] \notin Ends /\ events'[r] = events[r] /\ recorded'[r] = recorded[r]
      BY <2>3, <2>5, <3>1, <3>7 DEF OutcomeOf, EventOf, Ends
    <3> QED
      BY <2>1, <2>2, OwnStep, <3>2, <3>3, <3>4, <3>5, <3>6, <3>7
  <2> QED
    <3>1. \/ Lifecycle!Reject(r) \/ Lifecycle!Fail(r) \/ Lifecycle!Replay(r)
          \/ Lifecycle!Report(r) \/ Lifecycle!Answer(r) \/ Lifecycle!Cut(r) \/ Same
      BY <2>5, <2>6, MappedActions
    <3>2. Same \/ Lifecycle!LNext
      BY <3>1 DEF Lifecycle!LNext
    <3> QED
      BY <3>2, <1>0
<1>2. CASE UNCHANGED vars
  BY <1>0, <1>2 DEF vars, outcomes, told, exchanges, OutcomeOf, EventOf
<1> QED
  BY <1>1, <1>2

\* Whatever the interleaving of the handlers, every request ends once, is reported at
\* most once and is recorded only with a model's answer.
THEOREM RequestsFollowLifecycle == Spec => ImplementsLifecycle
  BY InitRefines, InvariantHolds, StepRefines, PTL
     DEF Spec, ImplementsLifecycle, Lifecycle!Spec
=============================================================================
