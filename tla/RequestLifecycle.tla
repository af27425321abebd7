-------------------------- MODULE RequestLifecycle --------------------------
(* What the gateway promises of every request, whichever endpoint it enters    *)
(* by: one outcome, at most one audit event, and an exchange in memory only    *)
(* for an answer a model gave, once, after its event.                          *)

CONSTANT Requests

VARIABLES outcome,   \* [Requests -> Outcome]: what the client ends up with
          event,     \* [Requests -> what the hooks were told]
          recorded   \* the requests whose exchange is in memory

lifecycle == <<outcome, event, recorded>>

Outcome == {"open", "rejected", "failed", "replayed", "answered", "cut"}

LInit ==
    /\ outcome = [r \in Requests |-> "open"]
    /\ event = [r \in Requests |-> "none"]
    /\ recorded = {}

\* The request is turned away before it is routed; the hooks do not hear of it.
Reject(r) ==
    /\ outcome[r] = "open" /\ event[r] = "none"
    /\ outcome' = [outcome EXCEPT ![r] = "rejected"]
    /\ UNCHANGED <<event, recorded>>

\* A failure is reported in the step that ends the request.
Fail(r) ==
    /\ outcome[r] = "open" /\ event[r] = "none"
    /\ outcome' = [outcome EXCEPT ![r] = "failed"]
    /\ event' = [event EXCEPT ![r] = "failure"]
    /\ UNCHANGED recorded

\* So is an answer that comes from a cache.
Replay(r) ==
    /\ outcome[r] = "open" /\ event[r] = "none"
    /\ outcome' = [outcome EXCEPT ![r] = "replayed"]
    /\ event' = [event EXCEPT ![r] = "success"]
    /\ UNCHANGED recorded

\* A model's answer is reported first and recorded with the end of the request.
Report(r) ==
    /\ outcome[r] = "open" /\ event[r] = "none"
    /\ event' = [event EXCEPT ![r] = "success"]
    /\ UNCHANGED <<outcome, recorded>>

Answer(r) ==
    /\ outcome[r] = "open" /\ event[r] = "success"
    /\ outcome' = [outcome EXCEPT ![r] = "answered"]
    /\ recorded' = recorded \cup {r}
    /\ UNCHANGED event

\* The client of a stream is gone, with or without the event.
Cut(r) ==
    /\ outcome[r] = "open"
    /\ outcome' = [outcome EXCEPT ![r] = "cut"]
    /\ UNCHANGED <<event, recorded>>

LNext == \E r \in Requests :
    Reject(r) \/ Fail(r) \/ Replay(r) \/ Report(r) \/ Answer(r) \/ Cut(r)

Spec == LInit /\ [][LNext]_lifecycle
=============================================================================
