---------------------------- MODULE MCSummarizer ----------------------------
(* Summarizer on small instances.  Two workers race over the turns of a few    *)
(* requests, or a context is assembled while a worker runs: `cast` says which  *)
(* workers and readers take part, the others stay idle.                        *)
EXTENDS Summarizer, TLC

CONSTANT Casts   \* sets of workers and readers

VARIABLE cast

RequestSymmetry == Permutations(Requests)

MCInit == cast \in Casts /\ Init

MCNext ==
    /\ \/ \E r \in Requests : RecordStep(r)
       \/ \E w \in Workers \cap cast : WorkerStep(w)
       \/ \E x \in Readers \cap cast : ReaderStep(x)
       \/ ClearSummary
    /\ UNCHANGED cast

\* A worker that is not in the cast never starts, so its fairness asks for nothing.
MCSpec ==
    /\ MCInit /\ [][MCNext]_<<cast, vars>>
    /\ \A w \in Workers : WF_vars(RunStep(w))
=============================================================================
