----------------------------- MODULE SummaryLog -----------------------------
(***************************************************************************)
(* What the tiered memory promises about one session, whoever records and  *)
(* whoever summarizes: a log of turns that only grows, and a summary that  *)
(* stands for the first `covered` turns of it.  A fold moves `covered`     *)
(* forward by at least Threshold turns and never past the log; only an     *)
(* explicit clear takes it back.  `cleared` remembers that a clear has     *)
(* happened: from then on the promise is weaker, because version numbers   *)
(* restart and a fold begun before the clear may still land.               *)
(***************************************************************************)
EXTENDS Integers

CONSTANT Threshold   \* SummarizerConfig.turn_threshold

VARIABLES logged,    \* number of turns in L0
          covered,   \* the summary stands for turns 1..covered
          cleared    \* has clear_summary ever removed a row?

vars == <<logged, covered, cleared>>

Init == logged = 0 /\ covered = 0 /\ cleared = FALSE

\* A turn is appended, or a whole exchange at once (a user and an assistant turn).
Record == /\ logged' \in {logged + 1, logged + 2}
          /\ UNCHANGED <<covered, cleared>>

Fold == /\ covered' \in Threshold..logged
        /\ cleared \/ covered' >= covered + Threshold
        /\ UNCHANGED <<logged, cleared>>

Clear == covered' = 0 /\ cleared' = TRUE /\ UNCHANGED logged

Next == Record \/ Fold \/ Clear

Spec == Init /\ [][Next]_vars
=============================================================================
