--------------------------- MODULE MCEvaluationSafety ---------------------------
(***************************************************************************)
(* CandidateEvaluation for TLC, in three parts: every writer without       *)
(* faults, where new overrides, which double the states, come with one     *)
(* write fewer; and two writers with every fault.  Slots are               *)
(* interchangeable; requests are allocated in order, so they are not.      *)
(***************************************************************************)
EXTENDS CandidateEvaluation, TLC

VARIABLE part

Races == INSTANCE CandidateEvaluation
           WITH Writers <- Writers \ {"override"}, Faults <- {}, MaxAttempts <- 1
Overrides == INSTANCE CandidateEvaluation WITH Faults <- {}, MaxAttempts <- 1, MaxChanges <- 2
Failures == INSTANCE CandidateEvaluation
              WITH Writers <- {"projection", "qa"}, MaxChanges <- 2

MCInit == Init /\ part \in {"races", "overrides", "failures"}
MCNext ==
  /\ \/ part = "races" /\ Races!Next
     \/ part = "overrides" /\ Overrides!Next
     \/ part = "failures" /\ Failures!Next
  /\ UNCHANGED part

MCSpec == MCInit /\ [][MCNext]_<<vars, part>>

MCSymmetry == Permutations(Worker)
=============================================================================
