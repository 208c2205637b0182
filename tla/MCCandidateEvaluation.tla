----------------------- MODULE MCCandidateEvaluation -----------------------
(* Instances of CandidateEvaluation for TLC: a few requests, one or two     *)
(* slots, and in each configuration the writers and faults of its question. *)
EXTENDS CandidateEvaluation, TLC

\* Slots are interchangeable; requests are allocated in order, so they are not.
MCSymmetry == Permutations(Worker)
=============================================================================
