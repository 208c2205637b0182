----------------------------- MODULE MCSyncSafety -----------------------------
(***************************************************************************)
(* RepositorySync for TLC, in three parts: pushes and rewrites with a      *)
(* crash or a permanent error; pushes, new configurations and a deletion   *)
(* with a crash or a lost job; and, without faults, rewrites, overrides,   *)
(* requests of people and an installation that is active again.  Slots are *)
(* interchangeable.                                                        *)
(***************************************************************************)
EXTENDS RepositorySync, TLC

VARIABLE part

Race == INSTANCE RepositorySync
          WITH Writers <- {"push", "forcedPush"},
               Faults <- {"crash", "permanent"}
Recovery == INSTANCE RepositorySync
              WITH Writers <- {"push", "configure", "deletion"},
                   Faults <- {"crash", "jobLoss"}
Undisturbed == INSTANCE RepositorySync
                 WITH Writers <- {"push", "forcedPush", "override", "manual", "unsuspend"}, Faults <- {}

MCInit == Init /\ part \in {"race", "recovery", "undisturbed"}
MCNext ==
  /\ \/ part = "race" /\ Race!Next
     \/ part = "recovery" /\ Recovery!Next
     \/ part = "undisturbed" /\ Undisturbed!Next
  /\ UNCHANGED part

MCSpec == MCInit /\ [][MCNext]_<<vars, part>>

MCSymmetry == Permutations(Worker)
=============================================================================
