--------------------------- MODULE ReleaseVerdict ---------------------------
(***************************************************************************)
(* What the evaluation of a release candidate promises, without queue,     *)
(* jobs or workers: the candidate shows no verdict, a pending one, or the  *)
(* verdict for the world as it is.  A world that moves on takes the        *)
(* verdict back; a verdict is only ever given for the current world.       *)
(* The world is the pair of versions that stand for a release state.       *)
(***************************************************************************)
EXTENDS Integers

VARIABLES world, verdict

World == Nat \X Nat

Absent == <<>>
Pending == <<"pending">>

Init == world \in World /\ verdict = Absent

\* The release state or the candidate moves to a later version.
MoveOn ==
  /\ world' \in World
  /\ world'[1] > world[1]
  /\ world'[2] >= world[2]
  /\ verdict' \in {Absent, Pending}
  /\ verdict # Absent => verdict' = Pending

\* The verdict is asked for again, or a candidate is opened.
Reopen ==
  /\ verdict' = Pending
  /\ UNCHANGED world

\* The verdict for the world of this very moment.
Settle ==
  /\ verdict = Pending
  /\ verdict' = world
  /\ UNCHANGED world

Next == MoveOn \/ Reopen \/ Settle

Spec == Init /\ [][Next]_<<world, verdict>>
=============================================================================
