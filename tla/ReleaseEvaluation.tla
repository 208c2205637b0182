---------------------------- MODULE ReleaseEvaluation ----------------------------
(***************************************************************************)
(* The evaluation of a release: which changes of the candidate are blocked *)
(* and why, and in which order they were merged.  The rows a worker has    *)
(* read are the input; the evaluation places one change or propagates the  *)
(* blockers of one change's prerequisites at a time.                       *)
(*                                                                         *)
(* Changes are numbered by merge time, pull request and id.  A worker only *)
(* evaluates the heads of its claim, so source_changed and                 *)
(* production_changed cannot arise.                                        *)
(***************************************************************************)
EXTENDS DependencyGraph, ReleaseBlockers, Sequences

CONSTANTS Change,  \* numbers in the order of compareChanges
          Absent,  \* no row: a dependency can outlive the change it names
          Rows,    \* the rows a change may have
          Graphs   \* the sets of dependencies

ConstantsOK ==
  /\ Change \subseteq Nat /\ IsFiniteSet(Change)
  /\ Rows \subseteq Row /\ Absent \notin Row
  /\ Graphs \subseteq SUBSET (Change \X Change)

VARIABLES rows, exclusions, edges, \* what the worker has read
          included,  \* includedSet
          inner,     \* the dependencies between included changes
          parts,     \* the components of the included changes
          phase,
          blockers,  \* blockersByChange
          ordered,   \* orderedChanges, as far as they are placed
          pos,       \* the place in a pass of the propagation
          grew       \* propagated

input == <<rows, exclusions, edges>>
locals == <<included, inner, parts>>
vars == <<input, locals, phase, blockers, ordered, pos, grew>>
-----------------------------------------------------------------------------
(* loadCandidateEvaluationSnapshot *)

Candidate == {c \in Change : rows[c] # Absent /\ rows[c].presence # "released"}
Excluded == exclusions \cap Candidate
-----------------------------------------------------------------------------
(* evaluateRelease *)

EvaluateIntrinsic ==
  /\ phase = "intrinsic"
  /\ included' = Candidate \ Excluded
  /\ inner' = Within(edges, included')
  /\ parts' = Components(inner', included')
  /\ blockers' = [c \in Change |-> IF c \in Candidate THEN Intrinsic(rows[c]) \X {c} ELSE {}]
  /\ phase' = "cycles"
  /\ UNCHANGED <<input, ordered, pos, grew>>

Least(S) == CHOOSE c \in S : \A d \in S : c <= d

\* isCyclicComponent, and the prerequisites a change has in its component.
CyclicPrerequisites(c) ==
  Prerequisites(inner, {c}) \cap UNION {C \in parts : c \in C}

BlockCycles ==
  /\ phase = "cycles"
  /\ blockers' = [c \in Change |->
                    IF c \in included /\ CyclicPrerequisites(c) # {}
                    THEN blockers[c] \cup {<<"dependency_cycle", Least(CyclicPrerequisites(c))>>}
                    ELSE blockers[c]]
  /\ phase' = "references"
  /\ UNCHANGED <<input, locals, ordered, pos, grew>>

\* What a dependency on p says against its dependent, whatever p's own blockers are.
Reference(p) ==
  IF rows[p] = Absent THEN {"dependency_unknown"}
  ELSE IF rows[p].presence = "released" THEN {}
  ELSE IF p \in Excluded THEN {"dependency_excluded"}
  ELSE IF p \in included THEN {} ELSE {"dependency_unknown"}

BlockReferences ==
  /\ phase = "references"
  /\ blockers' = [c \in Change |->
                    IF c \in included
                    THEN blockers[c] \cup UNION {Reference(p) \X {p} : p \in Prerequisites(edges, {c})}
                    ELSE blockers[c]]
  /\ phase' = "order"
  /\ UNCHANGED <<input, locals, ordered, pos, grew>>

(* orderIncludedChanges: the members of a component stay together *)
Placed == {ordered[i] : i \in 1 .. Len(ordered)}
Unplaced == included \ Placed

\* A component can be placed when everything its members need outside it is placed.
Available ==
  {C \in parts : C \cap Unplaced # {} /\ Prerequisites(inner, C) \subseteq Placed \cup C}

Begun == {C \in Available : C \cap Placed # {}}
Earliest(Cs) == CHOOSE C \in Cs : \A D \in Cs : Least(C) <= Least(D)

\* Mutant of PlaceNext: components are placed by merge time alone.
PlaceNextMerged == Least(Unplaced)

PlaceNext == Least(Earliest(IF Begun # {} THEN Begun ELSE Available) \cap Unplaced)

Place ==
  /\ phase = "order" /\ Unplaced # {}
  /\ ordered' = Append(ordered, PlaceNext)
  /\ UNCHANGED <<input, locals, phase, blockers, pos, grew>>

StartPropagation ==
  /\ phase = "order" /\ Unplaced = {}
  /\ phase' = "propagate" /\ pos' = 1 /\ grew' = FALSE
  /\ UNCHANGED <<input, locals, blockers, ordered>>

\* The blocked prerequisites of the change that the pass has come to.
NotReady(c) == {p \in Prerequisites(inner, {c}) : blockers[p] # {}}

Propagate ==
  /\ phase = "propagate" /\ pos <= Len(ordered)
  /\ LET c == ordered[pos]
         added == {"dependency_not_ready"} \X NotReady(c)
     IN  /\ blockers' = [blockers EXCEPT ![c] = @ \cup added]
         /\ grew' = (grew \/ ~(added \subseteq blockers[c]))
  /\ pos' = pos + 1
  /\ UNCHANGED <<input, locals, phase, ordered>>

\* Another pass, as long as the last one added a blocker.
EndPass ==
  /\ phase = "propagate" /\ pos > Len(ordered)
  /\ IF grew THEN pos' = 1 /\ grew' = FALSE /\ UNCHANGED phase
     ELSE phase' = "done" /\ UNCHANGED <<pos, grew>>
  /\ UNCHANGED <<input, locals, blockers, ordered>>

-----------------------------------------------------------------------------
Init ==
  /\ rows \in [Change -> Rows \cup {Absent}]
  /\ exclusions \in SUBSET Change
  /\ edges \in Graphs
  /\ included = {} /\ inner = {} /\ parts = {}
  /\ phase = "intrinsic"
  /\ blockers = [c \in Change |-> {}]
  /\ ordered = <<>> /\ pos = 0 /\ grew = FALSE

Next ==
  \/ EvaluateIntrinsic \/ BlockCycles \/ BlockReferences
  \/ Place \/ StartPropagation \/ Propagate \/ EndPass

Spec == Init /\ [][Next]_vars
-----------------------------------------------------------------------------
(* Properties *)

\* The reference: a change is at fault by itself or by where it points to.
AtFault(c) ==
  \/ Intrinsic(rows[c]) # {}
  \/ c \in Needed(inner, c)
  \/ \E p \in Prerequisites(edges, {c}) :
       rows[p] = Absent \/ (rows[p].presence # "released" /\ p \in Excluded)

\* However long the chain, a change is blocked exactly when it or something that it
\* needs is at fault: the passes neither stop early nor block too much.
BlockedByReference ==
  phase = "done" =>
    \A c \in included : blockers[c] # {} <=> \E d \in {c} \cup Needed(inner, c) : AtFault(d)

\* The order has every included change once, each after what it needs unless the two
\* need each other.
PrerequisitesFirst ==
  phase = "done" =>
    /\ Placed = included /\ Len(ordered) = Cardinality(included)
    /\ \A i, j \in 1 .. Len(ordered) :
         ordered[j] \in Needed(inner, ordered[i]) /\ ordered[i] \notin Needed(inner, ordered[j]) => j < i

\* What is ready only needs what is in production or is ready with it.
ReadyIsClosed ==
  phase = "done" =>
    \A e \in edges :
      e[1] \in included /\ blockers[e[1]] = {} =>
        \/ rows[e[2]] # Absent /\ rows[e[2]].presence = "released"
        \/ e[2] \in included /\ blockers[e[2]] = {}

=============================================================================
