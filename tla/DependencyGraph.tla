---------------------------- MODULE DependencyGraph ----------------------------
(***************************************************************************)
(* Dependencies as a set of pairs <<dependent, prerequisite>>, and what    *)
(* the searches of DependencySearch are to find in it.                     *)
(***************************************************************************)
EXTENDS Integers, FiniteSets

Prerequisites(edges, S) == {e[2] : e \in {f \in edges : f[1] \in S}}

\* The changes that v needs, directly or through others.
Needed(edges, v) ==
  LET far == Cardinality({e[1] : e \in edges})
      reach[n \in 0 .. far] ==
        IF n = 0 THEN Prerequisites(edges, {v})
        ELSE LET near == reach[n - 1] IN near \cup Prerequisites(edges, near)
  IN  reach[far]

Acyclic(edges) == \A e \in edges : e[1] \notin Needed(edges, e[1])

\* The changes that need v and that v needs, with v itself.
Component(edges, v) == {v} \cup {w \in Needed(edges, v) : v \in Needed(edges, w)}

Components(edges, V) == {Component(edges, v) : v \in V}

Within(edges, V) == {e \in edges : e[1] \in V /\ e[2] \in V}
=============================================================================
