---------------------------- MODULE DependencySearch ----------------------------
(***************************************************************************)
(* The two depth-first searches over dependencies, call by call: the one   *)
(* that looks for a cycle before dependencies are stored, and the one that *)
(* splits the included changes into components when a candidate is         *)
(* evaluated.  Changes are numbers in the order of their ids.              *)
(***************************************************************************)
EXTENDS DependencyGraph, Sequences

CONSTANTS Node, Graphs   \* the changes, and the sets of edges that are searched

VARIABLES edges,
          search,     \* "cycle" or "components"
          calls,      \* the changes whose visit has not returned, innermost last
          todo,       \* per change, the prerequisites its visit has not looked at
          index,      \* when a change was first visited; 0: not yet
          low,        \* the least index its visit has seen
          stack,      \* visited changes that belong to no component yet
          components, \* the components found so far
          cycle,      \* the cycle found; <<>>: none
          done

vars == <<edges, search, calls, todo, index, low, stack, components, cycle, done>>
-----------------------------------------------------------------------------
Top == calls[Len(calls)]
Smallest(S) == CHOOSE v \in S : \A w \in S : v <= w
Least(a, b) == IF a <= b THEN a ELSE b
Position(seq, v) == CHOOSE i \in 1 .. Len(seq) : seq[i] = v
Members(seq) == {seq[i] : i \in 1 .. Len(seq)}
Unvisited == {v \in Node : index[v] = 0}

\* The start of a visit.
Visit(v) ==
  LET n == Cardinality(Node \ Unvisited) + 1
  IN  /\ calls' = Append(calls, v)
      /\ index' = [index EXCEPT ![v] = n]
      /\ low' = [low EXCEPT ![v] = n]
      /\ stack' = Append(stack, v)

\* The next change in the order of the ids is visited, if there is one.
Root ==
  /\ ~done /\ calls = <<>>
  /\ IF Unvisited = {}
     THEN done' = TRUE /\ UNCHANGED <<calls, index, low, stack>>
     ELSE Visit(Smallest(Unvisited)) /\ UNCHANGED done
  /\ UNCHANGED <<edges, search, todo, components, cycle>>

\* The visit looks at its next prerequisite: a change not visited is visited, one whose
\* visit has not returned closes a cycle.
LookForCycle(w) ==
  IF index[w] = 0
  THEN Visit(w) /\ UNCHANGED <<cycle, done>>
  ELSE /\ UNCHANGED <<calls, index, low, stack>>
       /\ IF w \in Members(calls)
          THEN /\ cycle' = Append(SubSeq(calls, Position(calls, w), Len(calls)), w)
               /\ done' = TRUE
          ELSE UNCHANGED <<cycle, done>>

\* Mutant of LookForComponent: a prerequisite that already has its component counts.
LookForComponentAnywhere(w) ==
  IF index[w] = 0
  THEN Visit(w)
  ELSE /\ low' = [low EXCEPT ![Top] = Least(@, index[w])]
       /\ UNCHANGED <<calls, index, stack>>

LookForComponent(w) ==
  IF index[w] = 0
  THEN Visit(w)
  ELSE /\ low' = IF w \in Members(stack) THEN [low EXCEPT ![Top] = Least(@, index[w])] ELSE low
       /\ UNCHANGED <<calls, index, stack>>

Look ==
  /\ ~done /\ calls # <<>> /\ todo[Top] # {}
  /\ LET w == Smallest(todo[Top])
     IN  /\ todo' = [todo EXCEPT ![Top] = @ \ {w}]
         /\ IF search = "cycle" THEN LookForCycle(w) ELSE LookForComponent(w) /\ UNCHANGED <<cycle, done>>
  /\ UNCHANGED <<edges, search, components>>

\* The visit has seen every prerequisite: a change that saw nothing older closes its
\* component, and the visit that called it takes over what it has seen.
Return ==
  /\ ~done /\ calls # <<>> /\ todo[Top] = {}
  /\ calls' = SubSeq(calls, 1, Len(calls) - 1)
  /\ low' = IF Len(calls) > 1
            THEN [low EXCEPT ![calls[Len(calls) - 1]] = Least(@, low[Top])] ELSE low
  /\ IF low[Top] = index[Top]
     THEN LET at == Position(stack, Top)
          IN  /\ components' = components \cup {Members(SubSeq(stack, at, Len(stack)))}
              /\ stack' = SubSeq(stack, 1, at - 1)
     ELSE UNCHANGED <<components, stack>>
  /\ UNCHANGED <<edges, search, todo, index, cycle, done>>
-----------------------------------------------------------------------------
Init ==
  /\ edges \in Graphs
  /\ search \in {"cycle", "components"}
  /\ calls = <<>> /\ stack = <<>> /\ cycle = <<>>
  /\ todo = [v \in Node |-> Prerequisites(edges, {v})]
  /\ index = [v \in Node |-> 0] /\ low = [v \in Node |-> 0]
  /\ components = {} /\ done = FALSE

Next == Root \/ Look \/ Return

Spec == Init /\ [][Next]_vars /\ WF_vars(Next)
-----------------------------------------------------------------------------
(* Properties *)

\* findDependencyCycle finds a cycle exactly when there is one, and what it returns is
\* one: the path the error message shows.
CycleIsFound ==
  done /\ search = "cycle" =>
    /\ cycle = <<>> <=> Acyclic(edges)
    /\ cycle # <<>> => /\ cycle[1] = cycle[Len(cycle)]
                       /\ \A i \in 1 .. Len(cycle) - 1 : <<cycle[i], cycle[i + 1]>> \in edges

\* findDependencyComponents puts two changes together exactly when each needs the other.
ComponentsAreMutual ==
  done /\ search = "components" => components = Components(edges, Node)
=============================================================================
