------------------------------ MODULE MCPlanning ------------------------------
(***************************************************************************)
(* The planning of a release, for TLC, in six parts: the searches over     *)
(* every graph of four changes; the evaluation over every graph of three   *)
(* with every mix of good, flawed, excluded, released and missing changes; *)
(* the block in every body of up to five tokens; two requests that change  *)
(* dependencies while bodies are edited and webhooks arrive, in one part   *)
(* with pull requests that move and in one with failing calls and crashes; *)
(* and the pages that show a project.  The modules that are not chosen     *)
(* stay in a fixed state.                                                  *)
(***************************************************************************)
EXTENDS DependencyMirror

CONSTANTS Change, Absent

VARIABLES rows, exclusions, edges, included, inner, parts, phase, blockers, ordered, pos, grew,
          sedges, search, calls, todo, index, low, stack, components, cycle, sdone,
          source, doc, asked, stored, pages, part

svars == <<sedges, search, calls, todo, index, low, stack, components, cycle, sdone>>

SNode == 1 .. 4
S == INSTANCE DependencySearch
       WITH Node <- SNode, Graphs <- SUBSET {e \in SNode \X SNode : e[1] # e[2]},
            edges <- sedges, done <- sdone

MCSources == UNION {[1 .. n -> {"start", "end", "one", "prose", "newline"}] : n \in 0 .. 5}
bvars == <<source, doc, asked>>
B == INSTANCE ManagedBlock WITH Sources <- MCSources

MCHand == {{}, {1}, {2}, Invalid, Garbled}
Failing == INSTANCE DependencyMirror WITH MaxMoves <- 0, MaxFaults <- 1

\* Two changes and two checks.  The states of the checks are complete for the changes ahead
\* of production (StatesAreComputed of RequiredChecks), and may be left over for a change
\* that lost its identity.
DItem == {1, 2}
DCheck == {"a", "b"}
DKind(sync, presence) == [sync |-> sync, presence |-> presence, commits |-> {"managed"}]
DKinds == {Absent, DKind("known", "unreleased"), DKind("known", "partially_present"),
           DKind("known", "released"), DKind("unknown", "unknown")}
DStates(changes, policy, values) ==
  {f \in [DItem \X DCheck -> values \cup {Absent}] :
     \A p \in DItem \X DCheck :
       IF p[2] \notin policy \/ changes[p[1]] = Absent THEN f[p] = Absent
       ELSE IF changes[p[1]].sync = "unknown" THEN f[p] \in {Absent, "failed"}
       ELSE (f[p] # Absent) <=> (changes[p[1]].presence # "released")}
DCurrent == [life |-> "active", permission |-> "current"]
DDone == [status |-> "succeeded", class |-> "expected_change"]

\* A project in good order with any changes and any states of its checks ...
DProjections ==
  UNION {{[status |-> "active", installation |-> DCurrent, runs |-> <<DDone>>, issues |-> {},
           changes |-> changes, delta |-> {"managed"} \cup wild, policy |-> policy, states |-> f] :
            f \in DStates(changes, policy, {"successful", "pending", "failed", "missing", "stale"}),
            wild \in {{}, {"ambiguous"}}} :
          changes \in [DItem -> DKinds], policy \in {{}, DCheck}}

\* ... and a project in any state with a change or two.
DProjects ==
  UNION {{[status |-> status, installation |-> installation, runs |-> runs, issues |-> issues,
           changes |-> changes, delta |-> {"managed"} \cup wild, policy |-> {"a"}, states |-> f] :
            f \in DStates(changes, {"a"}, {"successful"}),
            status \in {"initializing", "active", "degraded", "disconnected", "pending_deletion"},
            installation \in {Absent, DCurrent, [DCurrent EXCEPT !.permission = "stale"],
                              [life |-> "suspended", permission |-> "suspended"],
                              [life |-> "pending_deletion", permission |-> "revoked"]},
            runs \in {<<>>} \cup {<<[status |-> run[1], class |-> run[2]], DDone>> :
                       run \in {<<"queued", "none">>, <<"running", "none">>, <<"superseded", "expected_change">>,
                                <<"succeeded", "expected_change">>, <<"succeeded", "recoverable_drift">>,
                                <<"succeeded", "destructive_history_change">>,
                                <<"succeeded", "unknown_inconsistency">>, <<"failed", "permission_problem">>,
                                <<"failed", "unknown_inconsistency">>}},
            issues \in {{}, {<<"warning", "issue">>}},
            wild \in SUBSET {"unmanaged", "ambiguous"}} :
          changes \in {<<Absent, Absent>>, <<DKind("known", "unreleased"), Absent>>,
                       <<DKind("known", "unreleased"), DKind("known", "partially_present")>>}}

dvars == <<stored, pages>>
D == INSTANCE Dashboard
       WITH Item <- DItem, Check <- DCheck, NoRow <- Absent, Snapshots <- DProjections \cup DProjects

NoPage == stored = {} /\ pages = [p \in D!Pages |-> D!Nothing]

MCGraphs == SUBSET {e \in Change \X Change : e[1] # e[2]}

Good == [sync |-> "known", presence |-> "unreleased", qa |-> "passed",
         checks |-> {"successful"}, commits |-> {"managed"}]
MCRows == {Good, [Good EXCEPT !.qa = "pending"], [Good EXCEPT !.presence = "released"]}

evars == <<rows, exclusions, edges, included, inner, parts, phase, blockers, ordered, pos, grew>>
E == INSTANCE ReleaseEvaluation WITH Rows <- MCRows, Graphs <- MCGraphs

ASSUME E!ConstantsOK

NoSearch ==
  /\ sedges = {} /\ search = "cycle" /\ calls = <<>> /\ stack = <<>> /\ cycle = <<>>
  /\ todo = [v \in SNode |-> {}] /\ index = todo /\ low = todo /\ components = {} /\ sdone = FALSE
NoEvaluation ==
  /\ rows = [c \in Change |-> Absent] /\ exclusions = {} /\ edges = {}
  /\ included = {} /\ inner = {} /\ parts = {}
  /\ phase = "done" /\ blockers = [c \in Change |-> {}] /\ ordered = <<>> /\ pos = 0 /\ grew = FALSE
NoMirror == Init /\ life = [p \in PR |-> "open"]
NoBody == source = <<>> /\ doc = <<>> /\ asked = {}

MCInit ==
  \/ part = "search" /\ S!Init /\ NoEvaluation /\ NoBody /\ NoMirror /\ NoPage
  \/ part = "evaluation" /\ E!Init /\ NoSearch /\ NoBody /\ NoMirror /\ NoPage
  \/ part = "block" /\ B!Init /\ NoSearch /\ NoEvaluation /\ NoMirror /\ NoPage
  \/ part \in {"mirror", "failing"} /\ Init /\ NoSearch /\ NoEvaluation /\ NoBody /\ NoPage
  \/ part = "dashboard" /\ D!Init /\ NoSearch /\ NoEvaluation /\ NoBody /\ NoMirror

MCNext ==
  \/ part = "search" /\ S!Next /\ UNCHANGED <<vars, evars, bvars, dvars, part>>
  \/ part = "evaluation" /\ E!Next /\ UNCHANGED <<vars, svars, bvars, dvars, part>>
  \/ part = "block" /\ B!Next /\ UNCHANGED <<vars, evars, svars, dvars, part>>
  \/ part = "mirror" /\ Next /\ UNCHANGED <<evars, svars, bvars, dvars, part>>
  \/ part = "failing" /\ Failing!Next /\ UNCHANGED <<evars, svars, bvars, dvars, part>>
  \/ part = "dashboard" /\ D!Next /\ UNCHANGED <<vars, evars, svars, bvars, part>>

mcvars == <<vars, evars, svars, bvars, dvars, part>>

MCSpec == MCInit /\ [][MCNext]_mcvars

\* Both searches are exact: the one before dependencies are stored finds a cycle when
\* there is one and only then (findDependencyCycle), and the components of an evaluation
\* are the changes that need each other (findDependencyComponents).
SearchesAreExact == S!CycleIsFound /\ S!ComponentsAreMutual

\* The block in a body is what was written last, writing it again changes nothing, and what
\* a person has typed beside it stays (synchronizeManagedDependencyBlock).
BlockIsKept == B!WrittenIsRead /\ B!WritingIsIdempotent /\ B!ProseIsKept

\* A change is blocked exactly when it or something that it needs is at fault, the order has
\* each change once and after what it needs, and what is ready in it only needs what is
\* released or ready as well (evaluateRelease).
PlanIsSound == E!BlockedByReference /\ E!PrerequisitesFirst /\ E!ReadyIsClosed

\* The pages of a project never contradict each other, and what they call current or usable,
\* the evaluation of the release can use (dashboard.ts).
PagesHold == part = "dashboard" => D!PagesAgree /\ D!HealthIsPlannable
=============================================================================
