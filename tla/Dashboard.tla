------------------------------- MODULE Dashboard -------------------------------
(***************************************************************************)
(* The pages that show a project: its overview, the history of its         *)
(* synchronizations and the list of its changes (dashboard.ts, store.ts).  *)
(* Each derives the state of the required checks from queries of its own,  *)
(* and the first two the health of the project; the evaluation of the      *)
(* release reads the same rows elsewhere (ReleaseBlockers).  A request     *)
(* reads one snapshot of the database, which is chosen at the start.       *)
(***************************************************************************)
EXTENDS ReleaseBlockers, FiniteSetsExt

CONSTANTS Item,      \* changes of the project
          Check,     \* checks a policy may require
          NoRow,     \* nothing is stored
          Snapshots  \* what a request may read

\* [status, installation, runs, issues, changes, delta, policy, states]: runs are in the
\* order they started, the last one first; delta has the attributions of the commits
\* ahead of production; states has the stored state of a check for a change, or NoRow.
VARIABLES stored,
          pages  \* what was answered

vars == <<stored, pages>>

Pages == {"overview", "history", "changes"}
Nothing == NoRow
-----------------------------------------------------------------------------
(* loadProjectCounts and the queries of the overview *)

Of(c) == stored.changes[c]
Ahead == {c \in Item : Of(c) # NoRow /\ Of(c).sync = "known"
                       /\ Of(c).presence \in {"unreleased", "partially_present"}}
Partial == {c \in Ahead : Of(c).presence = "partially_present"}
Unknown == {c \in Item : Of(c) # NoRow /\ (Of(c).sync = "unknown" \/ Of(c).presence = "unknown")}

\* The rows of change_required_check_states that belong to these changes.
StateRows(changes, checks) == {p \in changes \X checks : stored.states[p] # NoRow}
Shown(rows) == {stored.states[p] : p \in rows}

(* checkStatePriority, worst first *)
Order == <<"failed", "missing", "stale", "unknown", "pending", "successful", "not_applicable",
           "not_configured">>
Worst(states) ==
  Order[Min({i \in 1 .. 5 : Order[i] \in states} \cup {6})]

(* summarizeProjectCheckState *)
Summary(configured, ahead, expected, found, states) ==
  CASE configured = 0 -> "not_configured"
    [] configured # 0 /\ ~ahead -> "not_applicable"
    [] configured # 0 /\ ahead /\ (found = 0 \/ found < expected) -> "missing"
    [] OTHER -> Worst(states)

CheckOverview(x) ==
  LET rows == StateRows(Ahead, {x})
  IN  Summary(1, Ahead # {}, Cardinality(Ahead), Cardinality(rows), Shown(rows))

\* The overview: the worst of what it shows for each check.
OverviewChecks ==
  LET states == {CheckOverview(x) : x \in stored.policy}
  IN  Summary(Cardinality(stored.policy), Ahead # {}, 0, Cardinality(states), states)

\* The history: one summary of every state of every check.
HistoryChecks ==
  LET rows == StateRows(Ahead, stored.policy)
  IN  Summary(Cardinality(stored.policy), Ahead # {}, Cardinality(stored.policy) * Cardinality(Ahead),
              Cardinality(rows), Shown(rows))

\* The list of changes: the checks of one change.
ChangeChecks(c) ==
  LET rows == StateRows({c}, stored.policy)
  IN  IF Of(c).sync = "unknown" THEN "unknown"
      ELSE Summary(Cardinality(stored.policy), TRUE, Cardinality(stored.policy),
                   Cardinality(rows), Shown(rows))
-----------------------------------------------------------------------------
(* deriveProjectHealth: each part may force a state over the one before, and *)
(* gives its reasons.                                                        *)

Unforced == ""
Reason(holds, severity, code) == IF holds THEN {<<severity, code>>} ELSE {}

StatusForces ==
  CASE stored.status = "pending_deletion" -> "deleting"
    [] stored.status \in {"disconnected", "degraded", "initializing"} -> stored.status
    [] OTHER -> Unforced
StatusReasons ==
  Reason(stored.status = "pending_deletion", "info", "project_deletion_pending")
  \cup Reason(stored.status = "disconnected", "error", "project_disconnected")
  \cup Reason(stored.status = "degraded", "error", "project_projection_degraded")
  \cup Reason(stored.status = "initializing", "info", "project_initializing")

Missing == stored.installation = NoRow
Suspended == ~Missing /\ "suspended" \in {stored.installation.life, stored.installation.permission}
Revoked ==
  /\ ~Missing /\ ~Suspended
  /\ stored.installation.life \in {"deleted", "pending_deletion"} \/ stored.installation.permission = "revoked"

InstallationForces(forced) == IF Missing \/ Suspended \/ Revoked THEN "disconnected" ELSE forced
InstallationReasons ==
  Reason(Missing, "error", "installation_missing")
  \cup Reason(Suspended, "error", "installation_suspended")
  \cup Reason(Revoked, "error", "installation_revoked")
  \cup Reason(~Missing /\ ~Suspended /\ ~Revoked /\ stored.installation.permission = "stale",
              "warning", "installation_permissions_stale")

NoRun == [status |-> "none", class |-> "none"]
Latest == IF stored.runs = <<>> THEN NoRun ELSE stored.runs[1]

RunForces(forced) ==
  CASE Latest.status \in {"queued", "running"} /\ forced \in {Unforced, "initializing"} ->
         IF stored.status = "initializing" THEN "initializing" ELSE "synchronizing"
    [] Latest.status = "failed" ->
         IF Latest.class = "permission_problem" THEN "disconnected" ELSE "degraded"
    [] OTHER -> forced
RunReasons ==
  Reason(Latest.status \in {"queued", "running"}, "info", "synchronization_in_progress")
  \cup Reason(Latest.status = "failed", "error", "synchronization_failed")

ClassForces(forced) ==
  IF Latest.class \in {"destructive_history_change", "unknown_inconsistency"} THEN "degraded" ELSE forced
ClassReasons ==
  Reason(Latest.class \in {"destructive_history_change", "unknown_inconsistency"}, "error", Latest.class)
  \cup Reason(Latest.class = "recoverable_drift", "warning", "recoverable_drift")

\* Mutant of CountForces: partial presence is only given as a reason.
CountForcesIdentity(forced) ==
  IF forced # "disconnected" /\ (Unknown # {} \/ "ambiguous" \in stored.delta) THEN "degraded" ELSE forced

CountForces(forced) ==
  IF forced # "disconnected" /\ (Unknown # {} \/ "ambiguous" \in stored.delta \/ Partial # {})
  THEN "degraded" ELSE forced
CountReasons ==
  Reason(Unknown # {}, "error", "unknown_change_identity")
  \cup Reason("ambiguous" \in stored.delta, "error", "ambiguous_commit_attribution")
  \cup Reason(Partial # {}, "error", "partial_production_presence")
  \cup Reason("unmanaged" \in stored.delta, "warning", "unmanaged_commits")

CheckReasons(checks) ==
  Reason(checks \in {"failed", "missing"}, "error", "required_checks")
  \cup Reason(checks \in {"stale", "unknown", "pending"}, "warning", "required_checks")

Health(checks) ==
  LET reasons == StatusReasons \cup InstallationReasons \cup RunReasons \cup ClassReasons
                   \cup stored.issues \cup CountReasons \cup CheckReasons(checks)
      forced == CountForces(ClassForces(RunForces(InstallationForces(StatusForces))))
  IN  [state |-> IF forced # Unforced THEN forced
                 ELSE IF reasons # {} THEN "attention" ELSE "healthy",
       reasons |-> reasons]
-----------------------------------------------------------------------------
Page(checks) == [checks |-> checks, health |-> Health(checks)]

Init == stored \in Snapshots /\ pages = [p \in Pages |-> Nothing]

Answer(p, what) ==
  /\ pages[p] = Nothing
  /\ pages' = [pages EXCEPT ![p] = what]
  /\ UNCHANGED stored

LoadOverview == Answer("overview", Page(OverviewChecks))

LoadHistory == Answer("history", Page(HistoryChecks))

ListChanges ==
  LET listed == Ahead \cup {c \in Item : Of(c) # NoRow /\ Of(c).sync = "unknown"}
  IN  Answer("changes", [c \in listed |-> ChangeChecks(c)])

Next == LoadOverview \/ LoadHistory \/ ListChanges

Spec == Init /\ [][Next]_vars
-----------------------------------------------------------------------------
(* Properties *)

\* The overview and the history show the same health and the same state of the checks, and
\* that state is the worst the list shows for a change with a known identity: the pages
\* never contradict each other although each counts rows of its own.
PagesAgree ==
  /\ pages["overview"] # Nothing /\ pages["history"] # Nothing => pages["overview"] = pages["history"]
  /\ pages["overview"] # Nothing /\ pages["changes"] # Nothing /\ stored.policy # {} /\ Ahead # {} =>
       pages["overview"].checks = Worst({pages["changes"][c] : c \in Ahead})

\* The row of a change that the evaluation of the release makes from the same snapshot.
AsRow(c) ==
  [sync |-> Of(c).sync, presence |-> Of(c).presence, qa |-> "passed", commits |-> Of(c).commits,
   checks |-> {IF stored.states[<<c, x>>] = NoRow THEN "missing" ELSE stored.states[<<c, x>>] : x \in stored.policy}]

\* "Projection is current and internally consistent." (dashboard.ts:902) is only said of a
\* project whose release nothing but its QA and its dependencies could block, and
\* "Projection is usable" (dashboard.ts:904) only of one whose changes are all identified
\* and whose project and installation have not stopped the evaluation.
HealthIsPlannable ==
  \A p \in {"overview", "history"} :
    pages[p] # Nothing =>
      LET faults == Global(stored.status, stored.installation, stored.delta)
                      \cup UNION {Intrinsic(AsRow(c)) : c \in {d \in Item : Of(d) # NoRow /\ Of(d).presence # "released"}}
      IN  /\ pages[p].health.state = "healthy" => faults = {}
          /\ pages[p].health.state = "attention" =>
               /\ faults \cap {"project_degraded", "commit_set_unknown", "partially_released_change",
                               "ambiguous_change"} = {}
               /\ "permission_missing" \in faults => stored.installation.permission = "stale"
=============================================================================
