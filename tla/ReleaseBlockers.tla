---------------------------- MODULE ReleaseBlockers ----------------------------
(***************************************************************************)
(* What blocks a release on its own: the faults of one change, and those   *)
(* of the project as a whole.  The evaluation of a candidate starts from   *)
(* them; the dashboard tells the same facts from rows of its own.          *)
(***************************************************************************)
EXTENDS Naturals, FiniteSets

Presence == {"unreleased", "released", "partially_present", "unknown"}
Row == [sync : {"known", "stale", "unknown"}, presence : Presence,
        qa : {"pending", "passed", "failed"},
        checks : SUBSET {"successful", "pending", "failed", "missing", "stale"},
        commits : SUBSET {"managed", "unmanaged", "ambiguous"}]

CheckState(state) == IF state = "stale" THEN "pending" ELSE state

Attribution(row) ==
  IF row.commits = {} \/ "ambiguous" \in row.commits THEN "ambiguous"
  ELSE IF "unmanaged" \in row.commits THEN "unmanaged" ELSE "managed"

Codes(holds) == {code \in DOMAIN holds : holds[code]}

Intrinsic(row) ==
  LET states == {CheckState(s) : s \in row.checks}
  IN  Codes([commit_set_unknown |-> row.sync # "known" \/ row.presence = "unknown",
             partially_released_change |-> row.presence \in {"partially_present", "released"},
             qa_pending |-> row.qa = "pending",
             qa_failed |-> row.qa = "failed",
             required_check_pending |-> "pending" \in states,
             required_check_failed |-> "failed" \in states,
             required_check_missing |-> "missing" \in states,
             unmanaged_change |-> Attribution(row) = "unmanaged",
             ambiguous_change |-> Attribution(row) = "ambiguous"])

\* What the project's status, the state of the installation and the attributions of the
\* commits ahead of production say against a release.
Global(status, installation, delta) ==
  Codes([project_degraded |-> status # "active",
         permission_missing |-> installation # [life |-> "active", permission |-> "current"],
         unmanaged_change |-> "unmanaged" \in delta,
         ambiguous_change |-> "ambiguous" \in delta])
=============================================================================
