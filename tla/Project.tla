------------------------------- MODULE Project -------------------------------
(***************************************************************************)
(* The project of a repository: its configuration, and its history with    *)
(* the projection that reconciliations make of it, side by side.  The      *)
(* parts share no state; each property is about one of them.               *)
(***************************************************************************)
EXTENDS ProjectConfiguration

CONSTANTS Pulls, Sources, Events, MaxLength, MaxCommits, MaxRuns, MaxQa, MaxConfigured

ASSUME ProjectAssumption == Pulls \subseteq Nat /\ MaxRuns \in Nat

VARIABLES log, branches, pulls, projected, rows, last, qa, run, runs, outcome, quiet

rvars == <<log, branches, pulls, projected, rows, last, qa, run, runs, outcome, quiet>>

Repository == INSTANCE RepositoryProjection WITH heads <- branches, project <- projected
-----------------------------------------------------------------------------
\* A QA decision does not outlive a rewrite that a reconciliation has found.
RewriteResetsQa == Repository!RewriteResetsQa

\* A third reconciliation of a quiet repository changes nothing, and a project that has settled
\* as active has no change of unknown state.
SettlesAfterTwo == Repository!SettlesAfterTwo /\ Repository!ActiveMeansKnown
=============================================================================
