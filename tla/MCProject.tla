------------------------------- MODULE MCProject -------------------------------
(***************************************************************************)
(* The project of a repository for TLC, in six parts.  The history: two    *)
(* pull requests merged in every way into one source branch and reconciled *)
(* once; one pull request with rewrites, lagging answers, crashes and QA   *)
(* over several reconciliations; one with two source branches.  The        *)
(* configuration: two users who change overrides and remove the project,   *)
(* two users who change branches, and one whose branches move meanwhile.   *)
(* The module that is not chosen stays in its initial state.               *)
(***************************************************************************)
EXTENDS Project

VARIABLE part

mcvars == <<vars, rvars, part>>

Attributing == INSTANCE RepositoryProjection
  WITH heads <- branches, project <- projected,
       Pulls <- {1, 2}, Sources <- {"main"}, MaxLength <- 2, MaxCommits <- 8, MaxRuns <- 1,
       MaxConfigured <- 1,
       Events <- {"open", "update", "merge", "squash", "rebase", "release", "pick", "back"}
Rewriting == INSTANCE RepositoryProjection
  WITH heads <- branches, project <- projected,
       Sources <- {"main"}, MaxCommits <- 5, MaxRuns <- 3, MaxQa <- 1, MaxConfigured <- 1,
       Events <- {"open", "push", "merge", "force", "lag", "crash"}

Main == [source |-> "main", production |-> "prod"]
Dev == [source |-> "dev", production |-> "prod"]
OnlyMain == {Main}

Branching == INSTANCE ProjectConfiguration
  WITH Topologies <- {Main, Dev}, Overrides <- {FALSE}, Statuses <- {}
Moving == INSTANCE ProjectConfiguration
  WITH Client <- {CHOOSE c \in Client : TRUE}, Topologies <- {Main, Dev}, Overrides <- {FALSE},
       Statuses <- {}, MaxVersion <- 2, MaxMoves <- 2, MaxRefusals <- 1

MCInit ==
  /\ Init
  /\ \/ part = "attributing" /\ Attributing!Init
     \/ part = "rewriting" /\ Rewriting!Init
     \/ part = "sources" /\ Repository!Init
     \/ part \in {"overriding", "branching", "moving"} /\ Attributing!Init

History(step) == step /\ UNCHANGED <<vars, part>>
Settings(step) == step /\ UNCHANGED <<rvars, part>>

MCNext ==
  \/ part = "attributing" /\ History(Attributing!Next)
  \/ part = "rewriting" /\ History(Rewriting!Next)
  \/ part = "sources" /\ History(Repository!Next)
  \/ part = "overriding" /\ Settings(Next)
  \/ part = "branching" /\ Settings(Branching!Next)
  \/ part = "moving" /\ Settings(Moving!Next)

MCSpec == MCInit /\ [][MCNext]_mcvars
-----------------------------------------------------------------------------
\* The tables have their types, no history makes the snapshot invalid, every pull request merged
\* since the production head has its row, and the row owns the commits the pull request brought,
\* all of them and no other's.
AttributedTruly ==
  /\ part = "attributing" =>
       /\ Attributing!TypeOK /\ Attributing!SnapshotIsValid
       /\ Attributing!EveryChangeIsFound /\ Attributing!AttributedTruly
  /\ part = "rewriting" =>
       /\ Rewriting!TypeOK /\ Rewriting!SnapshotIsValid
       /\ Rewriting!EveryChangeIsFound /\ Rewriting!AttributedTruly
  /\ part = "sources" =>
       /\ Repository!TypeOK /\ Repository!SnapshotIsValid
       /\ Repository!EveryChangeIsFound /\ Repository!AttributedTruly

\* A change is released exactly when production has every patch of it.
PickedIsReleased ==
  IF part = "attributing" THEN Attributing!PickedIsReleased ELSE Repository!PickedIsReleased
=============================================================================
