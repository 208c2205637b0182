------------------------ MODULE RepositoryProjection ------------------------
(***************************************************************************)
(* One project and its repository: commits, pull requests and branches on  *)
(* GitHub, the reconciliations that project them, the change rows they     *)
(* leave, the QA assessments given to those rows and the reconfiguration   *)
(* of the source branch.  Requests, their queue and their lock are in      *)
(* RepositorySync; here one reconciliation runs at a time, reads the heads *)
(* in one step and applies a snapshot in a later one.                      *)
(***************************************************************************)
EXTENDS SnapshotValidation

CONSTANTS Sources,      \* branches that can be configured as the source
          Events,       \* the kinds of event that occur in the instance
          MaxLength,    \* commits a pull request is opened with
          MaxCommits,   \* bound on the history
          MaxRuns,      \* bound on the reconciliations
          MaxQa,        \* bound on the assessments
          MaxConfigured \* bound on the configurations

Production == "production"
NoCommit == 0

VARIABLES log,       \* the commits ever made
          heads,     \* branch heads on GitHub
          pulls,     \* pull requests on GitHub
          project,   \* the projects row
          rows,      \* the changes table, by pull request
          last,      \* the projection of the last successful run
          qa,        \* change_qa_assessments, in sequence
          run,       \* the reconciliation that is running
          runs,      \* reconciliations started
          outcome,   \* how the last one ended
          quiet      \* runs applied since anything but a run changed or GitHub did
                      \* not answer in full (at most 3)

github == <<log, heads, pulls>>
vars == <<log, heads, pulls, project, rows, last, qa, run, runs, outcome, quiet>>

NoPull == [state |-> "none", base |-> Production, head |-> NoCommit, at |-> 0,
           merge |-> NoCommit, originals |-> <<>>, brought |-> {}]
NoRow == [id |-> 0, state |-> "absent", presence |-> "unknown", commits |-> <<>>,
          integration |-> NoCommit, head |-> NoCommit]
NoProjection == [source |-> NoCommit, production |-> NoCommit, ambiguous |-> {},
                 changes |-> [p \in {} |-> NoRow]]
NoRun == [pc |-> "idle", source |-> NoCommit, production |-> NoCommit,
          configuration |-> 0, rewritten |-> FALSE, unknown |-> {},
          stored |-> NoProjection, archived |-> FALSE]

Known(p) == rows[p].state = "known"
Unknown == {p \in Pulls : rows[p].state = "unknown"}
Stored == {p \in Pulls : rows[p].state # "absent"}
Commits == 1..Len(log)

TypeOK ==
  /\ \A b \in Sources \cup {Production} : heads[b] \in Commits
  /\ \A p \in Pulls :
       /\ pulls[p].state \in {"none", "open", "merged"}
       /\ ToSet(pulls[p].originals) \cup pulls[p].brought \subseteq Commits
       /\ rows[p].state \in {"absent", "known", "unknown"}
       /\ rows[p].presence \in {"unreleased", "partially_present", "released", "unknown"}
       /\ ToSet(rows[p].commits) \subseteq Commits
       /\ Known(p) => pulls[p].state = "merged"
       /\ Known(p) <=> rows[p].presence # "unknown"
  /\ project.status \in {"initializing", "active", "degraded"}
  /\ project.branch \in Sources
  /\ {project.source, project.production} \subseteq Commits
  /\ run.pc \in {"idle", "read", "retry"}
  /\ runs \in 0..MaxRuns /\ Len(qa) <= MaxQa /\ quiet \in 0..3

-----------------------------------------------------------------------------
(* GitHub                                                                  *)

(* Bound: the history stops growing at MaxCommits and once no run is left.  *)
Room(n) == n \in 0..(MaxCommits - Len(log)) /\ (runs < MaxRuns \/ run.pc # "idle")

Happens(kind) == kind \in Events /\ quiet' = 0
                 /\ UNCHANGED <<project, rows, last, qa, run, runs, outcome>>

(* `c` on top of its parents. *)
Append1(parents, patch) == Append(log, NewCommit(log, parents, patch))

(* A line of commits with these patches on top of `head`. *)
Grown(head, patches) ==
  log \o [k \in 1..Len(patches) |->
           [parents |-> <<IF k = 1 THEN head ELSE Len(log) + k - 1>>, patch |-> patches[k],
            reach |-> log[head].reach \cup (Len(log) + 1)..(Len(log) + k)]]

(* The history with copies of the commits on top of `head`. *)
Copies(head, commits) == Grown(head, [k \in 1..Len(commits) |-> log[commits[k]].patch])

(* Branch `b` moves forward to `new`: the pull request that was merged and  *)
(* every open one whose head the branch now holds count as merged.          *)
Landed(b, grown, new, merging) ==
  [p \in Pulls |->
    LET pull == pulls[p]
        own == Between(log, heads[b], pull.head)
    IN IF pull.state = "open" /\ pull.base = b
          /\ (p = merging \/ pull.head \in grown[new].reach)
       THEN [pull EXCEPT !.state = "merged", !.at = new, !.merge = new,
               !.originals = TopoOrder(log, heads[b], pull.head),
               !.brought = IF p = merging
                           THEN grown[new].reach \ log[heads[b]].reach
                           ELSE own]
       ELSE pull]

(* The branch has no patch of the commits: what it has already cannot be    *)
(* put on it again.                                                         *)
New(b, commits) == Patches(log, commits) \cap Patches(log, log[heads[b]].reach) = {}

Push(b) ==
  /\ Room(1) /\ Happens("push")
  /\ log' = Append1(<<heads[b]>>, Len(log) + 1)
  /\ heads' = [heads EXCEPT ![b] = Len(log')]
  /\ UNCHANGED pulls

(* A pull request of `n` commits forked from a branch or from the head of   *)
(* another open pull request.                                               *)
Open(p, b, from, n) ==
  /\ Room(n) /\ Happens("open")
  /\ pulls[p].state = "none"
  /\ \A q \in Pulls : q < p => pulls[q].state # "none"
  /\ from \in {heads[b], heads[Production]}
              \cup {pulls[q].head : q \in {q \in Pulls : pulls[q].state = "open"}}
  /\ log' = Grown(from, [k \in 1..n |-> Len(log) + k])
  /\ pulls' = [pulls EXCEPT ![p] =
                 [NoPull EXCEPT !.state = "open", !.base = b, !.head = Len(log')]]
  /\ UNCHANGED heads

(* "Update branch": the base is merged into the pull request. *)
UpdateBranch(p) ==
  /\ Room(1) /\ Happens("update")
  /\ pulls[p].state = "open"
  /\ ~IsAncestor(log, heads[pulls[p].base], pulls[p].head)
  /\ log' = Append1(<<pulls[p].head, heads[pulls[p].base]>>, 0)
  /\ pulls' = [pulls EXCEPT ![p].head = Len(log')]
  /\ UNCHANGED heads

Merge(p) ==
  LET b == pulls[p].base IN
  /\ Room(1) /\ Happens("merge")
  /\ pulls[p].state = "open" /\ Between(log, heads[b], pulls[p].head) # {}
  /\ log' = Append1(<<heads[b], pulls[p].head>>, 0)
  /\ heads' = [heads EXCEPT ![b] = Len(log')]
  /\ pulls' = Landed(b, log', Len(log'), p)

(* The patch of a squashed commit is that of a single original or new. *)
Squash(p) ==
  LET b == pulls[p].base
      own == Between(log, heads[b], pulls[p].head)
  IN
  /\ Room(1) /\ Happens("squash")
  /\ pulls[p].state = "open" /\ own # {} /\ New(b, own)
  /\ log' = Append1(<<heads[b]>>,
              IF Cardinality(own) = 1 THEN log[pulls[p].head].patch ELSE Len(log) + 1)
  /\ heads' = [heads EXCEPT ![b] = Len(log')]
  /\ pulls' = Landed(b, log', Len(log'), p)

Rebase(p) ==
  LET b == pulls[p].base
      own == TopoOrder(log, heads[b], pulls[p].head)
  IN
  /\ pulls[p].state = "open"
  /\ Room(Len(own)) /\ Happens("rebase")
  /\ own # <<>> /\ New(b, ToSet(own))
  /\ \A c \in ToSet(own) : ~IsMerge(log, c)
  /\ log' = Copies(heads[b], own)
  /\ heads' = [heads EXCEPT ![b] = Len(log')]
  /\ pulls' = Landed(b, log', Len(log'), p)

(* Production moves forward along the source branch. *)
Release(c) ==
  /\ Room(0) /\ Happens("release")
  /\ c \in ToSet(FirstParents(log, heads[Production], heads[project.branch]))
  /\ IsAncestor(log, heads[Production], c)
  /\ heads' = [heads EXCEPT ![Production] = c]
  /\ UNCHANGED <<log, pulls>>

CherryPick(c) ==
  /\ Room(1) /\ Happens("pick")
  /\ c \in Between(log, heads[Production], heads[project.branch]) /\ ~IsMerge(log, c)
  /\ log[c].patch \notin Patches(log, log[heads[Production]].reach)
  /\ log' = Append1(<<heads[Production]>>, log[c].patch)
  /\ heads' = [heads EXCEPT ![Production] = Len(log')]
  /\ UNCHANGED pulls

(* Production is merged back into the source branch. *)
MergeBack ==
  LET b == project.branch IN
  /\ Room(1) /\ Happens("back")
  /\ ~IsAncestor(log, heads[Production], heads[b])
  /\ log' = Append1(<<heads[b], heads[Production]>>, 0)
  /\ heads' = [heads EXCEPT ![b] = Len(log')]
  /\ UNCHANGED pulls

(* The last commit of the source branch is dropped or amended. *)
ForcePush(amended) ==
  LET b == project.branch
      below == FirstParent(log, heads[b])
  IN
  /\ Room(1) /\ Happens("force")
  /\ below # NoCommit
  /\ log' = IF amended THEN Append1(<<below>>, log[heads[b]].patch) ELSE log
  /\ heads' = [heads EXCEPT ![b] = IF amended THEN Len(log') ELSE below]
  /\ UNCHANGED pulls

GitHub ==
  \/ \E b \in Sources : Push(b)
  \/ \E p \in Pulls, b \in Sources, from \in Commits, n \in 1..MaxLength :
       Open(p, b, from, n)
  \/ \E p \in Pulls : UpdateBranch(p) \/ Merge(p) \/ Squash(p) \/ Rebase(p)
  \/ \E c \in Commits : Release(c) \/ CherryPick(c)
  \/ MergeBack
  \/ \E amended \in BOOLEAN : ForcePush(amended)

(* What GitHub answers while a snapshot is built.  One pull request may be  *)
(* missing from one API or from both, or contradict itself.                 *)
FullAnswer == [rest |-> Pulls, graph |-> Pulls, garbled |-> {}]
Answers ==
  {FullAnswer} \cup
  IF "lag" \notin Events THEN {}
  ELSE {[FullAnswer EXCEPT !.graph = Pulls \ {p}] : p \in Pulls}
       \cup {[FullAnswer EXCEPT !.rest = Pulls \ {p}, !.graph = Pulls \ {p}] : p \in Pulls}
       \cup {[FullAnswer EXCEPT !.garbled = {p}] : p \in Pulls}

-----------------------------------------------------------------------------
(* The reconciliation                                                      *)

(* compareRepositoryHistory: GitHub calls anything but ahead or identical a *)
(* rewrite.                                                                 *)
Rewritten(source, production) ==
  ~IsAncestor(log, project.source, source) \/ ~IsAncestor(log, project.production, production)

(* The rows as loadStoredRepositoryProjectionState reads them back; a       *)
(* project without a projection has none.                                   *)
StoredProjection ==
  IF project.projected
  THEN [source |-> project.source, production |-> project.production,
        ambiguous |-> last.ambiguous,
        changes |-> [p \in Stored |-> [rows[p] EXCEPT !.id = 0]]]
  ELSE NoProjection

Observed == [source |-> heads[project.branch], production |-> heads[Production]]

(* Mutant of Begin: an archive leaves the QA epoch alone. *)
BeginKeepingQa(rewritten) ==
  /\ run' = [NoRun EXCEPT !.pc = "read",
               !.source = Observed.source, !.production = Observed.production,
               !.configuration = project.configuration,
               !.rewritten = rewritten,
               !.unknown = IF project.projected THEN Unknown ELSE {},
               !.stored = StoredProjection,
               !.archived = run.archived \/ rewritten]
  /\ project' = IF rewritten THEN [project EXCEPT !.status = "degraded"] ELSE project

(* The heads are compared with those projected last.  After a rewrite the   *)
(* projection is archived, once for a request, and QA starts over.          *)
Begin(rewritten) ==
  /\ run' = [NoRun EXCEPT !.pc = "read",
               !.source = Observed.source, !.production = Observed.production,
               !.configuration = project.configuration,
               !.rewritten = rewritten,
               !.unknown = IF project.projected THEN Unknown ELSE {},
               !.stored = StoredProjection,
               !.archived = run.archived \/ rewritten]
  /\ project' = IF rewritten
                THEN [project EXCEPT !.status = "degraded",
                        !.epoch = IF run.archived THEN @ ELSE @ + 1]
                ELSE project

Start ==
  /\ run.pc = "idle" /\ runs < MaxRuns
  /\ runs' = runs + 1
  /\ Begin(Rewritten(Observed.source, Observed.production))
  /\ UNCHANGED <<github, rows, last, qa, outcome, quiet>>

(* The job runs again after a crash.  Heads or a configuration other than   *)
(* the request's supersede it.                                              *)
Retry ==
  /\ run.pc = "retry"
  /\ IF /\ run.source = Observed.source /\ run.production = Observed.production
        /\ run.configuration = project.configuration
     THEN /\ Begin(Rewritten(run.source, run.production))
          /\ UNCHANGED outcome
     ELSE run' = NoRun /\ outcome' = "superseded" /\ UNCHANGED project
  /\ UNCHANGED <<github, rows, last, qa, runs, quiet>>

Crash ==
  /\ run.pc = "read" /\ "crash" \in Events
  /\ run' = [NoRun EXCEPT !.pc = "retry", !.source = run.source,
               !.production = run.production, !.configuration = run.configuration,
               !.archived = run.archived]
  /\ UNCHANGED <<github, project, rows, last, qa, runs, outcome, quiet>>

(* Mutant of Classify: every run that finds the heads it left is a drift. *)
ClassifyDrifting(fingerprint, projected) ==
  CASE run.rewritten -> "destructive_history_change"
    [] ~run.rewritten /\ run.unknown \ projected # {} -> "unknown_inconsistency"
    [] ~run.rewritten /\ run.unknown \subseteq projected
       /\ project.source = run.source /\ project.production = run.production
       /\ run.stored # NoProjection ->
         "recoverable_drift"
    [] OTHER -> "expected_change"

(* classifyRepositoryDifference, for a run nothing but its heads explains. *)
Classify(fingerprint, projected) ==
  LET previous == run.stored
      sameHeads == /\ project.source = run.source
                   /\ project.production = run.production
  IN
  CASE run.rewritten -> "destructive_history_change"
    [] ~run.rewritten /\ run.unknown \ projected # {} -> "unknown_inconsistency"
    [] ~run.rewritten /\ run.unknown \subseteq projected
       /\ sameHeads /\ previous # NoProjection /\ previous # fingerprint ->
         "recoverable_drift"
    [] OTHER -> "expected_change"

(* reconcileMissingChanges and the upsert of the projected ones: a row keeps *)
(* its ID; one that is missing is kept as unknown after a rewrite and       *)
(* deleted otherwise, unless it is unknown already.                         *)
NextRows(changes, preserve) ==
  [p \in Pulls |->
    IF p \in DOMAIN changes
    THEN [changes[p] EXCEPT !.id = IF rows[p].state = "absent" THEN runs ELSE rows[p].id]
    ELSE IF rows[p].state = "absent" THEN NoRow
    ELSE IF preserve THEN [rows[p] EXCEPT !.state = "unknown", !.presence = "unknown"]
    ELSE IF rows[p].state = "unknown" THEN rows[p] ELSE NoRow]

(* The rows of a snapshot. *)
Changes(attribution) ==
  [p \in DOMAIN attribution.changes |->
    [NoRow EXCEPT !.state = "known", !.head = pulls[p].head,
       !.presence = attribution.changes[p].presence,
       !.commits = attribution.changes[p].commits,
       !.integration = attribution.changes[p].integration]]

Fingerprint(git, attribution) ==
  [source |-> git.source, production |-> git.production,
   ambiguous |-> attribution.ambiguous, changes |-> Changes(attribution)]

(* applyRepositoryProjectionInTransaction *)
Apply(git, attribution) ==
  LET changes == Changes(attribution)
      fingerprint == Fingerprint(git, attribution)
      class == Classify(fingerprint, DOMAIN changes)
      status == IF class \in {"destructive_history_change", "unknown_inconsistency"}
                THEN "degraded" ELSE "active"
      projectionChanged == ~project.projected \/ last # fingerprint
      releaseStateChanged == \/ projectionChanged
                             \/ project.status # status
                             \/ class = "recoverable_drift"
  IN
  /\ rows' = NextRows(changes, class = "destructive_history_change")
  /\ last' = fingerprint
  /\ project' = [project EXCEPT !.status = status, !.projected = TRUE,
                   !.source = git.source, !.production = git.production]
  /\ outcome' = IF releaseStateChanged THEN "applied" ELSE "unchanged"

(* The snapshot is built and validated; heads or a configuration that have  *)
(* changed meanwhile supersede the run.                                     *)
Finish(answers) ==
  LET git == GitSnapshot(log, run.production, run.source)
      attribution == Attribution(log, pulls, project.branch, git, answers)
      fail(result) ==
        /\ outcome' = result
        /\ project' = IF run.configuration = project.configuration
                      THEN [project EXCEPT !.status = "degraded"] ELSE project
        /\ quiet' = IF answers = FullAnswer THEN quiet ELSE 0
        /\ UNCHANGED <<rows, last>>
  IN
  /\ run.pc = "read"
  /\ run' = NoRun
  /\ UNCHANGED <<github, qa, runs>>
  /\ \/ /\ ~IsAncestor(log, run.production, run.source)
        /\ answers = FullAnswer
        /\ fail("not_ancestor")
     \/ /\ IsAncestor(log, run.production, run.source)
        /\ run.configuration = project.configuration
        /\ ~SnapshotIsCoherent(log, pulls, git, attribution)
        /\ fail("rejected")
     \/ /\ IsAncestor(log, run.production, run.source)
        /\ \/ run.configuration # project.configuration
           \/ [source |-> run.source, production |-> run.production] # Observed
        /\ answers = FullAnswer
        /\ outcome' = "superseded"
        /\ UNCHANGED <<project, rows, last, quiet>>
     \/ /\ IsAncestor(log, run.production, run.source)
        /\ run.configuration = project.configuration
        /\ [source |-> run.source, production |-> run.production] = Observed
        /\ SnapshotIsCoherent(log, pulls, git, attribution)
        /\ Apply(git, attribution)
        /\ quiet' = IF answers # FullAnswer THEN 0 ELSE IF quiet = 3 THEN 3 ELSE quiet + 1

-----------------------------------------------------------------------------
(* People                                                                  *)

(* effective_change_qa_assessments: the latest one given to this row, this  *)
(* head, this commit set and this epoch.                                    *)
Effective(p) ==
  LET current == {k \in DOMAIN qa :
        /\ qa[k].row = rows[p].id /\ qa[k].pull = p
        /\ qa[k].head = rows[p].head /\ qa[k].commits = rows[p].commits
        /\ qa[k].epoch = project.epoch}
  IN IF Known(p) /\ current # {} THEN Max(current) ELSE 0

RecordQa(p, status) ==
  /\ Len(qa) < MaxQa
  /\ project.status = "active" /\ Known(p)
  /\ rows[p].presence \in {"unreleased", "partially_present"}
  /\ Effective(p) # 0 => qa[Effective(p)].status # status
  /\ qa' = Append(qa,
       [pull |-> p, row |-> rows[p].id, head |-> rows[p].head,
        commits |-> rows[p].commits, epoch |-> project.epoch, status |-> status,
        source |-> project.source, production |-> project.production,
        configuration |-> project.configuration])
  /\ UNCHANGED <<github, project, rows, last, run, runs, outcome, quiet>>

(* updateConfiguredProject with another source branch: topology.ts asks for *)
(* different branches and for production to be an ancestor.                 *)
Configure(b) ==
  /\ project.configuration < MaxConfigured /\ runs < MaxRuns
  /\ b # project.branch /\ IsAncestor(log, heads[Production], heads[b])
  /\ project' = [project EXCEPT !.branch = b, !.status = "initializing",
                   !.projected = FALSE, !.configuration = @ + 1,
                   !.source = heads[b], !.production = heads[Production]]
  /\ rows' = [p \in Pulls |->
       IF rows[p].state = "absent" THEN NoRow
       ELSE [rows[p] EXCEPT !.state = "unknown", !.presence = "unknown",
               !.commits = <<>>, !.integration = NoCommit]]
  /\ quiet' = 0
  /\ UNCHANGED <<github, last, qa, run, runs, outcome>>

-----------------------------------------------------------------------------
Init ==
  /\ log = <<NewCommit(<<>>, <<>>, 1)>>
  /\ heads = [b \in Sources \cup {Production} |-> 1]
  /\ pulls = [p \in Pulls |-> NoPull]
  /\ \E b \in Sources : project = [status |-> "initializing", branch |-> b,
       projected |-> FALSE, configuration |-> 1, epoch |-> 0, source |-> 1, production |-> 1]
  /\ rows = [p \in Pulls |-> NoRow]
  /\ last = NoProjection
  /\ qa = <<>>
  /\ run = NoRun /\ runs = 0 /\ outcome = "none" /\ quiet = 0

Next ==
  \/ GitHub
  \/ Start \/ Retry \/ Crash
  \/ \E answers \in Answers : Finish(answers)
  \/ \E p \in Pulls, status \in {"passed", "failed"} : RecordQa(p, status)
  \/ \E b \in Sources : Configure(b)

Spec == Init /\ [][Next]_vars

-----------------------------------------------------------------------------
(* Properties                                                              *)

(* What git-workspace.ts and pr-attribution.ts make of any history passes   *)
(* the checks store.ts makes before it replaces the projection: no history  *)
(* a team can produce leaves the project failing with an invalid snapshot.  *)
SnapshotIsValid == outcome # "rejected"

(* A row is given the commits its pull request brought to the source branch *)
(* and that production lacks, all of them and no other's, whatever was      *)
(* merged, released, picked or merged back around it                        *)
(* (attributePullRequestChanges).                                           *)
AttributedTruly ==
  \A p \in Pulls : Known(p) =>
    ToSet(rows[p].commits)
      = pulls[p].brought \cap Between(log, project.production, project.source)

(* After a reconciliation with full answers every pull request merged since *)
(* the production head has its row, unless it shares commits with another   *)
(* one or was released in part (attributePullRequestChanges calls what it   *)
(* cannot place ambiguous).                                                 *)
EveryChangeIsFound ==
  quiet > 0 =>
    \A p \in Pulls :
      LET touched(q) == pulls[q].brought \cup ToSet(pulls[q].originals) IN
      /\ pulls[p].state = "merged" /\ pulls[p].base = project.branch
      /\ pulls[p].brought # {}
      /\ pulls[p].brought \subseteq Between(log, project.production, project.source)
      /\ \A q \in Pulls \ {p} : touched(p) \cap touched(q) = {}
      => Known(p)

(* A change whose branch was never updated from its base is shown as        *)
(* released exactly when production has every patch of it, also after       *)
(* production was merged back (readProductionPatchEquivalence).             *)
PickedIsReleased ==
  \A p \in Pulls :
    Known(p) /\ (\A c \in ToSet(rows[p].commits) \ {rows[p].integration} : ~IsMerge(log, c)) =>
      (rows[p].presence = "released"
        <=> Patches(log, ToSet(rows[p].commits))
              \subseteq Patches(log, log[project.production].reach))

(* A QA decision counts only while the projected heads descend from those   *)
(* it was made on: a rewrite found by a reconciliation ends it              *)
(* (archiveRepositoryProjectionInTransaction, qa_epoch).                    *)
RewriteResetsQa ==
  \A p \in Pulls : Effective(p) # 0 =>
    LET given == qa[Effective(p)] IN
    given.configuration = project.configuration =>
      /\ IsAncestor(log, given.source, project.source)
      /\ IsAncestor(log, given.production, project.production)

(* While GitHub stands still and answers in full, a third reconciliation    *)
(* finds nothing left to change: none keeps moving the release state, which *)
(* would have every candidate evaluated again each time.                    *)
SettlesAfterTwo == outcome = "applied" => quiet <= 2

(* Once it has settled, a project that is shown as active has no change of  *)
(* unknown state (classifyRepositoryDifference).                            *)
ActiveMeansKnown == project.status = "active" /\ quiet >= 2 => Unknown = {}

=============================================================================
