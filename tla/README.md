# Shipgate: specification of the release-planning server

Shipgate projects the branches, pull requests and checks of a GitHub
repository into a database and decides whether the release candidate of each
project is ready.  Almost everything it does is asynchronous: HTTP handlers,
webhooks and synchronizations write rows and queue jobs; several worker
processes pick the jobs up, read the rows later, compute, and write the result
later still.  This directory holds TLA+ modules that model those protocols and
the algorithms they run, TLC configurations that check them on small instances,
and proofs for every value of the constants that TLAPS checks.

    tlc -workers 2 -config RepositorySync_safety.cfg MCSyncSafety.tla
    tlapm RepositorySync_proofs.tla

`PROJECT.json` lists every run with its module, configuration and properties,
the mutation of the model that breaks each property, the source lines that
each definition stands for, the hazards with the properties that cover them, the
findings and the theorems.

## Inventory of the system

Server paths are under `src/apps/server/src`, library paths under
`src/packages`.

| Component | State it keeps | Operations | What makes it correct |
|---|---|---|---|
| Candidate evaluation (`projects/candidate-evaluation-{queue,worker}.ts`) | candidates, evaluations, evaluation requests, one job per request | touch the release state, queue, claim, snapshot, publish, discard, record a failure, recover | a shown result is of the current state; requests end; the newest state is evaluated in the end |
| Release evaluation (`projects/release-evaluation.ts`, `dependency-graph.ts`) | none | `evaluateRelease`, the searches for cycles and components | blocked exactly when something it needs is at fault; prerequisites first |
| Project configuration (`projects/configuration-store.ts`, `service.ts`, `topology.ts`, the settings page) | `projects`, overrides, audit events | create, change branches, override checks, remove | nobody's change is overwritten unseen; stored heads once existed together; removal is final |
| Required checks (`projects/required-checks*.ts`) | policy versions, results, states per change | merge rules and overrides, project results, refresh one commit, reconcile | states are those of the stored results; an evaluation sees them; GitHub's results arrive |
| Repository reconciliation (`projects/initial-sync.ts`, `sync-queue.ts`, `reconciliation.ts`, `store.ts`) | reconciliation requests and runs, the tables of the projection | queue and coalesce, claim, supersede, classify, archive, apply, fail, schedule, recover | a claim holds until it ends; rewritten history is archived; the projection settles on GitHub's heads |
| Incremental synchronization (`projects/incremental-sync*.ts`) | incremental requests | coalesce, claim, observe, ask for a reconciliation, fail, recover | no delivered change is forgotten |
| QA (`projects/qa-workflow.ts`) and exclusions (`candidate-service.ts`) | decisions with epochs, exclusions | record, exclude, restore | a decision does not outlive a rewrite of what it was made for |
| Dependencies (`projects/dependency-*.ts`) | dependency rows, the managed block in pull-request bodies | add, remove, import | no stored cycle; rows and bodies agree; prose is kept |
| Topology and attribution (`topology.ts`, `pr-attribution.ts`, `git-workspace.ts`) | none | functions of the history | every commit belongs to the change that brought it |
| Dashboard (`projects/dashboard.ts`) | none | read pages | pages agree with each other and with the evaluation |
| Jobs (`packages/jobs`) | Graphile rows, shadow rows, heartbeats | enqueue, attempt, classify an error, retry, wait | a status says what happened; what a waiter was told stands |
| Webhook deliveries (`github-webhooks/`, `packages/jobs/src/github-webhook.ts`) | deliveries, installations, repositories | verify, store once, process, retry, purge | applied once; rows follow GitHub |
| GitHub user tokens (`github-user-token-store.ts`, `packages/github/src/auth-provider.ts`) | one encrypted token with a version and a refresh lease | read, refresh under the lease, log in, disconnect, revoke | the stored token is one that GitHub accepts; no refresh token is spent twice |
| GitHub installation clients (`packages/github/src/auth-provider.ts`) | cached clients and pending token requests of a process | get, share, expire, invalidate | nothing older than an invalidation is handed out |
| Repository access (`github-access/`) | rows of installations, a cache per process | reconcile, join, cache, invalidate | an admission was true of GitHub within the time to live |
| Authentication (`auth/`, `http/routes/auth.ts`) | attempts, sessions, cookies | start, callback, log out, disconnect, delete | an attempt makes one session; who was told to be signed out is |
| Process lifecycle (`run-application.ts`, `shutdown.ts`, `worker-runtime.ts`) | hooks, heartbeat | start, drain, stop in order within a deadline | the pool outlives the work; a success cut nothing off |
| Database access (`packages/database`) | pool, advisory locks | `withRepositoryLock`, serializable transactions with retries | one holder per repository; no update is lost |
| HTTP API, web application | cookies, forms | validation, display | forms and cookies are modelled with the components they drive |

How they interact: every writer of the release state ends its transaction with
`touchProjectReleaseStateAndQueueEvaluation`, which adds one to
`projects.release_state_version`, marks the open candidate as evaluating and
inserts or updates one evaluation request and its job in the same transaction.
Webhook deliveries do not write the projection; they queue incremental
synchronizations and refreshes of required checks.  An incremental
synchronization that sees other heads than the projection's queues a
reconciliation, and only a reconciliation replaces the projection.  All these
transactions hold the repository's advisory lock; reads from GitHub and the
reads of an evaluation do not.  Requests of users are admitted by the cached
decision of repository access, act with the user's token, and are answered by
rows that jobs write later.

The hard behaviours: results computed without the lock and published later;
changes coalesced into work that is about to start; crashes between the steps of
a handler; jobs that are retried after part of their effect was committed; requests
that are superseded and the work that must replace them; idempotency keys that are
met again; recovery at start; webhooks lost, repeated and out of order; tokens
that rotate at GitHub while a lease runs out; caches filled from answers that were
asked for before an invalidation; two people who edit the same settings.

## The modules

| Module | Models | Composed by |
|---|---|---|
| `CandidateEvaluation` | queue, jobs, handler, recovery and every writer of the release state, for one project | `MCEvaluationSafety`, `MCLiveness`, `MCCandidateEvaluation` |
| `ReleaseVerdict` | what the evaluation promises, without queue, jobs or workers; `CandidateEvaluation` refines it | |
| `ReleaseBlockers`, `DependencyGraph`, `ReleaseEvaluation` | `evaluateRelease` step by step: blockers, closure, components, order, propagation | `MCPlanning` |
| `DependencySearch` | both depth-first searches, call by call | `MCPlanning` |
| `ManagedBlock` | the block of prerequisites in a body, as tokens | `MCPlanning` |
| `DependencyMirror` | rows and bodies, requests, imports, reconciliations, locks that are lost | `MCPlanning` |
| `Dashboard` | what the pages show of a stored state | `MCPlanning` |
| `RepositorySync` | pushes, webhooks, incremental synchronizations, reconciliations, keys, the scheduler, the recovery | `MCSyncSafety`, `MCLiveness`, `MCRepositorySync` |
| `CommitGraph`, `PullAttribution`, `SnapshotValidation` | histories as graphs of commits with patches; attribution and presence; what makes a snapshot invalid | `RepositoryProjection` |
| `RepositoryProjection` | the rows that a reconciliation makes of the history, over several reconciliations | `Project` |
| `ProjectConfiguration` | the settings, from the form of the page to the commit, while branches move | `Project` |
| `Project` | both of them side by side, with the properties that are proved | `MCProject` |
| `RequiredChecks` | rules, overrides, policy, results, states, handlers of events | `MCLiveness` |
| `RepositoryAccess` | rows, cache, reconciliations and webhooks of one installation | `MCRepositoryAccess` |
| `UserAuthorization` | one user's token in several processes | `GitHub` |
| `WebhookDelivery` | deliveries of one installation, from the ingress to the rows | `GitHub` |
| `GitHub` | both of them side by side, with the properties of both | `MCGitHub` |
| `RepositoryLock`, `ProcessLifecycle`, `UserSessions`, `InstallationClients`, `JobExecution` | what the processes of the server share | `Server` |
| `Server` | the five of them side by side, with their properties | `MCServer` |
| `*_proofs` | theorems about the module of that name | |

`CandidateEvaluation` has the effects of synchronizations on the release state
as writers that act at any time; `RepositorySync` says when they act and leaves
the release state out; `RepositoryProjection` says what they make of the rows.

An MC module that composes several specifications has a variable `part`, chosen
initially: the module of the chosen part takes its steps and the others stay in a
fixed initial state.  A part may give a module other constants (INSTANCE ... WITH)
to reach one kind of behaviour in depth.  The parts share a run because they
answer one question about the system, not because they interact.

### How the modules correspond to the code

*Transactions.*  Transactions of one repository run under its advisory lock at
serializable isolation, so a transaction is one action and the steps of a handler
between two transactions are separate actions.  That this is sound is what
`RepositoryLock` is about (`NothingLost`).  Most modules need no variable for the
lock, because every holder there holds it for one transaction.  `RepositorySync`
has one: a reconciliation keeps the lock from its claim to its end, with all its
reads from GitHub and git in between, and everybody else waits.  In
`DependencyMirror` the holder may lose its session in the middle.

*Rows.*  A request's row, its job row and the handler's local variables are
three records: `request` / `recon` / `incr`, `job`, and `exec[w]` with the step
`pc`, what was claimed and what was read.  An "absent" row has not been
inserted.  A slot whose `pc` is "down" belongs to a worker that has not started.

*Jobs.*  Graphile Worker is external and is modelled as the code relies on it:
a ready job is leased to one slot and counts an attempt; an error releases it
until `MaxAttempts` are used ("dead": the row stays and never runs);
completion deletes the row; the lock of a job that nobody attends to expires.
A `PermanentJobError` completes the job.

*Errors.*  `Fail` is an error inside a handler's `try`: a permanent one, or the
last attempt, is recorded, others are retried.  `RawFail` is an error outside of
it.  `Crash` ends a slot and its database session.  Every kind of fault is named
in the constant `Faults` and counted against `MaxFaults`.

*Heads and histories.*  In `RepositorySync` source and production head are one
number on one line of history: a push to a larger number is a fast-forward, to a
smaller one a rewrite.  In `RepositoryProjection` a history is a log of commits
with parents and patches, and merges, squashes, rebases, cherry-picks and forced
pushes extend it as git does.  In `ProjectConfiguration` commit 1 is the parent of
2 and of 3, the least history with an ancestor and with heads that are unrelated.

*Keys.*  An idempotency key is the record of what distinguishes two keys of one
kind; a key that is met with other input throws, as `assertSameRequest` does.

*Evaluation inputs.*  `evaluateRelease` reads a whole projection.  For the
protocol it reads four things that different writers change: the project's
status, the permission of the installation, the planning data and the check
states; the function itself is `ReleaseEvaluation`.

*Tokens and generations.*  A token of `UserAuthorization` is the number of its
issue.  A generation that is only ever compared with the one a computation
started with is modelled by the comparison.

Operators whose comment begins with "Mutant of" are not part of a model.  They
state a plausible bug in the definition they follow, and each breaks a property.

## The runs

| Run | Parts | Shows |
|---|---|---|
| `evaluation_safety` | every writer, three transactions deep; with new overrides, two deep; two writers with every fault | no interleaving shows a result for an older state (`FreshVerdict`, `Inv`); no evaluation that is needed is dropped (`EvaluationNotDropped`); ended requests stay ended (`TerminalStays`); the protocol refines `ReleaseVerdict` (`ImplementsVerdict`) |
| `planning` | searches; evaluation; block; mirror with pull requests that move; mirror with failing calls, lost locks and crashes; pages | the searches are exact (`SearchesAreExact`); the plan is sound (`PlanIsSound`); written blocks are read back and prose stays (`BlockIsKept`); no cycle is stored (`GraphStaysAcyclic`); rows and bodies agree (`MirrorAgrees`); pages do not contradict each other or the evaluation (`PagesHold`) |
| `access` | - | admissions were true within the time to live (`AllowedIsRecent`); requests share one reconciliation, which caches at most a deletion once it was invalidated (`SharedHonestly`); a deletion stands (`DeletionStands`) |
| `sync_safety` | races with a crash or a permanent error; recovery with configurations and a deletion; people's requests, undisturbed | one request of a kind waits (`OneQueued`); what was claimed holds (`ClaimHolds`); jobs carry all requests (`RequestsCarried`); rewrites are archived and ends are final (`HistoryStands`) |
| `project` | two pull requests in every history, reconciled once; one under rewrites, lagging answers, crashes and QA; one with new source branches; two users with overrides and a removal; two users with branches; one user while branches move | changes own the commits they brought (`AttributedTruly`); presence is told from patches (`PickedIsReleased`); a rewrite ends QA decisions (`RewriteResetsQa`); the state settles after two reconciliations (`SettlesAfterTwo`); stored heads once existed together (`HeadsCoexisted`); no settings are overwritten unseen and removal is final (`ConfigurationStands`) |
| `liveness` | evaluation; five parts of required checks (merges, policies that race, results that race, two surfaces, ageing); synchronization with webhooks that arrive; with the scheduler when those of a push or of a merge are lost | requests end and the newest state is published (`EvaluationsEnd`); heads are projected (`HeadsProjected`); states catch up with GitHub (`ChecksCatchUp`); evaluations see them, also after reconciliations that expect changes (`VerdictSeesStates`) |
| `server` | process; lock; imports on a pool too small; sessions; clients; jobs | connections go back without the lock (`ReturnedClean`); no update is lost (`NothingLost`); the shutdown is orderly (`ShutdownIsOrderly`); sessions end when told (`SessionsStand`); job statuses are true and stand (`ToldStands`); nothing invalidated is handed out (`HandedOutIsCurrent`); callers are served (`ClientsServed`); everything ends (`WorkEnds`) |
| `github` | authorization in ten scenarios of trouble; deliveries | the stored token stands (`TokenStands`); deliveries are applied once (`AppliedOnce`); rows follow GitHub (`RowsFollowGitHub`); everybody gets an answer (`EverythingEnds`) |

The other four runs are the findings below, one violated property each.

**Bounds.**  Every bound is a named constant.  `MaxChanges` / `MaxWrites` bound
the writers' transactions, `MaxFaults` the faults, `MaxAttempts` the attempts of
a job (10 in the code).  Two or three events are what the interesting cases need:
one that queues the work, one between its claim and its end, one that undoes the
other or comes after the retry.  The ids of requests are a finite pool, and a
transaction that would insert beyond it is disabled; the pools are no smaller than the
number of requests that the events of a run can cause, and the liveness parts would
show a handler that is stuck for want of an id.  `Horizon` is the last period with
events and faults and `MaxBucket` the last of the scheduler, so that what must
happen in the end has a period to happen in.  Three heads have every order of two
pushes in `liveness`.  Four nodes have every shape of cycle
and of nested components that `findDependencyComponents` distinguishes; three
changes have a chain, a fork, a join and a cycle with something outside of it.  A
time to live of two ticks leaves one tick at which a cached answer is old and
still admitted, and one at which it is not.  `MaxToken = 3` lets a login overtake a
refresh.  `SmallPool` is the least pool on which imports, which need two
connections each, can wait for each other.  Where a theorem states the property of
a run, nothing depends on its bounds.

**Symmetry.**  Slots and processes are interchangeable; requests are not where the
code takes the first or the latest of several.  Runs with liveness properties use
no symmetry.

**Deadlock** is not checked: once the writers have stopped and every request has
ended, the system rightly does nothing.  That it does not stop earlier is what the
liveness properties say.

**Fairness.**  Weak fairness of each slot's next step (a worker polls for jobs and
a handler runs to its end unless a fault is taken), of the expiry of a dead
worker's job locks and of a refresh lease (the clock), of queued refreshes, of each
kind of delivery (GitHub posts it and its own job processes it), of the
scheduler's scan (a timer in every worker) and of time; of every await of a
handler, and of the deadline of a shutdown.  Writers, users and faults have none.
Weak fairness is enough since a step that is enabled stays enabled, but for two
cases: a handler that waits for the lock, whose holder always moves on, and a
call that waits for another's refresh (`StopWaiting`), which has strong fairness
because the deadline of its wait is not renewed when the lease it waits for is taken
again and again.

## What is proved

Each theorem holds for any values of the constants that satisfy the named
assumptions of its module.  They say that null values are outside of the sets they
complete, that bounds are numbers, and, where a table is indexed by numbers,
that the ids are finite and not empty (`RepositorySync`); that there is a login
(`UserAuthorization`, whose initial state is after one); that event kinds, faults and
payloads are of those the code tells apart (`GitHub`, `Server`); that what users enter are
branches of the repository and statuses those that a synchronization ends with
(`ProjectConfiguration`); that pull requests have numbers (`Project`); that blocks name pull requests (`DependencyMirror`); that there
is a change and that scopes are flags (`RequiredChecks`).  TLC evaluates them in the runs.

* **Candidate evaluation** (`CandidateEvaluation_proofs`).  `Inv == TypeOK /\ FreshVerdict /\
  ReadyMeansPlanned /\ SeenInputsHold /\ CandidateOpen` is inductive
  (`Invariance`).  `ReadyMeansPlanned`, the statement that matters, is not
  inductive alone: `Publish` writes a result that was computed from
  `exec[w].seen` earlier.  `SeenInputsHold` says that these inputs are still
  current unless the release state has moved past the claim, in which case
  `Current` refuses the result; it holds because each writer of an input adds one
  to `project.state` in the same action.  From it: `TypeCorrect`, `VerdictIsFresh`,
  `ReadyIsPlanned`.  `EndedStaysEnded` and `NeededStaysQueued` are the action
  properties.  The proof of the second failed for the property as it first was, which
  had no condition on `candidate.latest`: `Claim` marks the candidate as evaluating for
  a stale request even where the current state has its result already, and a `Drop`
  then finds that result and queues nothing.  It takes four requests, three changes
  and two faults; TLC, asked for these bounds, found it.  `Implements` is the
  refinement of `ReleaseVerdict`, where `world` is the pair of release state and
  candidate version and `verdict` what the candidate shows.
* **Repository synchronization** (`RepositorySync_proofs`).  What a
  reconciliation claimed stands (`ClaimsHold`) because it keeps the lock and every
  writer of what it claimed needs the lock; the invariant adds that the two
  handlers take different steps (`HandlersApart`), that a failure is recorded
  under the lock (`FailsLocked`), that a rewrite is archived before its snapshot
  is loaded (`ArchivedFirst`), that a leased job is attended by one worker
  (`Attended`) and has its request (`Existing`), that no request is ahead of the
  configuration (`Versioned`) and what an acknowledging handler may assume
  (`EndedAcknowledged`).  The theorems are `OneWaits`, `ClaimsHold`, `AllCarried`
  and, as an action property, `HistoryKept`.  The transactions that insert
  requests have lemmas of their own, because a supersession, a configuration and a
  recovery each insert into tables that they have changed before.
* **Repository access** (`RepositoryAccess_proofs`).  `AdmissionIsRecent`
  compares a cached decision with the history of GitHub.  The invariant follows
  the decision through its making: whatever a reconciliation has seen held at or
  after its start (`GoodRec`), and an entry that allows carries that start as its
  age (`GoodEntry`).  The history is kept as the last instant each condition was
  seen to hold, which only grows.  `DeletionKept` follows from the same invariant.
  `SharingIsHonest` needs one more, `RevokedIsGone`: while GitHub has the installation,
  no reconciliation has found it deleted and no cache says so.  That is why the one
  thing that an invalidated reconciliation may still cache is true.
* **User authorization** (`GitHub_proofs`).  `TokenKept`: the stored
  token is one that GitHub accepts or has revoked, unless its successor was lost on
  the way, and no refresh token is sent by two refreshes at once.  It needs to know
  where each token can be: a successor on its way to the row is carried by one
  refresh or login and by nobody else (`Carried`, `Differ`), who spends the token of
  the row holds its lease at the row's version (`Holding`), and a token of the row
  that GitHub no longer accepts has a successor on its way or lost (`Accepted`).
  One lemma says what a step may do to the calls of others (`Retires`) so that the
  actions need only say which of these it is.
* **Webhook deliveries** (`GitHub_proofs`).  `EventsAppliedOnce`: of the handlers that apply
  a delivery one at most has not been undone, unless two faults met it.  The invariant
  (`DInv`) says of every delivery which step its handler is in, that only this handler
  can apply it (`Belongs`), that whoever applied it without ending it failed or crashed
  since (`Succeeds`), and that a delivery that has ended has no handler (`Ends`).
  The condition on the faults is part of the property because the proof needs it:
  a handler that fails or crashes after its commit is retried, and when the claim of the
  retry fails too, the `catch` of `github-webhook.ts:265` marks the delivery as
  failed whatever its state, and the attempt after that applies the event again.
  TLC shows it with two faults and three attempts when the condition is dropped.
  `RowsKeepUp`: the rows of installations and repositories follow from the events applied
  so far, in their order (`Synced`, from `Chained`, which relates one entry of the
  history to the next, and `Mirrored`, which relates its last one to the rows).
* **Project configuration** (`Project_proofs`).  `SettingsStand`: the
  row keeps its constraints, an accepted change was edited from the configuration it
  replaces, removal is final.  A form or a request of the current version shows the
  current configuration (`PageOK`, `RequestOK`) because every transaction counts the
  version; one of an older version can only fall further behind.  `HeadsKnown`: a
  request that reached its commit has verified its heads, and what was verified
  remains part of the history.
* **History and projection** (`Project_proofs`).  Nothing is proved about what
  attribution finds; what is proved holds whatever it finds.  `DecisionsEnd`: a QA
  decision in effect was made on ancestors of the projected heads.  The invariant
  (`QInv`) says that the log only grows and that descent in it is transitive
  (`LogOK`; `GrownGrows` for a line of commits, as a rebase makes them), that
  decisions of the current epoch and configuration descend to the projected heads
  (`QaOK`), and of the reconciliation that runs (`RunOK`) that it has archived the
  projection, so that no decision is current and none can be added before it ends, or
  that its heads descend from the projected ones.  `ReconciliationSettles`: with nobody at
  work and full answers, the third reconciliation changes nothing, and a project shown as
  active by then has no unknown change.  The first answer makes the rows, their fingerprint
  and what the next reconciliation reads agree with the heads (`Settled`: `RowsFound`,
  `RunCurrent`); from there the rows are a fixed point of the reconciliation
  (`NothingFound`) and the second only corrects the status (`Steady`).  The proof failed
  for the history variable as it first was: a run whose lagging answer is rejected
  degrades the project although the heads stand still, so such an answer ends the quiet.
* **Dependencies** (`DependencyMirror_proofs`).  `NoCycleStored` and `MirrorKept`.  Both
  rest on what the holder of the lock knows (`Held`): what it wants closes no cycle
  with the rows as they are, since nobody else stores rows; and the body is the one it
  read or wrote unless some edit is not imported, since an edit that it has not seen
  cannot be imported before it gives the lock up.  A request that lost its session
  keeps writing bodies, and every edit makes the earlier imports out of date
  (`EditedKeeps`), so `MirrorAgrees` needs no exception for bodies that somebody is
  changing: trying to prove it with one showed that it was not needed, and the
  property was strengthened.  That `Acyclic` is what the search computes stays with
  `SearchesAreExact`.
* **Required checks** (`RequiredChecks_proofs`).  `VerdictSeesStates`: the stored states
  are those of the stored results, and an evaluation that is not queued has read them.
  That a reconciliation with the same fingerprint queues nothing is sound only because
  evidence that is equal but for its age, and holds nothing aged, gives equal states
  (`EvidenceTells`, `SameProjection`), so the invariant (`ChecksInvariant`) says
  what the rows hold that the last projection compared (`LastProjected`), that without
  ageing no row is old (`Unaged`) and that a projection without checks has no states
  (`NoChecksNoStates`).  The history variable `quiet` marks the one exception, a
  reconciliation that was told to expect its change (see the limits).
* **What processes share** (`Server_proofs`).  *Lock*: `LockReturned` and
  `NoUpdateLost`: connections are never shared (`Exclusive`), and a handler at work
  whose session is alive owns the lock and has read what the rows still hold
  (`OwnerWorks`).  *Process*: `ProcessShutsDownInOrder`, a shutdown that succeeded left no
  work behind and the pool ends after everything that uses it; the invariant
  (`ProcessInv`) relates the hooks that are left (`DownOK`) to what still runs
  (`WorkerOK`, `ServerOK`), for each point of the start at which a signal can come.  *Sessions*:
  `UserSessionsStand`; an attempt is consumed in the transaction that inserts its session
  (`Consumed`, `ConsumedOnce`), and a request that was told to have ended a session names
  one that has ended (`RequestOK`).  *Clients*: `ClientsCurrent`; an entry of the cache and
  a pending request carry the generation they were started in, and every invalidation
  starts a new one (`ClientsInv`).  *Jobs*: `JobsTold`; after a final status
  no attempt writes the row, unless a fault hit the one that wrote it (`JobOver`).

**Only model-checked.**  All liveness, which the prover does not cover
(`EvaluationsEnd`, `HeadsProjected`, `ChecksCatchUp`, `WorkEnds`, `ClientsServed`,
`EverythingEnds`).  What recursive definitions and folds over histories, graphs and
bodies compute (`SearchesAreExact`, `BlockIsKept`, `PlanIsSound`,
`AttributedTruly`, `PickedIsReleased`, `PagesHold`), which would need induction over data.

## Findings

Each is the counterexample of a run with `expect: violation`; `PROJECT.json` quotes
the line that states the expectation.

* `degraded_keeps_ready`: a reconciliation that fails for good degrades the
  project without moving its release state, and a ready candidate still shows
  "All current planning gates pass."
* `override_leaves_pending`: overrides that are set and reset before they are
  synchronized leave the candidate evaluating with no request.
* `older_reconciliation`: a reconciliation of access that failed sets the time of
  the installation's row back, and an older one then overwrites a suspension.
* `failed_heads_stick`: once the replacement for some heads failed for good, no
  periodic or manual reconciliation projects these heads.  The scheduler's parts of
  `liveness` pass with transient errors, so the bounds are not the reason.

### Limits that the models show

Behaviour of the code that was met while modelling it and that no line of the
repository promises otherwise.  The properties are stated so as to allow it.

*Synchronization and evaluation.*  The recovery skips a request whose job row
exists, whatever its state; of two workers that recover at once one fails on the
unique index; one project whose queueing throws ends the scheduler's scan; a crash
at the last attempt leaves a row 'processing' or 'running'.  Ageing successes do not
enter the fingerprint of the checks, so a ready release may rest on stale ones.
A permission snapshot changes without queueing an evaluation.  A claim for a stale
request hides a result that is current, and if this evaluation fails for good it stays
hidden although nothing has changed.  A reconciliation that expects its change (asked for
by a webhook about metadata or by new overrides) and puts the checks back to what the last
one projected, while a handler stored others in between, queues no evaluation of what it
put back.  A removed project stays
pending_deletion for ever, and a forced "degraded" hides "deleting" on the dashboard.

*Rows of changes.*  A released prerequisite loses its row; a new source branch
leaves old changes unknown, and unknown rows are never deleted; an answer of GitHub
that lags deletes rows with their QA and exclusions.  Commits of an update merge
make a cherry-picked pull request partially_present for ever; a rebase merge of
which half is released looks like a squash.  A QA assessment names no expected head.

*Dependencies.*  An edited webhook out of order leaves the older block imported; an
ambiguous answer to a PATCH is not rolled back; a block written before the merge is
never imported.

*GitHub.*  A handler that fails after an ambiguous commit marks its delivery failed
and applies it twice; 'added' before 'created' uses up attempts; reordered
deliveries revive a deleted installation; a local denial is never verified again; a
reconciliation that is invalidated while `#markRevoked` writes the row still caches its
denial (`Revoke`), which is harmless because the installation is deleted; a request that
waited caches the outcome without comparing the generations (`Answer`); a stale
refresh of the policy may commit after a newer one.

*Processes.*  DATABASE_POOL_MAX=1 cannot serve imports; an unlock that fails
although its session lives on, which `RepositoryLock` leaves out, would leave the lock
with a pooled connection; a fatal error's shutdown
is not forced; a second SIGTERM kills.  A job's row may keep a result beside an error.

*Users.*  Two tabs that log in at once leave the first session active; a failing
login revokes a later one; a caller joins a token request that is doomed; a removal
of the account and a login may deadlock in the database.

## Not modelled

* *HTTP API*: validation and serialization around the services; no state of its own.
* *Web application*: the forms of the settings and the cookies of browsers are in
  `ProjectConfiguration` and `UserSessions`; the rest is display and generated code.
* *Required checks*: patterns of rule sets and pages of GitHub's answers.
* *Reconciliation*: the recovery of projects whose projection has an older topology
  format; one project stands for all.
* *QA and exclusions*: notes, their history and audit rows.
* *Topology*: the processes of git and their limits.
* Migrations, configuration parsing, logging, encryption of tokens.

## Status

Done: the components above, the refinement of `ReleaseVerdict`, and the theorems of
eight modules (`CandidateEvaluation`, `RepositorySync`, `RepositoryAccess`, `GitHub`,
`Project`, `DependencyMirror`, `Server`, `RequiredChecks`).  What would come
next is what needs induction over data, by hand or with a prover that has it: the
attribution of `PullAttribution`, the searches of `DependencySearch` and the evaluation.
