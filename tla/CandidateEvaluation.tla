------------------------ MODULE CandidateEvaluation ------------------------
(***************************************************************************)
(* The evaluation of a project's release candidate: the coordinates of the *)
(* project and its candidate, the durable queue of evaluation requests,    *)
(* the Graphile Worker jobs that carry them, the worker handler that       *)
(* claims, evaluates and publishes, and every writer of the repository     *)
(* that moves the coordinates or the inputs of an evaluation.              *)
(*                                                                         *)
(* One project is modelled: nothing in the protocol relates two projects.  *)
(* Every database transaction runs under the repository's advisory lock at *)
(* serializable isolation, so a transaction is one action; the steps of a  *)
(* handler between two transactions are separate actions.                  *)
(*                                                                         *)
(* projection_version, source_sha and production_sha are assigned only by  *)
(* statements that also add one to release_state_version, so comparing     *)
(* "state" compares them too and they have no field of their own.          *)
(***************************************************************************)
EXTENDS Integers

CONSTANTS Request,       \* identifiers for evaluation requests (randomUUID)
          Worker,        \* execution slots of the worker processes
          Policy,        \* contents of a required-check policy
          NoEvaluation,  \* latest_evaluation_version is null
          NoRequest,     \* an idle slot has no request
          Writers,       \* the kinds of writer active in the instance
          Faults,        \* the kinds of fault that occur in the instance
          MaxAttempts,   \* Graphile's max_attempts
          MaxChanges,    \* bound on the writers' transactions
          MaxFaults      \* bound on the faults

VARIABLES project,    \* the projects row
          candidate,  \* the open release_candidates row
          policy,     \* policy contents: stored, of the last run, effective
          inputs,     \* what an evaluation reads beside the projects row
          request,    \* release_candidate_evaluation_requests
          job,        \* graphile_worker.jobs, by request
          exec,       \* the handler executions
          checkSync,  \* configuration of the queued policy refresh, or 0
          changes,    \* writers' transactions so far
          faults      \* faults so far

vars == <<project, candidate, policy, inputs, request, job, exec, checkSync,
          changes, faults>>

-----------------------------------------------------------------------------
Deleting == {"pending_deletion"}
Connected == {"initializing", "active", "degraded", "disconnected"}
Active == {"queued", "running"}
Terminal == {"succeeded", "superseded", "failed"}

Coordinate == [state : Nat, configuration : Nat, policy : Nat, version : Nat]
Result == {"ready", "blocked"}
Seen == [status : Connected \cup Deleting, permission : BOOLEAN,
         planning : BOOLEAN, checks : BOOLEAN]

Project == [status : Connected \cup Deleting, synced : BOOLEAN, state : Nat,
            configuration : Nat, policy : Nat]
Candidate == [open : BOOLEAN, version : Nat, status : {"evaluating"} \cup Result,
              latest : Coordinate \cup {NoEvaluation}]
Row == [status : {"absent"} \cup Active \cup Terminal, coord : Coordinate]
Job == [state : {"none", "ready", "leased", "dead"}, attempts : Nat]
Step == {"down", "idle", "claim", "snapshot", "publish", "discard", "record",
         "acknowledge", "retry"}
Execution == [pc : Step, request : Request \cup {NoRequest}, claim : Coordinate,
              seen : Seen, terminal : BOOLEAN]

ASSUME NullAssumption == NoEvaluation \notin Coordinate /\ NoRequest \notin Request
ASSUME BoundAssumption ==
  MaxAttempts \in Nat \ {0} /\ MaxChanges \in Nat /\ MaxFaults \in Nat

ZeroCoordinate == [state |-> 0, configuration |-> 0, policy |-> 0, version |-> 0]
NothingSeen == [status |-> "initializing", permission |-> FALSE,
                planning |-> FALSE, checks |-> FALSE]

\* The coordinates of the current state, which a request and an evaluation copy.
Coordinates(p, c) ==
  [state |-> p.state, configuration |-> p.configuration,
   policy |-> p.policy, version |-> c.version]

NoJob == [state |-> "none", attempts |-> 0]
NewJob == [state |-> "ready", attempts |-> 0]
IdleExec(pc) == [pc |-> pc, request |-> NoRequest,
                 claim |-> ZeroCoordinate, seen |-> NothingSeen, terminal |-> FALSE]

Busy(w) == exec[w].pc \notin {"down", "idle"}

-----------------------------------------------------------------------------
(* The queue: candidate-evaluation-queue.ts                                *)

\* The open candidate, or a new one once the project has been projected.
EnsureCandidate(p, c) ==
  IF c.open \/ ~p.synced \/ p.status \in Deleting
  THEN c
  ELSE [open |-> TRUE, version |-> 1, status |-> "evaluating",
        latest |-> NoEvaluation]

\* Mutant of Enqueue: the request is inserted, its job is not.
EnqueueWithoutJob(coord, rs) ==
  IF \E r \in Request : rs[r].status = "queued"
  THEN /\ request' = [r \in Request |->
            IF rs[r].status = "queued" THEN [rs[r] EXCEPT !.coord = coord] ELSE rs[r]]
       /\ UNCHANGED job
  ELSE LET r == CHOOSE r \in Request : rs[r].status = "absent" IN
       /\ \E s \in Request : rs[s].status = "absent"
       /\ request' = [rs EXCEPT ![r] = [status |-> "queued", coord |-> coord]]
       /\ UNCHANGED job

\* The queued request takes the current coordinates; without one a request and
\* its job are inserted.  rs is the request table the transaction has so far.
Enqueue(coord, rs) ==
  IF \E r \in Request : rs[r].status = "queued"
  THEN /\ request' = [r \in Request |->
            IF rs[r].status = "queued" THEN [rs[r] EXCEPT !.coord = coord] ELSE rs[r]]
       /\ UNCHANGED job
  ELSE LET r == CHOOSE r \in Request : rs[r].status = "absent" IN
       /\ \E s \in Request : rs[s].status = "absent"
       /\ request' = [rs EXCEPT ![r] = [status |-> "queued", coord |-> coord]]
       /\ job' = [job EXCEPT ![r] = NewJob]

\* Mutant of QueueActive: the candidate keeps showing its result.
QueueActiveUnmarked(p, c, clear, defer, rs) ==
  LET opened == EnsureCandidate(p, c)
  IN IF ~opened.open
     THEN candidate' = c /\ request' = rs /\ UNCHANGED job
     ELSE /\ candidate' = opened
          /\ IF defer \/ ~p.synced
             THEN request' = rs /\ UNCHANGED job
             ELSE Enqueue(Coordinates(p, opened), rs)

\* Every change of release state comes here: the candidate is evaluating again,
\* and a request is queued unless the evaluation is deferred or must wait for the
\* first synchronization.
QueueActive(p, c, clear, defer, rs) ==
  LET opened == EnsureCandidate(p, c)
      marked == [opened EXCEPT !.status = "evaluating",
                               !.latest = IF clear THEN NoEvaluation ELSE @]
  IN IF ~opened.open
     THEN candidate' = c /\ request' = rs /\ UNCHANGED job
     ELSE /\ candidate' = marked
          /\ IF defer \/ ~p.synced
             THEN request' = rs /\ UNCHANGED job
             ELSE Enqueue(Coordinates(p, marked), rs)

\* touchProjectReleaseState: p is the row the writer has written.
Touch(p, c, clear, defer) ==
  /\ project' = [p EXCEPT !.state = @ + 1]
  /\ QueueActive(project', c, clear, defer, request)

-----------------------------------------------------------------------------
(* The writers.  Each is one transaction under the repository lock.        *)

Write(kind) == kind \in Writers /\ changes < MaxChanges /\ changes' = changes + 1
SetInputs(planning, checks) ==
  inputs' = [inputs EXCEPT !.planning = planning, !.checks = checks]

\* A reconciliation commits its snapshot.  reprojected is projectionChanged,
\* drift stands for recoverable_drift, next for the classification's status.
\* The checks of an unchanged projection move only with the policy.
ApplyProjection(next, reprojected, drift, planning, checks) ==
  /\ Write("projection")
  /\ project.status \notin Deleting
  /\ reprojected \/ (project.synced /\ policy.ran = policy.effective)
  /\ ~reprojected => planning = inputs.planning
  /\ (~reprojected /\ policy.stored = policy.effective) => checks = inputs.checks
  /\ SetInputs(planning, checks)
  /\ policy' = [policy EXCEPT !.stored = policy.effective, !.ran = policy.effective]
  /\ LET repoliced == project.policy = 0 \/ policy.stored # policy.effective
         row == [project EXCEPT !.status = next, !.synced = TRUE,
                   !.policy = IF repoliced THEN @ + 1 ELSE @]
     IN IF reprojected \/ project.status # next \/ drift
        THEN Touch(row, candidate, FALSE, FALSE)
        ELSE project' = row /\ UNCHANGED <<candidate, request, job>>
  /\ UNCHANGED <<exec, checkSync, faults>>

\* A rewritten branch: the projection is archived, QA is reset, the project is
\* degraded, before the new snapshot is even loaded.
ArchiveProjection(planning) ==
  /\ Write("archive")
  /\ project.status \notin Deleting
  /\ SetInputs(planning, inputs.checks)
  /\ Touch([project EXCEPT !.status = "degraded"], candidate, FALSE, FALSE)
  /\ UNCHANGED <<policy, exec, checkSync, faults>>

\* A reconciliation fails for good: the status changes, the version does not.
MarkSynchronizationFailed(next) ==
  /\ Write("syncFailure")
  /\ project.status \in Connected
  /\ project' = [project EXCEPT !.status = next]
  /\ UNCHANGED <<candidate, policy, inputs, request, job, exec, checkSync, faults>>

\* An incremental synchronization observes a force push.
ObserveForcedPush ==
  /\ Write("incremental")
  /\ project.status \notin Deleting
  /\ Touch([project EXCEPT !.status = "degraded"], candidate, FALSE, FALSE)
  /\ UNCHANGED <<policy, inputs, exec, checkSync, faults>>

\* An incremental synchronization fails for good.
MarkIncrementalFailed(next) ==
  /\ Write("incremental")
  /\ project.status \in Connected
  /\ Touch([project EXCEPT !.status = next], candidate, FALSE, FALSE)
  /\ UNCHANGED <<policy, inputs, exec, checkSync, faults>>

\* New branches, with their own rules: the projection is invalid until the next
\* reconciliation.
ConfigureBranches(planning, effective) ==
  /\ Write("configure")
  /\ project.status \in {"initializing", "active", "degraded"}
  /\ SetInputs(planning, inputs.checks)
  /\ policy' = [policy EXCEPT !.effective = effective]
  /\ Touch([project EXCEPT !.status = "initializing", !.synced = FALSE,
                           !.configuration = @ + 1], candidate, TRUE, FALSE)
  /\ UNCHANGED <<exec, checkSync, faults>>

\* New required-check overrides: the evaluation waits for the synchronization
\* of the required checks that the same transaction queues.
OverrideRequiredChecks(effective) ==
  /\ Write("override")
  /\ project.status \in Connected
  /\ effective # policy.effective
  /\ policy' = [policy EXCEPT !.effective = effective]
  /\ checkSync' = project.configuration + 1
  /\ Touch([project EXCEPT !.configuration = @ + 1], candidate, FALSE, TRUE)
  /\ UNCHANGED <<inputs, exec, faults>>

RequestDeletion ==
  /\ Write("deletion")
  /\ project.status \notin Deleting
  /\ project' = [project EXCEPT !.status = "pending_deletion", !.configuration = @ + 1]
  /\ UNCHANGED <<candidate, policy, inputs, request, job, exec, checkSync, faults>>

\* The branch rules change on GitHub, where nothing of Shipgate's is written.
RulesChange(effective) ==
  /\ Write("rules")
  /\ effective # policy.effective
  /\ policy' = [policy EXCEPT !.effective = effective]
  /\ UNCHANGED <<project, candidate, inputs, request, job, exec, checkSync, faults>>

\* Required checks are refreshed; the touch depends on the fingerprint of the
\* policy version, its checks and the states of the changes.
ProjectRequiredChecks(effective, checks) ==
  /\ SetInputs(inputs.planning, checks)
  /\ policy' = [policy EXCEPT !.stored = effective]
  /\ LET repoliced == project.policy = 0 \/ policy.stored # effective
         row == [project EXCEPT !.policy = IF repoliced THEN @ + 1 ELSE @]
     IN IF repoliced \/ checks # inputs.checks
        THEN Touch(row, candidate, FALSE, FALSE)
        ELSE UNCHANGED <<project, candidate, request, job>>

\* The synchronization that new overrides queued; it is for one configuration.
RefreshPolicy(checks) ==
  /\ checkSync # 0
  /\ checkSync' = 0
  /\ IF project.status \in Deleting \/ project.configuration # checkSync
     THEN UNCHANGED <<project, candidate, policy, inputs, request, job>>
     ELSE ProjectRequiredChecks(policy.effective, checks)
  /\ UNCHANGED <<exec, changes, faults>>

\* A webhook's refresh of rules or of the results on one commit.
RefreshChecks(rules, checks) ==
  /\ Write("checks")
  /\ project.status \notin Deleting
  /\ ProjectRequiredChecks(IF rules THEN policy.effective ELSE policy.stored, checks)
  /\ UNCHANGED <<exec, checkSync, faults>>

RecordQa(planning) ==
  /\ Write("qa")
  /\ project.status = "active"
  /\ SetInputs(planning, inputs.checks)
  /\ Touch(project, candidate, FALSE, FALSE)
  /\ UNCHANGED <<policy, exec, checkSync, faults>>

PersistDependencies(planning) ==
  /\ Write("dependencies")
  /\ project.status = "active"
  /\ SetInputs(planning, inputs.checks)
  /\ Touch(project, candidate, FALSE, FALSE)
  /\ UNCHANGED <<policy, exec, checkSync, faults>>

\* Mutant of ChangeExclusion: the candidate moves on, the release state does not.
ChangeExclusionUntouched(planning) ==
  LET c == EnsureCandidate(project, candidate) IN
  /\ Write("exclusion")
  /\ project.status = "active"
  /\ c.open
  /\ SetInputs(planning, inputs.checks)
  /\ QueueActive(project, [c EXCEPT !.version = @ + 1], TRUE, FALSE, request)
  /\ UNCHANGED <<project, policy, exec, checkSync, faults>>

\* exclude and restore: the candidate itself gets a new version.
ChangeExclusion(planning) ==
  LET c == EnsureCandidate(project, candidate) IN
  /\ Write("exclusion")
  /\ project.status = "active"
  /\ c.open
  /\ SetInputs(planning, inputs.checks)
  /\ Touch(project, [c EXCEPT !.version = @ + 1, !.latest = NoEvaluation,
                              !.status = "evaluating"], TRUE, FALSE)
  /\ UNCHANGED <<policy, exec, checkSync, faults>>

\* installation.suspend and installation.unsuspend deliveries.
SetPermission(granted) ==
  /\ Write("installation")
  /\ inputs' = [inputs EXCEPT !.permission = granted]
  /\ UNCHANGED <<project, candidate, policy, request, job, exec, checkSync, faults>>

Writer ==
  \/ \E next \in {"active", "degraded"}, reprojected, drift, planning, checks \in BOOLEAN :
       ApplyProjection(next, reprojected, drift, planning, checks)
  \/ \E planning \in BOOLEAN : ArchiveProjection(planning)
  \/ \E next \in {"degraded", "disconnected"} : MarkSynchronizationFailed(next)
  \/ ObserveForcedPush
  \/ \E next \in {"degraded", "disconnected"} : MarkIncrementalFailed(next)
  \/ \E planning \in BOOLEAN, effective \in Policy : ConfigureBranches(planning, effective)
  \/ \E effective \in Policy : OverrideRequiredChecks(effective)
  \/ RequestDeletion
  \/ \E effective \in Policy : RulesChange(effective)
  \/ \E rules, checks \in BOOLEAN : RefreshChecks(rules, checks)
  \/ \E planning \in BOOLEAN : RecordQa(planning)
  \/ \E planning \in BOOLEAN : PersistDependencies(planning)
  \/ \E planning \in BOOLEAN : ChangeExclusion(planning)
  \/ \E granted \in BOOLEAN : SetPermission(granted)

-----------------------------------------------------------------------------
(* The handler: candidate-evaluation-worker.ts                             *)

Reserved == <<project, policy, inputs, checkSync, changes>>

\* Startup: requests that lost their job get one again.  A request whose job
\* row exists is skipped, whatever the state of the row.
Recover ==
  LET c == EnsureCandidate(project, candidate)
      active == {r \in Request : request[r].status \in Active}
      orphans == {r \in active : job[r].state = "none"}
      stray == {r \in orphans : request[r].status = "running"}
      queued == \E r \in active : request[r].status = "queued"
  IN IF ~project.synced \/ project.status \in Deleting \/ ~c.open
     THEN UNCHANGED <<candidate, request, job>>
     ELSE IF active = {} /\ c.status = "evaluating"
     THEN QueueActive(project, c, FALSE, FALSE, request)
     ELSE \* the unique index on queued requests aborts a second one
          /\ queued \/ \A r, s \in stray : r = s
          /\ candidate' = c
          /\ request' = [r \in Request |->
               IF r \in stray
               THEN [request[r] EXCEPT !.status = IF queued THEN "superseded" ELSE "queued"]
               ELSE request[r]]
          /\ job' = [r \in Request |->
               IF r \in orphans /\ ~(queued /\ r \in stray) THEN NewJob ELSE job[r]]

Start(w) ==
  /\ exec[w].pc = "down"
  /\ Recover
  /\ exec' = [exec EXCEPT ![w] = IdleExec("idle")]
  /\ UNCHANGED <<Reserved, faults>>

\* Graphile hands a ready job to a slot and counts the attempt.
Take(w, r) ==
  /\ exec[w].pc = "idle"
  /\ job[r].state = "ready"
  /\ job' = [job EXCEPT ![r] = [state |-> "leased", attempts |-> @.attempts + 1]]
  /\ exec' = [exec EXCEPT ![w].pc = "claim", ![w].request = r]
  /\ UNCHANGED <<Reserved, candidate, request, faults>>

Advance(w, pc) == exec' = [exec EXCEPT ![w].pc = pc]

\* Mutant of Claim: a request that already ended is claimed again.
ClaimEnded(w) ==
  LET r == exec[w].request IN
  /\ exec[w].pc = "claim"
  /\ request' = [request EXCEPT ![r].status = "running"]
  /\ exec' = [exec EXCEPT ![w].pc = "snapshot", ![w].claim = request[r].coord]
  /\ UNCHANGED <<Reserved, candidate, job, faults>>

\* claimCandidateEvaluation: a terminal request is ignored, a stale one is
\* superseded by a request for the current coordinates, a current one runs.
Claim(w) ==
  LET r == exec[w].request IN
  /\ exec[w].pc = "claim"
  /\ \/ /\ request[r].status \in Terminal
        /\ Advance(w, "acknowledge")
        /\ UNCHANGED <<candidate, request, job>>
     \/ /\ request[r].status \in Active
        /\ request[r].coord # Coordinates(project, candidate)
        /\ Advance(w, "acknowledge")
        /\ LET rs == [request EXCEPT ![r].status = "superseded"] IN
           IF project.status \in Deleting
           THEN request' = rs /\ UNCHANGED <<candidate, job>>
           ELSE QueueActive(project, candidate, FALSE, FALSE, rs)
     \/ /\ request[r].status \in Active
        /\ request[r].coord = Coordinates(project, candidate)
        /\ request' = [request EXCEPT ![r].status = "running"]
        /\ exec' = [exec EXCEPT ![w].pc = "snapshot", ![w].claim = request[r].coord]
        /\ UNCHANGED <<candidate, job>>
  /\ UNCHANGED <<Reserved, faults>>

\* loadCandidateEvaluationSnapshot: a repeatable read without the lock.
Snapshot(w) ==
  /\ exec[w].pc = "snapshot"
  /\ IF Coordinates(project, candidate) # exec[w].claim
     THEN Advance(w, "discard")
     ELSE exec' = [exec EXCEPT ![w].pc = "publish",
            ![w].seen = [status |-> project.status, permission |-> inputs.permission,
                         planning |-> inputs.planning, checks |-> inputs.checks]]
  /\ UNCHANGED <<Reserved, candidate, request, job, faults>>

\* evaluateRelease: ready exactly when no gate has a blocker.
Evaluate(seen) ==
  IF seen.status = "active" /\ seen.permission /\ seen.planning /\ seen.checks
  THEN "ready" ELSE "blocked"

\* Mutant of Covered: a candidate that is marked as evaluating needs no request.
CoveredByMark(r) ==
  \/ candidate.latest = Coordinates(project, candidate) \/ candidate.status = "evaluating"
  \/ \E s \in Request \ {r} :
       request[s].status \in Active /\ request[s].coord = Coordinates(project, candidate)

\* hasCurrentEvaluationOrRequest, for another request than r.
Covered(r) ==
  \/ candidate.latest = Coordinates(project, candidate)
  \/ \E s \in Request \ {r} :
       request[s].status \in Active /\ request[s].coord = Coordinates(project, candidate)

\* discardCandidateEvaluation
Drop(w) ==
  LET r == exec[w].request
      rs == IF request[r].status \in Active
            THEN [request EXCEPT ![r].status = "superseded"] ELSE request
  IN /\ Advance(w, "acknowledge")
     /\ IF project.status \in Deleting \/ ~project.synced \/ Covered(r)
        THEN request' = rs /\ UNCHANGED <<candidate, job>>
        ELSE QueueActive(project, candidate, FALSE, FALSE, rs)

Discard(w) ==
  /\ exec[w].pc = "discard"
  /\ Drop(w)
  /\ UNCHANGED <<Reserved, faults>>

\* Mutant of Current: the result is published for whatever state there is.
CurrentUnclaimed(w) == request[exec[w].request].status = "running"

\* publishCandidateEvaluation: the result counts only for the claimed state.
Current(w) ==
  LET r == exec[w].request IN
  /\ request[r].status = "running"
  /\ exec[w].claim = Coordinates(project, candidate)
  /\ request[r].coord = Coordinates(project, candidate)

Publish(w) ==
  LET r == exec[w].request IN
  /\ exec[w].pc = "publish"
  /\ IF Current(w)
     THEN /\ candidate' = [candidate EXCEPT !.status = Evaluate(exec[w].seen),
                                        !.latest = Coordinates(project, candidate)]
          /\ request' = [request EXCEPT ![r].status = "succeeded"]
          /\ Advance(w, "acknowledge")
          /\ UNCHANGED job
     ELSE Drop(w)
  /\ UNCHANGED <<Reserved, faults>>

Fault(kind) == kind \in Faults /\ faults < MaxFaults /\ faults' = faults + 1

\* An error inside the handler's try: terminal when it is not retryable or the
\* job's attempts are used up.
Fail(w, kind) ==
  /\ exec[w].pc \in {"snapshot", "publish"}
  /\ Fault(kind)
  /\ exec' = [exec EXCEPT ![w].pc = "record",
       ![w].terminal = kind = "permanent" \/ job[exec[w].request].attempts >= MaxAttempts]
  /\ UNCHANGED <<Reserved, candidate, request, job>>

\* recordCandidateEvaluationFailure, then a permanent or a retryable job error.
RecordFailure(w) ==
  LET r == exec[w].request IN
  /\ exec[w].pc = "record"
  /\ request' = IF request[r].status \in Active
       THEN [request EXCEPT ![r].status = IF exec[w].terminal THEN "failed" ELSE "running"]
       ELSE request
  /\ Advance(w, IF exec[w].terminal THEN "acknowledge" ELSE "retry")
  /\ UNCHANGED <<Reserved, candidate, job, faults>>

\* An error outside the try, or of a discard the try returns without awaiting.
RawFail(w) ==
  /\ exec[w].pc \in {"claim", "discard", "record"}
  /\ Fault("transient")
  /\ Advance(w, "retry")
  /\ UNCHANGED <<Reserved, candidate, request, job>>

-----------------------------------------------------------------------------
(* Graphile Worker, as the code in src/ relies on it                       *)

\* A job that is no longer leased runs again while it has attempts left.
Release(r) ==
  job' = [job EXCEPT ![r].state =
            IF job[r].attempts >= MaxAttempts THEN "dead" ELSE "ready"]

Acknowledge(w) ==
  /\ exec[w].pc = "acknowledge"
  /\ job' = [job EXCEPT ![exec[w].request] = NoJob]
  /\ exec' = [exec EXCEPT ![w] = IdleExec("idle")]
  /\ UNCHANGED <<Reserved, candidate, request, faults>>

Retry(w) ==
  /\ exec[w].pc = "retry"
  /\ Release(exec[w].request)
  /\ exec' = [exec EXCEPT ![w] = IdleExec("idle")]
  /\ UNCHANGED <<Reserved, candidate, request, faults>>

Crash(w) ==
  /\ exec[w].pc # "down"
  /\ Fault("crash")
  /\ exec' = [exec EXCEPT ![w] = IdleExec("down")]
  /\ UNCHANGED <<Reserved, candidate, request, job>>

Unattended(r) == \A w \in Worker : ~(Busy(w) /\ exec[w].request = r)

\* The lock of a crashed worker's job expires.
LeaseExpires(r) ==
  /\ job[r].state = "leased"
  /\ Unattended(r)
  /\ Release(r)
  /\ UNCHANGED <<Reserved, candidate, request, exec, faults>>

\* The job row disappears while its request is still active: the case the
\* recovery is written for.
LoseJob(r) ==
  /\ job[r].state # "none"
  /\ Unattended(r)
  /\ Fault("jobLoss")
  /\ job' = [job EXCEPT ![r] = NoJob]
  /\ UNCHANGED <<Reserved, candidate, request, exec>>

-----------------------------------------------------------------------------
Init ==
  /\ project = [status |-> "initializing", synced |-> FALSE, state |-> 0,
                configuration |-> 1, policy |-> 0]
  /\ candidate = [open |-> FALSE, version |-> 0, status |-> "evaluating",
                  latest |-> NoEvaluation]
  /\ \E content \in Policy :
       policy = [stored |-> content, ran |-> content, effective |-> content]
  /\ inputs = [permission |-> TRUE, planning |-> FALSE, checks |-> FALSE]
  /\ request = [r \in Request |-> [status |-> "absent", coord |-> ZeroCoordinate]]
  /\ job = [r \in Request |-> NoJob]
  /\ exec = [w \in Worker |-> IdleExec("down")]
  /\ checkSync = 0
  /\ changes = 0
  /\ faults = 0

Refresh == \E checks \in BOOLEAN : RefreshPolicy(checks)

Progress(w) ==
  \/ Start(w)
  \/ \E r \in Request : Take(w, r)
  \/ Claim(w)
  \/ Snapshot(w)
  \/ Discard(w)
  \/ Publish(w)
  \/ RecordFailure(w)
  \/ Acknowledge(w)
  \/ Retry(w)

Trouble(w) ==
  \/ \E kind \in {"transient", "permanent"} : Fail(w, kind)
  \/ RawFail(w)
  \/ Crash(w)

\* The queued policy refresh fails for good (a GitHub error it does not retry).
RefreshFails ==
  /\ checkSync # 0
  /\ Fault("permanent")
  /\ checkSync' = 0
  /\ UNCHANGED <<project, candidate, policy, inputs, request, job, exec, changes>>

Next ==
  \/ Writer
  \/ Refresh
  \/ RefreshFails
  \/ \E w \in Worker : Progress(w) \/ Trouble(w)
  \/ \E r \in Request : LeaseExpires(r) \/ LoseJob(r)

Spec == Init /\ [][Next]_vars

\* Worker slots run, the queued synchronization runs, locks expire; nothing
\* obliges a writer to write or a fault to happen.
Fairness ==
  /\ \A w \in Worker : WF_vars(Progress(w))
  /\ \A r \in Request : WF_vars(LeaseExpires(r))
  /\ WF_vars(Refresh)

FairSpec == Spec /\ Fairness

-----------------------------------------------------------------------------
(* Properties                                                              *)

\* Every table and every handler execution has values of its columns' types.
TypeOK ==
  /\ project \in Project /\ candidate \in Candidate
  /\ policy \in [stored : Policy, ran : Policy, effective : Policy]
  /\ inputs \in [permission : BOOLEAN, planning : BOOLEAN, checks : BOOLEAN]
  /\ request \in [Request -> Row] /\ job \in [Request -> Job]
  /\ exec \in [Worker -> Execution]
  /\ checkSync \in Nat /\ changes \in Nat /\ faults \in Nat

Settled == candidate.open /\ candidate.status # "evaluating"

\* A candidate that shows a result shows the result of an evaluation of the
\* release state, of the candidate version and, until deletion is requested, of
\* the configuration that are current: no race of workers and writers leaves an
\* older result standing.
FreshVerdict ==
  Settled =>
    /\ candidate.latest # NoEvaluation
    /\ candidate.latest.state = project.state
    /\ candidate.latest.version = candidate.version
    /\ project.status \notin Deleting =>
         candidate.latest.configuration = project.configuration

\* A ready candidate's planning inputs (QA, dependencies, exclusions, attribution)
\* pass the gates now, although they were read without the lock, long before the
\* result was published.
ReadyMeansPlanned == Settled /\ candidate.status = "ready" => inputs.planning

\* The planning inputs that a result about to be published was computed from are
\* the current ones, unless the release state has moved past the claim: whoever
\* changes such an input moves the state in the same transaction.
SeenInputsHold ==
  \A w \in Worker : exec[w].pc = "publish" =>
    /\ exec[w].claim.state <= project.state
    /\ exec[w].claim.state = project.state => exec[w].seen.planning = inputs.planning

\* A synchronized project has an open candidate, and versions start at an opening.
CandidateOpen ==
  /\ project.synced /\ project.status \notin Deleting => candidate.open
  /\ ~candidate.open => candidate.version = 0

\* The inductive invariant.
Inv == TypeOK /\ FreshVerdict /\ ReadyMeansPlanned /\ SeenInputsHold /\ CandidateOpen

\* "Release ready: all current planning gates pass": of a candidate shown as ready
\* the project is active, the installation permits, the required checks pass.
ReadyMeansAllGates ==
  Settled /\ candidate.status = "ready" /\ project.status \notin Deleting =>
    project.status = "active" /\ inputs.permission /\ inputs.checks

HasActive == \E r \in Request : request[r].status \in Active

\* While the candidate waits for the evaluation of a state that has none yet, its
\* last active request goes away only by failing for good: claim, publish, discard
\* and recovery, which all supersede requests, leave a request for the state they
\* saw.  (A result of the current state can be hidden, though: the claim of a stale
\* request marks the candidate as evaluating without looking for one.)
EvaluationNotDropped ==
  [][ /\ HasActive /\ ~HasActive'
      /\ candidate'.status = "evaluating"
      /\ candidate'.latest # Coordinates(project', candidate')
      /\ project'.synced /\ project'.status \notin Deleting
      => \E r \in Request : request[r].status # "failed" /\ request'[r].status = "failed"
    ]_vars

\* A request that succeeded, failed or was superseded stays what it is, whatever
\* a late worker, a late failure or the recovery does.
TerminalStays ==
  [][\A r \in Request : request[r].status \in Terminal => request'[r].status = request[r].status
    ]_vars

\* Every request ends, provided faults do not use up the attempts of its job.
RequestsFinish == <>[]~HasActive

\* "The previous published result remains visible until the newer state wins":
\* once nothing changes any more, the pending evaluation of a synchronized
\* project is published.
NewerStateWins ==
  <>[](candidate.open /\ project.synced /\ project.status \notin Deleting =>
         candidate.status # "evaluating")

\* The protocol implements ReleaseVerdict: only the verdict for the current
\* release state is ever shown, and any move of the state takes it back.
Verdict == INSTANCE ReleaseVerdict WITH
  world <- <<project.state, candidate.version>>,
  verdict <- IF ~candidate.open THEN <<>>
             ELSE IF candidate.status = "evaluating" THEN <<"pending">>
             ELSE <<candidate.latest.state, candidate.latest.version>>

ImplementsVerdict == Verdict!Spec
=============================================================================
