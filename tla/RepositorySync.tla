---------------------------- MODULE RepositorySync ----------------------------
(***************************************************************************)
(* How the branches of a repository reach the projection of a project:     *)
(* pushes and their webhooks, incremental synchronization requests, full   *)
(* reconciliation requests with their idempotency keys, the handlers of    *)
(* both, the repository lock, the periodic scheduler and the recovery at   *)
(* the start of a worker.                                                  *)
(*                                                                         *)
(* One project on one repository.  The source and production heads move    *)
(* along one line of history and are one number: a push to a larger one is *)
(* a fast-forward, to a smaller one a rewrite.                             *)
(***************************************************************************)
EXTENDS Integers, FiniteSets

CONSTANTS Reconciliation, \* ids of reconciliation requests: 1 .. n
          Incremental,    \* ids of incremental requests: n + 1 .. m
          Worker,         \* execution slots of the worker processes
          NoWorker,       \* nobody holds the repository lock
          MaxHeads,       \* last position of the history
          Writers,        \* the events active in the instance
          Faults,         \* the kinds of fault that occur in the instance
          MaxAttempts,    \* Graphile's max_attempts
          MaxWrites,      \* bound on the events
          MaxFaults,      \* bound on the faults
          Horizon,        \* last period with events and faults
          MaxBucket       \* last period of the scheduler

VARIABLES remote,     \* heads on GitHub
          mail,       \* webhook deliveries not yet processed, by kind
          project,    \* the projects row
          validated,  \* heads an administrator's update has read, or 0
          bucket,     \* floor(now / intervalMs)
          recon,      \* repository_reconciliation_requests
          incr,       \* repository_incremental_sync_requests
          archived,   \* requests with a repository_projection_archives row
          job,        \* graphile_worker.jobs, by request
          lock,       \* holder of the repository's session lock
          exec,       \* the handler executions
          writes,     \* events so far
          faults      \* faults so far

vars == <<remote, mail, project, validated, bucket, recon, incr, archived, job,
          lock, exec, writes, faults>>

-----------------------------------------------------------------------------
Heads == 1 .. MaxHeads
Connected == {"initializing", "active", "degraded", "disconnected"}
Active == {"queued", "running"}
Terminal == {"succeeded", "superseded", "failed", "cancelled"}
Delivery == {"push", "forced", "merged", "unsuspended"}
SyncType == {"refresh_branches", "refresh_change"}
SyncRequest == Reconciliation \cup Incremental

\* Idempotency keys, by what distinguishes two keys of one kind.
Key == [kind : {"configuration", "overrides", "heads", "observed", "inconsistency",
                "periodic", "manual", "recovery"},
        configuration : Nat, of : SUBSET Nat]
KeyOf(kind, configuration, of) ==
  [kind |-> kind, configuration |-> configuration, of |-> of]
NoKey == KeyOf("configuration", 0, {})

Project == [status : Connected \cup {"pending_deletion"}, configuration : Nat,
            heads : Heads, synced : Nat]
\* What asked for a reconciliation: two requests with one key must agree on it.
Reason == {"", "project_created", "project_configuration_changed", "overrides", "heads",
           "observed", "force_push_detected", "inconsistency", "periodic", "manual", "recovery"}
Recon == [status : {"absent"} \cup Active \cup Terminal, configuration : Nat,
          heads : Heads, key : Key, reason : Reason, forced : BOOLEAN,
          next : Reconciliation \cup {0}]
Incr == [status : {"absent"} \cup Active \cup Terminal, configuration : Nat,
         type : SyncType, forced : BOOLEAN, required : BOOLEAN]
\* A lost job has no row either; the request that it carried is recovered.
NoRow == {"none", "lost"}
Job == [state : NoRow \cup {"ready", "leased", "dead"}, attempts : Nat]
Claim == [configuration : Nat, heads : Heads, previous : Heads, forced : BOOLEAN,
          required : BOOLEAN]
Step == {"down", "recover", "reconcile", "scan", "idle", "claim", "observe",
         "archive", "verify", "apply", "supersede", "commit", "finish", "fail",
         "acknowledge", "retry"}
Execution == [pc : Step, request : SyncRequest \cup {0}, claim : Claim, seen : Heads,
              recovered : SUBSET Incremental]

ASSUME IdAssumption ==
  /\ Reconciliation \subseteq Nat \ {0} /\ Incremental \subseteq Nat \ {0}
  /\ Reconciliation \cap Incremental = {}
  /\ IsFiniteSet(Reconciliation) /\ Reconciliation # {}
  /\ NoWorker \notin Worker
ASSUME BoundAssumption ==
  /\ MaxHeads \in Nat \ {0} /\ MaxAttempts \in Nat \ {0}
  /\ MaxWrites \in Nat /\ MaxFaults \in Nat /\ Horizon \in Nat /\ MaxBucket \in Nat

NoJob == [state |-> "none", attempts |-> 0]
LostJob == [state |-> "lost", attempts |-> 0]
NewJob == [state |-> "ready", attempts |-> 0]
NoClaim == [configuration |-> 0, heads |-> 1, previous |-> 1, forced |-> FALSE,
            required |-> FALSE]
IdleExec(pc) == [pc |-> pc, request |-> 0, claim |-> NoClaim, seen |-> 1,
                 recovered |-> {}]
NoRecon == [status |-> "absent", configuration |-> 0, heads |-> 1, key |-> NoKey,
            reason |-> "", forced |-> FALSE, next |-> 0]
NoIncr == [status |-> "absent", configuration |-> 0, type |-> "refresh_branches",
           forced |-> FALSE, required |-> FALSE]

Started(w) == exec[w].pc \notin {"down", "recover", "reconcile", "scan"}
Busy(w) == Started(w) /\ exec[w].pc # "idle"
Reconciles(w) == exec[w].request \in Reconciliation
Deleting == project.status = "pending_deletion"
FirstAbsent(ids, rows) ==
  CHOOSE r \in ids : rows[r].status = "absent" /\ \A s \in ids :
    rows[s].status = "absent" => r <= s

-----------------------------------------------------------------------------
(* The two queues                                                          *)

\* Mutant of QueueReconciliation: a request of another configuration stays queued.
QueueReconciliationBeside(configuration, heads, key, reason, forced, rows) ==
  LET queued == {r \in Reconciliation : rows[r].status = "queued"}
      merged == {r \in queued : rows[r].configuration = configuration}
      cleared == rows
      known == {r \in Reconciliation : rows[r].status # "absent" /\ rows[r].key = key}
      same(r) == /\ rows[r].configuration = configuration
                 /\ rows[r].heads = heads
                 /\ rows[r].reason = reason
      outcome(kind, id, after) == [kind |-> kind, id |-> id, rows |-> after]
  IN IF merged # {}
     THEN LET r == CHOOSE r \in merged : TRUE IN
          outcome("merged", r,
            [rows EXCEPT ![r].heads = heads, ![r].forced = @ \/ forced])
     ELSE IF known # {}
     THEN LET r == CHOOSE r \in known : TRUE IN
          IF same(r) THEN outcome("known", r, cleared) ELSE outcome("throws", r, rows)
     ELSE IF \A r \in Reconciliation : rows[r].status # "absent"
     THEN outcome("exhausted", 0, rows)
     ELSE LET r == FirstAbsent(Reconciliation, rows) IN
          outcome("inserted", r,
            [cleared EXCEPT ![r] =
               [status |-> "queued", configuration |-> configuration, heads |-> heads,
                key |-> key, reason |-> reason, forced |-> forced, next |-> 0]])

\* queueRepositoryInitialSync.  A queued request of the same configuration takes
\* the heads; one of another configuration is superseded.  A known key returns
\* its request, whatever became of it, or throws when the input differs.
QueueReconciliation(configuration, heads, key, reason, forced, rows) ==
  LET queued == {r \in Reconciliation : rows[r].status = "queued"}
      merged == {r \in queued : rows[r].configuration = configuration}
      cleared == [r \in Reconciliation |->
        IF r \in queued THEN [rows[r] EXCEPT !.status = "superseded"] ELSE rows[r]]
      known == {r \in Reconciliation : rows[r].status # "absent" /\ rows[r].key = key}
      same(r) == /\ rows[r].configuration = configuration
                 /\ rows[r].heads = heads
                 /\ rows[r].reason = reason
      outcome(kind, id, after) == [kind |-> kind, id |-> id, rows |-> after]
  IN IF merged # {}
     THEN LET r == CHOOSE r \in merged : TRUE IN
          outcome("merged", r,
            [rows EXCEPT ![r].heads = heads, ![r].forced = @ \/ forced])
     ELSE IF known # {}
     THEN LET r == CHOOSE r \in known : TRUE IN
          IF same(r) THEN outcome("known", r, cleared) ELSE outcome("throws", r, rows)
     ELSE IF \A r \in Reconciliation : rows[r].status # "absent"
     THEN outcome("exhausted", 0, rows)
     ELSE LET r == FirstAbsent(Reconciliation, rows) IN
          outcome("inserted", r,
            [cleared EXCEPT ![r] =
               [status |-> "queued", configuration |-> configuration, heads |-> heads,
                key |-> key, reason |-> reason, forced |-> forced, next |-> 0]])

\* The transaction of the caller commits what the queue returned.
Commits(outcome) == outcome.kind \notin {"throws", "exhausted"}
\* Mutant of Apply: the job is queued after the commit, which a crash prevents.
ApplyWithoutJob(outcome) == Commits(outcome) /\ recon' = outcome.rows /\ UNCHANGED job

Apply(outcome) ==
  /\ Commits(outcome)
  /\ recon' = outcome.rows
  /\ job' = IF outcome.kind = "inserted" THEN [job EXCEPT ![outcome.id] = NewJob] ELSE job

\* queueRepositoryReconciliationForProject: with the heads the projection has.
ForProject(kind, of) ==
  QueueReconciliation(project.configuration, project.heads,
    KeyOf(kind, project.configuration, of), kind, FALSE, recon)

\* queueRepositoryIncrementalSync: the queued request of the type takes the scope.
QueueIncremental(type, forced, required) ==
  LET queued == {i \in Incremental : incr[i].status = "queued" /\ incr[i].type = type}
      merged == {i \in queued : incr[i].configuration = project.configuration}
      i == FirstAbsent(Incremental, incr)
  IN IF merged # {}
     THEN /\ incr' = [k \in Incremental |-> IF k \in merged
               THEN [incr[k] EXCEPT !.forced = @ \/ forced, !.required = @ \/ required]
               ELSE incr[k]]
          /\ UNCHANGED job
     ELSE /\ \E k \in Incremental : incr[k].status = "absent"
          /\ incr' = [k \in Incremental |->
               IF k = i THEN [status |-> "queued", configuration |-> project.configuration,
                              type |-> type, forced |-> forced, required |-> required]
               ELSE IF k \in queued THEN [incr[k] EXCEPT !.status = "superseded"]
               ELSE incr[k]]
          /\ job' = [job EXCEPT ![i] = NewJob]

-----------------------------------------------------------------------------
(* GitHub, its webhooks and the administrators                             *)

Write(kind) ==
  kind \in Writers /\ writes < MaxWrites /\ bucket <= Horizon /\ writes' = writes + 1

Post(kind) == mail' = [mail EXCEPT ![kind] = @ + 1]

Push(heads) ==
  /\ Write(IF heads > remote THEN "push" ELSE "forcedPush")
  /\ heads # remote
  /\ remote' = heads
  /\ Post(IF heads > remote THEN "push" ELSE "forced")
  /\ UNCHANGED <<project, validated, bucket, recon, incr, archived, job, lock, exec, faults>>

\* A merged pull request moves the source branch and is announced on its own.
MergePullRequest ==
  /\ Write("merge")
  /\ remote < MaxHeads
  /\ remote' = remote + 1
  /\ mail' = [mail EXCEPT !["push"] = @ + 1, !["merged"] = @ + 1]
  /\ UNCHANGED <<project, validated, bucket, recon, incr, archived, job, lock, exec, faults>>

UnsuspendInstallation ==
  /\ Write("unsuspend")
  /\ Post("unsuspended")
  /\ UNCHANGED <<remote, project, validated, bucket, recon, incr, archived, job, lock,
                 exec, faults>>

\* The projection of one delivery, in the transaction that marks it processed.
Deliver(kind) ==
  /\ mail[kind] > 0
  /\ mail' = [mail EXCEPT ![kind] = @ - 1]
  /\ IF Deleting
     THEN UNCHANGED <<incr, job>>
     ELSE QueueIncremental(IF kind = "merged" THEN "refresh_change" ELSE "refresh_branches",
                           kind = "forced", kind = "unsuspended")
  /\ UNCHANGED <<remote, project, validated, bucket, recon, archived, lock, exec, writes,
                 faults>>

\* reconcile, by an administrator or the command line.
ReconcileManually ==
  /\ Write("manual")
  /\ ~Deleting
  /\ lock = NoWorker
  /\ Apply(ForProject("manual", {writes}))
  /\ UNCHANGED <<remote, mail, project, validated, bucket, incr, archived, lock, exec, faults>>

\* The topology of new branches is validated on GitHub before the lock is taken.
ValidateTopology ==
  /\ "configure" \in Writers
  /\ validated = 0
  /\ project.status \in {"initializing", "active", "degraded"}
  /\ writes < MaxWrites /\ bucket <= Horizon
  /\ validated' = remote
  /\ UNCHANGED <<remote, mail, project, bucket, recon, incr, archived, job, lock, exec,
                 writes, faults>>

\* Mutant of ConfigureBranches: the transaction does not take the lock.
ConfigureUnlocked ==
  /\ Write("configure")
  /\ validated # 0
  /\ project.status \in {"initializing", "active", "degraded"}
  /\ LET configuration == project.configuration + 1 IN
     /\ project' = [project EXCEPT !.status = "initializing", !.heads = validated,
                      !.configuration = configuration, !.synced = 0]
     /\ Apply(QueueReconciliation(configuration, validated,
                KeyOf("configuration", configuration, {}),
                "project_configuration_changed", FALSE, recon))
  /\ validated' = 0
  /\ UNCHANGED <<remote, mail, bucket, incr, archived, lock, exec, faults>>

ConfigureBranches ==
  /\ Write("configure")
  /\ lock = NoWorker
  /\ validated # 0
  /\ project.status \in {"initializing", "active", "degraded"}
  /\ LET configuration == project.configuration + 1 IN
     /\ project' = [project EXCEPT !.status = "initializing", !.heads = validated,
                      !.configuration = configuration, !.synced = 0]
     /\ Apply(QueueReconciliation(configuration, validated,
                KeyOf("configuration", configuration, {}),
                "project_configuration_changed", FALSE, recon))
  /\ validated' = 0
  /\ UNCHANGED <<remote, mail, bucket, incr, archived, lock, exec, faults>>

\* New overrides: the active reconciliations give way to one for the new
\* configuration, with the heads of the latest of them.  An update that was
\* validated for the old configuration meets a version conflict.
OverrideRequiredChecks ==
  LET configuration == project.configuration + 1
      active == {r \in Reconciliation : recon[r].status \in Active}
      latest == CHOOSE r \in active : \A s \in active : s <= r
      outcome == QueueReconciliation(configuration, recon[latest].heads,
        KeyOf("overrides", configuration, {}), "overrides", FALSE, recon)
  IN /\ Write("override")
     /\ lock = NoWorker
     /\ project.status \in Connected
     /\ project' = [project EXCEPT !.configuration = configuration]
     /\ validated' = 0
     /\ IF active = {}
        THEN UNCHANGED <<recon, job>>
        ELSE /\ Commits(outcome)
             /\ recon' = [r \in Reconciliation |-> IF r \in active
                  THEN [outcome.rows[r] EXCEPT !.status = "superseded",
                          !.next = IF recon[r].status = "running" THEN outcome.id ELSE @]
                  ELSE outcome.rows[r]]
             /\ job' = [job EXCEPT ![outcome.id] = NewJob]
     /\ UNCHANGED <<remote, mail, bucket, incr, archived, lock, exec, faults>>

RequestDeletion ==
  /\ Write("deletion")
  /\ lock = NoWorker
  /\ ~Deleting
  /\ project' = [project EXCEPT !.status = "pending_deletion", !.configuration = @ + 1]
  /\ recon' = [r \in Reconciliation |-> IF recon[r].status \in Active
       THEN [recon[r] EXCEPT !.status = "cancelled"] ELSE recon[r]]
  /\ UNCHANGED <<remote, mail, validated, bucket, incr, archived, job, lock, exec, faults>>

Event ==
  \/ \E heads \in Heads : Push(heads)
  \/ MergePullRequest
  \/ UnsuspendInstallation
  \/ ReconcileManually
  \/ ValidateTopology
  \/ ConfigureBranches
  \/ OverrideRequiredChecks
  \/ RequestDeletion

-----------------------------------------------------------------------------
(* The start of a worker, the scheduler, Graphile Worker                   *)

Outside == <<remote, mail, validated, bucket, writes>>
Advance(w, pc) == exec' = [exec EXCEPT ![w].pc = pc]

\* The lock is released with the handler that holds it.
Unlock(w) == lock' = IF lock = w THEN NoWorker ELSE lock

Lost(ids, rows) == {r \in ids : rows[r].status \in Active /\ job[r].state \in NoRow}

\* recoverRepositoryInitialSyncJobs: active requests without a job row get a job.
RecoverReconciliations(w) ==
  /\ exec[w].pc = "down"
  /\ Advance(w, "recover")
  /\ job' = [r \in SyncRequest |-> IF r \in Lost(Reconciliation, recon) THEN NewJob ELSE job[r]]
  /\ UNCHANGED <<Outside, project, recon, incr, archived, lock, faults>>

\* recoverRepositoryIncrementalSyncJobs.  Of the lost requests of one type the
\* queued one goes on, or else the first running one, with the scope of all.
Runnable(type) ==
  LET lost == {i \in Lost(Incremental, incr) : incr[i].type = type}
      queued == {i \in Incremental : incr[i].status = "queued" /\ incr[i].type = type}
  IN IF \A i \in lost : incr[i].status = "queued" THEN lost
     ELSE IF queued # {} THEN queued
     ELSE {i \in lost : \A k \in lost : i <= k}

RecoverIncrementals(w) ==
  LET lost == Lost(Incremental, incr)
      runnable == UNION {Runnable(type) : type \in SyncType}
      scopes(i) == {i} \cup {k \in lost : incr[k].type = incr[i].type}
  IN /\ exec[w].pc = "recover"
     /\ exec' = [exec EXCEPT ![w].pc = "reconcile", ![w].recovered = lost \cup runnable]
     /\ incr' = [i \in Incremental |->
          IF i \in runnable
          THEN [incr[i] EXCEPT !.status = "queued",
                  !.forced = \E k \in scopes(i) : incr[k].forced,
                  !.required = \E k \in scopes(i) : incr[k].required]
          ELSE IF i \in lost THEN [incr[i] EXCEPT !.status = "superseded"]
          ELSE incr[i]]
     /\ job' = [r \in SyncRequest |-> IF r \in lost \cap runnable THEN NewJob ELSE job[r]]
     /\ UNCHANGED <<Outside, project, recon, archived, lock, faults>>

\* queueRecoveryReconciliations; a key that is met with other input ends the start.
ReconcileRecovered(w) ==
  LET outcome == ForProject("recovery", exec[w].recovered) IN
  /\ exec[w].pc = "reconcile"
  /\ IF exec[w].recovered = {} \/ Deleting
     THEN exec' = [exec EXCEPT ![w].pc = "scan", ![w].recovered = {}]
          /\ UNCHANGED <<recon, job>>
     ELSE /\ lock = NoWorker
          /\ IF outcome.kind = "throws"
             THEN exec' = [exec EXCEPT ![w] = IdleExec("down")] /\ UNCHANGED <<recon, job>>
             ELSE exec' = [exec EXCEPT ![w].pc = "scan", ![w].recovered = {}]
                  /\ Apply(outcome)
  /\ UNCHANGED <<Outside, project, incr, archived, lock, faults>>

\* queueDueRepositoryReconciliations selects the project.
Due ==
  /\ ~Deleting
  /\ project.synced < bucket
  /\ \A r \in Reconciliation : recon[r].status \notin Active

Periodic == ForProject("periodic", {bucket})

\* The scan at the start, and the scans of a running worker, which log an error.
Scan(w) ==
  /\ \/ exec[w].pc = "scan"
     \/ Started(w) /\ Due /\ Periodic.kind # "throws"
  /\ IF ~Due
     THEN Advance(w, "idle") /\ UNCHANGED <<recon, job>>
     ELSE /\ lock = NoWorker
          /\ IF Periodic.kind = "throws"
             THEN exec' = [exec EXCEPT ![w] = IdleExec("down")] /\ UNCHANGED <<recon, job>>
             ELSE /\ Apply(Periodic)
                  /\ exec' = [exec EXCEPT ![w].pc = IF @ = "scan" THEN "idle" ELSE @]
  /\ UNCHANGED <<Outside, project, incr, archived, lock, faults>>

\* A period lasts longer than a handler: past the horizon none runs across its end.
Tick ==
  /\ bucket < MaxBucket
  /\ bucket > Horizon => \A w \in Worker : ~Busy(w)
  /\ bucket' = bucket + 1
  /\ UNCHANGED <<remote, mail, project, validated, recon, incr, archived, job, lock,
                 exec, writes, faults>>

Take(w, r) ==
  /\ exec[w].pc = "idle"
  /\ job[r].state = "ready"
  /\ job' = [job EXCEPT ![r] = [state |-> "leased", attempts |-> @.attempts + 1]]
  /\ exec' = [exec EXCEPT ![w].pc = "claim", ![w].request = r]
  /\ UNCHANGED <<Outside, project, recon, incr, archived, lock, faults>>

Release(r) ==
  job' = [job EXCEPT ![r].state =
            IF job[r].attempts >= MaxAttempts THEN "dead" ELSE "ready"]

Acknowledge(w) ==
  /\ exec[w].pc = "acknowledge"
  /\ job' = [job EXCEPT ![exec[w].request] = NoJob]
  /\ exec' = [exec EXCEPT ![w] = IdleExec("idle")]
  /\ Unlock(w)
  /\ UNCHANGED <<Outside, project, recon, incr, archived, faults>>

Retry(w) ==
  /\ exec[w].pc = "retry"
  /\ Release(exec[w].request)
  /\ exec' = [exec EXCEPT ![w] = IdleExec("idle")]
  /\ Unlock(w)
  /\ UNCHANGED <<Outside, project, recon, incr, archived, faults>>

Fault(kind) ==
  kind \in Faults /\ faults < MaxFaults /\ bucket <= Horizon /\ faults' = faults + 1

\* The session of a dead worker ends, and its lock with it.
Crash(w) ==
  /\ exec[w].pc # "down"
  /\ Fault("crash")
  /\ exec' = [exec EXCEPT ![w] = IdleExec("down")]
  /\ Unlock(w)
  /\ UNCHANGED <<Outside, project, recon, incr, archived, job>>

Unattended(r) == \A w \in Worker : exec[w].request # r

LeaseExpires(r) ==
  /\ job[r].state = "leased"
  /\ Unattended(r)
  /\ Release(r)
  /\ UNCHANGED <<Outside, project, recon, incr, archived, lock, exec, faults>>

\* The job row disappears while its request is active: what recovery is for.
LoseJob(r) ==
  /\ job[r].state \notin NoRow
  /\ Unattended(r)
  /\ Fault("jobLoss")
  /\ job' = [job EXCEPT ![r] = LostJob]
  /\ UNCHANGED <<Outside, project, recon, incr, archived, lock, exec>>

\* A delivery that never arrives or whose processing fails for good.
LoseDelivery(kind) ==
  /\ mail[kind] > 0
  /\ Fault("delivery")
  /\ mail' = [mail EXCEPT ![kind] = @ - 1]
  /\ UNCHANGED <<remote, validated, bucket, writes, project, recon, incr, archived, job,
                 lock, exec>>

LastAttempt(w) == job[exec[w].request].attempts >= MaxAttempts

\* An error inside the handler's try: the job is retried while it has attempts.
Throw(w, kind) == Advance(w, IF kind = "permanent" \/ LastAttempt(w) THEN "fail" ELSE "retry")

Fail(w, kind) ==
  /\ exec[w].pc \in {"observe", "archive", "verify", "apply", "supersede", "commit", "finish"}
  /\ Fault(kind)
  /\ Throw(w, kind)
  /\ UNCHANGED <<Outside, project, recon, incr, archived, job, lock>>

\* Five seconds pass without the lock, or an error outside the try.
RawFail(w) ==
  /\ exec[w].pc \in {"claim", "fail"}
  /\ Fault("transient")
  /\ Advance(w, "retry")
  /\ UNCHANGED <<Outside, project, recon, incr, archived, job, lock>>

-----------------------------------------------------------------------------
(* The reconciliation handler: initial-sync.ts                             *)

Current(w) == project.configuration = exec[w].claim.configuration /\ ~Deleting

\* claimSynchronization: the lock is kept until the handler ends.
ClaimReconciliation(w) ==
  LET r == exec[w].request IN
  /\ exec[w].pc = "claim" /\ Reconciles(w)
  /\ \/ /\ recon[r].status \in Terminal
        /\ Advance(w, "acknowledge")
        /\ UNCHANGED <<recon, lock>>
     \/ /\ recon[r].status \in Active
        /\ lock = NoWorker
        /\ recon[r].configuration # project.configuration \/ Deleting
        /\ recon' = [recon EXCEPT ![r].status = "superseded"]
        /\ Advance(w, "acknowledge")
        /\ UNCHANGED lock
     \/ /\ recon[r].status \in Active
        /\ lock = NoWorker
        /\ recon[r].configuration = project.configuration /\ ~Deleting
        /\ recon' = [recon EXCEPT ![r].status = "running"]
        /\ lock' = w
        /\ exec' = [exec EXCEPT ![w].pc = "observe", ![w].claim =
             [configuration |-> recon[r].configuration, heads |-> recon[r].heads,
              previous |-> project.heads, forced |-> recon[r].forced, required |-> FALSE]]
  /\ UNCHANGED <<Outside, project, incr, archived, job, faults>>

\* Mutant of Destructive: only a rewrite that a webhook reported counts.
DestructiveReported(w) == exec[w].claim.forced

Destructive(w) == exec[w].claim.forced \/ exec[w].claim.heads < exec[w].claim.previous

ObserveReconciliation(w) ==
  /\ exec[w].pc = "observe" /\ Reconciles(w)
  /\ exec' = [exec EXCEPT ![w].seen = remote, ![w].pc =
       IF remote # exec[w].claim.heads THEN "supersede"
       ELSE IF Destructive(w) THEN "archive" ELSE "verify"]
  /\ UNCHANGED <<Outside, project, recon, incr, archived, job, lock, faults>>

\* A rewritten history is archived before the snapshot is loaded.
Archive(w) ==
  /\ exec[w].pc = "archive"
  /\ archived' = archived \cup {exec[w].request}
  /\ project' = IF Current(w) /\ project.status \in Connected
       THEN [project EXCEPT !.status = "degraded"] ELSE project
  /\ Advance(w, "verify")
  /\ UNCHANGED <<Outside, recon, incr, job, lock, faults>>

\* The snapshot is built; the heads must still be those it was built for.
Verify(w) ==
  /\ exec[w].pc = "verify"
  /\ exec' = [exec EXCEPT ![w].seen = remote,
       ![w].pc = IF remote # exec[w].claim.heads THEN "supersede" ELSE "apply"]
  /\ UNCHANGED <<Outside, project, recon, incr, archived, job, lock, faults>>

\* applyRepositoryProjectionInTransaction, and the end of the request.  Changes
\* that became unknown leave the project degraded.
ApplySnapshot(w, unknown) ==
  LET r == exec[w].request IN
  /\ exec[w].pc = "apply"
  /\ IF recon[r].status = "running" /\ Current(w)
     THEN /\ project' = [project EXCEPT
               !.status = IF Destructive(w) \/ unknown THEN "degraded" ELSE "active",
               !.heads = exec[w].claim.heads, !.synced = bucket]
          /\ recon' = [recon EXCEPT ![r].status = "succeeded", ![r].heads = exec[w].claim.heads]
     ELSE /\ recon' = [recon EXCEPT ![r].status = IF @ \in Active THEN "superseded" ELSE @]
          /\ UNCHANGED project
  /\ Advance(w, "acknowledge")
  /\ Unlock(w)
  /\ UNCHANGED <<Outside, incr, archived, job, faults>>

Replacement(w) ==
  QueueReconciliation(exec[w].claim.configuration, exec[w].seen,
    KeyOf("heads", exec[w].claim.configuration, {exec[w].seen}), "heads",
    exec[w].claim.forced, recon)

\* supersedeSynchronization: a request for the heads that GitHub has now.
Supersede(w) ==
  LET r == exec[w].request IN
  /\ exec[w].pc = "supersede"
  /\ IF recon[r].status \in Active /\ Current(w) /\ Replacement(w).kind = "throws"
     THEN Throw(w, "transient") /\ UNCHANGED <<recon, job, lock>>
     ELSE /\ Advance(w, "acknowledge")
          /\ Unlock(w)
          /\ IF recon[r].status \in Active /\ Current(w)
             THEN /\ Commits(Replacement(w))
                  /\ recon' = [Replacement(w).rows EXCEPT
                              ![r] = [@ EXCEPT !.status = "superseded", !.next = Replacement(w).id]]
                  /\ job' = IF Replacement(w).kind = "inserted"
                            THEN [job EXCEPT ![Replacement(w).id] = NewJob] ELSE job
             ELSE /\ recon' = [recon EXCEPT
                       ![r].status = IF @ \in Active THEN "superseded" ELSE @]
                  /\ UNCHANGED job
  /\ UNCHANGED <<Outside, project, incr, archived, faults>>

\* markSynchronizationFailed
MarkReconciliationFailed(w, status) ==
  LET r == exec[w].request IN
  /\ exec[w].pc = "fail" /\ Reconciles(w)
  /\ IF recon[r].status \in Terminal
     THEN UNCHANGED <<recon, project>>
     ELSE /\ recon' = [recon EXCEPT ![r].status = "failed"]
          /\ project' = IF Current(w) THEN [project EXCEPT !.status = status] ELSE project
  /\ Advance(w, "acknowledge")
  /\ Unlock(w)
  /\ UNCHANGED <<Outside, incr, archived, job, faults>>

-----------------------------------------------------------------------------
(* The incremental handler: incremental-sync.ts                            *)

\* claimIncrementalSynchronization: the lock is held for this transaction only.
ClaimIncremental(w) ==
  LET i == exec[w].request IN
  /\ exec[w].pc = "claim" /\ ~Reconciles(w)
  /\ \/ /\ incr[i].status \in Terminal
        /\ Advance(w, "acknowledge")
        /\ UNCHANGED incr
     \/ /\ incr[i].status \in Active
        /\ lock = NoWorker
        /\ incr[i].configuration # project.configuration \/ Deleting
        /\ incr' = [incr EXCEPT ![i].status = "superseded"]
        /\ Advance(w, "acknowledge")
     \/ /\ incr[i].status \in Active
        /\ lock = NoWorker
        /\ incr[i].configuration = project.configuration /\ ~Deleting
        /\ incr' = [incr EXCEPT ![i].status = "running"]
        /\ exec' = [exec EXCEPT ![w].pc = "observe", ![w].claim =
             [NoClaim EXCEPT !.configuration = incr[i].configuration,
                !.forced = incr[i].forced, !.required = incr[i].required]]
  /\ UNCHANGED <<Outside, project, recon, archived, job, lock, faults>>

\* The heads are read without the lock.
ObserveIncremental(w) ==
  /\ exec[w].pc = "observe" /\ ~Reconciles(w)
  /\ exec' = [exec EXCEPT ![w].pc = "commit", ![w].seen = remote]
  /\ UNCHANGED <<Outside, project, recon, incr, archived, job, lock, faults>>

NeedsReconciliation(w) ==
  \/ incr[exec[w].request].type = "refresh_change"
  \/ exec[w].seen # project.heads
  \/ exec[w].claim.forced
  \/ exec[w].claim.required

Observed(w) ==
  QueueReconciliation(exec[w].claim.configuration, exec[w].seen,
    KeyOf("observed", exec[w].claim.configuration, {exec[w].request}),
    IF exec[w].claim.forced THEN "force_push_detected" ELSE "observed",
    exec[w].claim.forced, recon)

\* commitObservedRepositoryState
CommitObserved(w) ==
  /\ exec[w].pc = "commit"
  /\ lock = NoWorker
  /\ IF ~Current(w)
     THEN Advance(w, "finish") /\ UNCHANGED <<project, recon, job>>
     ELSE IF NeedsReconciliation(w) /\ Observed(w).kind = "throws"
     THEN Throw(w, "transient") /\ UNCHANGED <<project, recon, job>>
     ELSE /\ project' = IF exec[w].claim.forced
               THEN [project EXCEPT !.status = "degraded"] ELSE project
          /\ IF NeedsReconciliation(w) THEN Apply(Observed(w)) ELSE UNCHANGED <<recon, job>>
          /\ Advance(w, "finish")
  /\ UNCHANGED <<Outside, incr, archived, lock, faults>>

\* markIncrementalSynchronizationSucceeded, a transaction of its own.
Finish(w) ==
  LET i == exec[w].request IN
  /\ exec[w].pc = "finish"
  /\ lock = NoWorker
  /\ incr' = [incr EXCEPT ![i].status =
       IF @ # "running" THEN @ ELSE IF Current(w) THEN "succeeded" ELSE "superseded"]
  /\ Advance(w, "acknowledge")
  /\ UNCHANGED <<Outside, project, recon, archived, job, lock, faults>>

Inconsistency(w) ==
  QueueReconciliation(exec[w].claim.configuration, project.heads,
    KeyOf("inconsistency", exec[w].claim.configuration, {exec[w].request}), "inconsistency",
    FALSE, recon)

\* markIncrementalSynchronizationFailed: the project is degraded and reconciled,
\* or disconnected.
MarkIncrementalFailed(w, status) ==
  LET i == exec[w].request
      requeue == Current(w) /\ status = "degraded"
  IN /\ exec[w].pc = "fail" /\ ~Reconciles(w)
     /\ lock = NoWorker
     /\ IF requeue /\ Inconsistency(w).kind = "throws"
        THEN Advance(w, "retry") /\ UNCHANGED <<incr, project, recon, job>>
        ELSE /\ incr' = [incr EXCEPT ![i].status = IF @ \in Active THEN "failed" ELSE @]
             /\ project' = IF Current(w) THEN [project EXCEPT !.status = status] ELSE project
             /\ IF requeue THEN Apply(Inconsistency(w)) ELSE UNCHANGED <<recon, job>>
             /\ Advance(w, "acknowledge")
     /\ UNCHANGED <<Outside, archived, lock, faults>>

-----------------------------------------------------------------------------
\* A project was just configured: its reconciliation is queued with it.
Init ==
  /\ remote = 1
  /\ mail = [kind \in Delivery |-> 0]
  /\ project = [status |-> "initializing", configuration |-> 1, heads |-> 1, synced |-> 0]
  /\ validated = 0
  /\ bucket = 1
  /\ LET r == CHOOSE r \in Reconciliation : \A s \in Reconciliation : r <= s IN
     /\ recon = [[s \in Reconciliation |-> NoRecon] EXCEPT ![r] =
          [status |-> "queued", configuration |-> 1, heads |-> 1,
           key |-> KeyOf("configuration", 1, {}), reason |-> "project_created",
           forced |-> FALSE, next |-> 0]]
     /\ job = [[s \in SyncRequest |-> NoJob] EXCEPT ![r] = NewJob]
  /\ incr = [i \in Incremental |-> NoIncr]
  /\ archived = {}
  /\ lock = NoWorker
  /\ exec = [w \in Worker |-> IdleExec("down")]
  /\ writes = 0
  /\ faults = 0

Handle(w) ==
  \/ ClaimReconciliation(w)
  \/ ObserveReconciliation(w)
  \/ Archive(w)
  \/ Verify(w)
  \/ \E unknown \in BOOLEAN : ApplySnapshot(w, unknown)
  \/ Supersede(w)
  \/ \E status \in {"degraded", "disconnected"} : MarkReconciliationFailed(w, status)
  \/ ClaimIncremental(w)
  \/ ObserveIncremental(w)
  \/ CommitObserved(w)
  \/ Finish(w)
  \/ \E status \in {"degraded", "disconnected"} : MarkIncrementalFailed(w, status)

Progress(w) ==
  \/ RecoverReconciliations(w)
  \/ RecoverIncrementals(w)
  \/ ReconcileRecovered(w)
  \/ \E r \in SyncRequest : Take(w, r)
  \/ Handle(w)
  \/ Acknowledge(w)
  \/ Retry(w)

Trouble(w) ==
  \/ \E kind \in {"transient", "permanent"} : Fail(w, kind)
  \/ RawFail(w)
  \/ Crash(w)

Next ==
  \/ Event
  \/ Tick
  \/ \E kind \in Delivery : Deliver(kind) \/ LoseDelivery(kind)
  \/ \E w \in Worker : Progress(w) \/ Scan(w) \/ Trouble(w)
  \/ \E r \in SyncRequest : LeaseExpires(r) \/ LoseJob(r)

Spec == Init /\ [][Next]_vars

\* Slots run, deliveries that are not lost arrive, time passes, the scheduler
\* scans; nothing obliges anyone to push or a fault to happen.
Fairness ==
  /\ \A w \in Worker : WF_vars(Progress(w)) /\ WF_vars(Scan(w))
  /\ \A r \in SyncRequest : WF_vars(LeaseExpires(r))
  /\ \A kind \in Delivery : WF_vars(Deliver(kind))
  /\ WF_vars(Tick)

FairSpec == Spec /\ Fairness

-----------------------------------------------------------------------------
(* Properties                                                              *)

\* Every table and every handler execution has values of its columns' types.
TypeOK ==
  /\ remote \in Heads /\ mail \in [Delivery -> Nat]
  /\ project \in Project /\ validated \in Heads \cup {0} /\ bucket \in Nat
  /\ recon \in [Reconciliation -> Recon] /\ incr \in [Incremental -> Incr]
  /\ archived \subseteq Reconciliation
  /\ job \in [SyncRequest -> Job] /\ lock \in Worker \cup {NoWorker}
  /\ exec \in [Worker -> Execution]
  /\ writes \in Nat /\ faults \in Nat

\* At most one request waits, however claims, supersessions, new configurations
\* and recoveries are interleaved: the queues merge into "the" queued request.
OneQueued ==
  /\ \A r, s \in Reconciliation :
       recon[r].status = "queued" /\ recon[s].status = "queued" => r = s
  /\ \A i, k \in Incremental :
       incr[i].status = "queued" /\ incr[k].status = "queued" /\ incr[i].type = incr[k].type
         => i = k

\* Every request that has not ended is carried by a job, unless that job was lost and no
\* worker has recovered it: whatever crashes, no other request waits for a recovery.
Carried ==
  /\ \A r \in Reconciliation : recon[r].status \in Active => job[r].state # "none"
  /\ \A i \in Incremental : incr[i].status \in Active => job[i].state # "none"

\* Every table has its types, and a job carries every request that it must.
RequestsCarried == TypeOK /\ Carried

Holding == {"observe", "archive", "verify", "apply", "supersede"}

\* What a reconciliation claimed stays true while it asks GitHub and git: the
\* configuration, the heads that are projected and its own request.
ClaimHolds ==
  \A w \in Worker : Reconciles(w) /\ exec[w].pc \in Holding =>
    /\ lock = w
    /\ Current(w)
    /\ project.heads = exec[w].claim.previous
    /\ recon[exec[w].request].status = "running"

\* A request that ended stays what it is.
TerminalStays ==
  [][/\ \A r \in Reconciliation :
          recon[r].status \in Terminal => recon'[r].status = recon[r].status
     /\ \A i \in Incremental :
          incr[i].status \in Terminal => incr'[i].status = incr[i].status]_vars

\* The heads of a projection go back only after that projection was archived by
\* the reconciliation that replaces it, or when branches are configured anew.
RewritesArchived ==
  [][project'.heads < project.heads /\ project'.configuration = project.configuration =>
       \E r \in archived : recon[r].status = "running" /\ recon'[r].status = "succeeded"]_vars

\* A request that ended stays what it is, and the heads of a projection only go back after
\* that projection was archived.
HistoryStands == TerminalStays /\ RewritesArchived

\* Every request ends, provided faults do not use up the attempts of its job: as the
\* events are bounded and what ended stays so, in the end no request is active.
RequestsFinish ==
  <>[](/\ \A r \in Reconciliation : recon[r].status \notin Active
       /\ \A i \in Incremental : incr[i].status \notin Active)

\* In the end the projection has the heads that GitHub has.
HeadsProjected == <>[](Deleting \/ project.heads = remote)
=============================================================================
