---------------------------- MODULE WebhookDelivery ----------------------------
(***************************************************************************)
(* One GitHub installation's deliveries: the events GitHub sends, the      *)
(* ingress that stores a delivery with its job, the job executor with its  *)
(* shadow row, and the handler that applies the event to the rows of the   *)
(* installation.  The rows of deliveries and jobs share the delivery's     *)
(* number, the order in which GitHub sent the events.                      *)
(***************************************************************************)
EXTENDS Naturals, Sequences, FiniteSets

CONSTANTS MaxDelivery, \* bound on the events GitHub sends
          MaxAttempts, \* retry.maxAttempts of github_webhook_process
          Concurrency, \* slots of the worker
          MaxFaults,   \* bound on lost deliveries, errors, crashes and expiries
          Kind,        \* kinds of events that happen, of AllKinds
          Faults       \* the faults that happen, of AllFaults

AllKinds == {"created", "suspend", "unsuspend", "deleted", "new_permissions_accepted",
             "added", "removed", "future_action", "malformed"}
AllFaults == {"lost", "redelivered", "error", "crash", "late"}

VARIABLES github,  \* the installation at GitHub
          sent,    \* the events GitHub sent
          net,     \* copies of deliveries under way
          row,     \* github_webhook_deliveries
          job,     \* Graphile Worker's jobs
          exec,    \* shipgate_job_execution
          handler, \* the handlers of the worker
          inst,    \* github_installations and its repositories
          applied, \* history: the deliveries whose events were applied, in order
          faults

vars == <<github, sent, net, row, job, exec, handler, inst, applied, faults>>
-----------------------------------------------------------------------------
Delivery == 1 .. MaxDelivery
Absent == [state |-> "absent", attempt |-> 0, payload |-> FALSE]
NoJob == [state |-> "absent", attempts |-> 0]
Idle == [pc |-> "idle", error |-> "none"]

GitHubState == [life : {"absent", "active", "suspended", "deleted"}, repo : BOOLEAN]
Event == [kind : AllKinds \cup {"none"}, after : GitHubState]

\* An event carries the installation as GitHub knows it after the event.
Suspended(d) == sent[d].after.life = "suspended"

Fault(f) == f \in Faults /\ faults < MaxFaults /\ faults' = faults + 1
HandlerTo(d, pc) == handler' = [handler EXCEPT ![d].pc = pc]
Throws(d, pc, error) == handler' = [handler EXCEPT ![d] = [pc |-> pc, error |-> error]]
-----------------------------------------------------------------------------
(* GitHub *)

\* What an event makes of installation g at GitHub; deleted is final, a new
\* installation has another id.
Effects(kind, g) ==
  IF kind = "created" /\ g.life = "absent"
  THEN {[life |-> "active", repo |-> r] : r \in BOOLEAN}
  ELSE CASE kind = "suspend" /\ g.life = "active" -> {[g EXCEPT !.life = "suspended"]}
         [] kind = "unsuspend" /\ g.life = "suspended" -> {[g EXCEPT !.life = "active"]}
         [] kind = "deleted" /\ g.life \in {"active", "suspended"} ->
              {[life |-> "deleted", repo |-> FALSE]}
         [] kind = "added" /\ g.life = "active" /\ ~g.repo -> {[g EXCEPT !.repo = TRUE]}
         [] kind = "removed" /\ g.life = "active" /\ g.repo -> {[g EXCEPT !.repo = FALSE]}
         [] kind \in {"new_permissions_accepted", "future_action", "malformed"}
              /\ g.life = "active" -> {g}
         [] OTHER -> {}

GitHubSends(d) ==
  \E kind \in Kind, after \in GitHubState :
    /\ sent[d].kind = "none" /\ \A e \in 1 .. d - 1 : sent[e].kind # "none"
    /\ after \in Effects(kind, github)
    /\ github' = after
    /\ sent' = [sent EXCEPT ![d] = [kind |-> kind, after |-> after]]
    /\ net' = [net EXCEPT ![d] = 1]
    /\ UNCHANGED <<row, job, exec, handler, inst, applied, faults>>

\* GitHub does not retry a delivery by itself; its owner can redeliver it.
Lose(d) ==
  /\ net[d] > 0 /\ Fault("lost")
  /\ net' = [net EXCEPT ![d] = @ - 1]
  /\ UNCHANGED <<github, sent, row, job, exec, handler, inst, applied>>

Redeliver(d) ==
  /\ sent[d].kind # "none" /\ net[d] = 0 /\ Fault("redelivered")
  /\ net' = [net EXCEPT ![d] = 1]
  /\ UNCHANGED <<github, sent, row, job, exec, handler, inst, applied>>
-----------------------------------------------------------------------------
(* Ingress *)

\* The action is in the list of its event's actions.
ActionSupported(d) == sent[d].kind # "future_action"

\* enqueueJobInTransaction: the job and its shadow row.
Enqueue(d) ==
  /\ job' = [job EXCEPT ![d] = [state |-> "ready", attempts |-> 0]]
  /\ exec' = [exec EXCEPT ![d] = "queued"]

\* One transaction; a delivery id that is known already changes nothing.
Known(d) == row[d].state # "absent"

Accept(d) ==
  /\ net[d] > 0
  /\ net' = [net EXCEPT ![d] = @ - 1]
  /\ IF Known(d) THEN UNCHANGED <<row, job, exec>>
     ELSE IF ActionSupported(d)
     THEN /\ row' = [row EXCEPT ![d] = [state |-> "queued", attempt |-> 0, payload |-> TRUE]]
          /\ Enqueue(d)
     ELSE /\ row' = [row EXCEPT ![d] = [state |-> "ignored", attempt |-> 0, payload |-> TRUE]]
          /\ UNCHANGED <<job, exec>>
  /\ UNCHANGED <<github, sent, handler, inst, applied, faults>>
-----------------------------------------------------------------------------
(* Graphile Worker *)

Busy == {d \in Delivery : handler[d].pc # "idle"}

Take(d) ==
  /\ job[d].state = "ready" /\ job[d].attempts < MaxAttempts
  /\ Cardinality(Busy) < Concurrency
  /\ job' = [job EXCEPT ![d] = [state |-> "locked", attempts |-> @.attempts + 1]]
  /\ HandlerTo(d, "start")
  /\ UNCHANGED <<github, sent, net, row, exec, inst, applied, faults>>

\* The job ends, or waits for its next attempt.
Complete(d) ==
  /\ job' = [job EXCEPT ![d].state = "done"]
  /\ handler' = [handler EXCEPT ![d] = Idle]
FailJob(d) ==
  /\ job' = [job EXCEPT ![d].state = "ready"]
  /\ handler' = [handler EXCEPT ![d] = Idle]

\* The worker dies; its jobs stay locked until Graphile Worker takes them back.
Crash ==
  /\ Busy # {} /\ Fault("crash")
  /\ handler' = [d \in Delivery |-> Idle]
  /\ UNCHANGED <<github, sent, net, row, job, exec, inst, applied>>

LockExpires(d) ==
  /\ job[d].state = "locked" /\ handler[d].pc = "idle"
  /\ job' = [job EXCEPT ![d].state = "ready"]
  /\ UNCHANGED <<github, sent, net, row, exec, handler, inst, applied, faults>>
-----------------------------------------------------------------------------
(* executeJobAttempt *)

MarkJobStarted(d) ==
  /\ handler[d].pc = "start"
  /\ \/ /\ exec' = [exec EXCEPT ![d] = "running"]
        /\ HandlerTo(d, "load")
        /\ UNCHANGED <<job, faults>>
     \/ Fault("error") /\ FailJob(d) /\ UNCHANGED exec
  /\ UNCHANGED <<github, sent, net, row, inst, applied>>

\* Also the end of a skipped delivery; an error here counts as the handler's.
MarkJobSucceeded(d) ==
  /\ handler[d].pc = "succeed"
  /\ \/ /\ exec' = [exec EXCEPT ![d] = "succeeded"]
        /\ Complete(d)
        /\ UNCHANGED faults
     \/ Fault("error") /\ Throws(d, "fail", "retryable") /\ UNCHANGED <<exec, job>>
  /\ UNCHANGED <<github, sent, net, row, inst, applied>>

\* A permanent error completes the job; another is thrown on to Graphile Worker.
FailedStatus(d) ==
  IF handler[d].error = "permanent" \/ job[d].attempts >= MaxAttempts
  THEN "failed" ELSE "retrying"

MarkJobFailed(d) ==
  /\ handler[d].pc = "fail"
  /\ \/ /\ exec' = [exec EXCEPT ![d] = FailedStatus(d)]
        /\ IF handler[d].error = "permanent" THEN Complete(d) ELSE FailJob(d)
        /\ UNCHANGED faults
     \/ Fault("error") /\ FailJob(d) /\ UNCHANGED exec
  /\ UNCHANGED <<github, sent, net, row, inst, applied>>
-----------------------------------------------------------------------------
(* processGitHubWebhookDelivery *)

\* Mutant of Claimable: a delivery that succeeded is claimed by a later attempt.
ClaimableAgain(d) == row[d].state # "ignored" /\ row[d].attempt < job[d].attempts
\* A delivery is claimed unless it has ended or this attempt has claimed it.
Claimable(d) ==
  /\ row[d].state \notin {"succeeded", "ignored"}
  /\ row[d].attempt < job[d].attempts

Claimed(d) == [row[d] EXCEPT !.state = "processing", !.attempt = job[d].attempts]

LoadDelivery(d) ==
  /\ handler[d].pc = "load"
  /\ \/ /\ Claimable(d)
        /\ row' = [row EXCEPT ![d] = Claimed(d)]
        /\ IF row[d].payload THEN HandlerTo(d, "apply")
           ELSE Throws(d, "failed", "permanent")
        /\ UNCHANGED faults
     \/ ~Claimable(d) /\ HandlerTo(d, "succeed") /\ UNCHANGED <<row, faults>>
     \/ Fault("error") /\ Throws(d, "failed", "retryable") /\ UNCHANGED row
  /\ UNCHANGED <<github, sent, net, job, exec, inst, applied>>

\* Mutant of UpsertInstallation: an existing row keeps its lifecycle.
UpsertInstallationKeeping(d, perm) ==
  [inst EXCEPT !.life = IF @ # "absent" THEN @ ELSE IF Suspended(d) THEN "suspended" ELSE "active",
               !.perm = IF Suspended(d) THEN "suspended" ELSE perm]

\* The row of the installation, whatever it held before.
UpsertInstallation(d, perm) ==
  [inst EXCEPT !.life = IF Suspended(d) THEN "suspended" ELSE "active",
               !.perm = IF Suspended(d) THEN "suspended" ELSE perm]

\* The rows after the event, and whether the transaction can commit: a
\* repository's row references its installation's.
Applied(d) ==
  CASE sent[d].kind = "created" ->
         [UpsertInstallation(d, "current") EXCEPT !.repo = @ \/ sent[d].after.repo]
    [] sent[d].kind = "suspend" ->
         [UpsertInstallation(d, "current") EXCEPT !.life = "suspended", !.perm = "suspended"]
    [] sent[d].kind = "unsuspend" -> UpsertInstallation(d, "stale")
    [] sent[d].kind = "deleted" ->
         [UpsertInstallation(d, "current") EXCEPT !.life = "pending_deletion",
                                                  !.perm = "revoked", !.repo = FALSE]
    [] sent[d].kind = "new_permissions_accepted" -> UpsertInstallation(d, "current")
    [] sent[d].kind = "added" -> [inst EXCEPT !.repo = TRUE]
    [] sent[d].kind = "removed" -> [inst EXCEPT !.repo = FALSE]
    [] OTHER -> inst

Commits(d) == sent[d].kind = "added" => inst.life # "absent"

\* The event and the end of the delivery are one transaction.
ApplyDelivery(d) ==
  /\ handler[d].pc = "apply"
  /\ \/ /\ sent[d].kind # "malformed" /\ Commits(d)
        /\ inst' = Applied(d)
        /\ applied' = Append(applied, d)
        /\ row' = [row EXCEPT ![d].state = "succeeded"]
        /\ HandlerTo(d, "purge")
        /\ UNCHANGED faults
     \/ /\ sent[d].kind = "malformed"
        /\ Throws(d, "failed", "permanent")
        /\ UNCHANGED <<inst, applied, row, faults>>
     \/ /\ sent[d].kind # "malformed"
        /\ IF Commits(d) THEN Fault("error") ELSE UNCHANGED faults
        /\ Throws(d, "failed", "retryable")
        /\ UNCHANGED <<inst, applied, row>>
  /\ UNCHANGED <<github, sent, net, job, exec>>

\* The catch: it marks the delivery and throws on; an error here replaces the first.
MarkDeliveryFailed(d) ==
  /\ handler[d].pc = "failed"
  /\ \/ row' = [row EXCEPT ![d].state = "failed"] /\ HandlerTo(d, "fail") /\ UNCHANGED faults
     \/ Fault("error") /\ Throws(d, "fail", "retryable") /\ UNCHANGED row
  /\ UNCHANGED <<github, sent, net, job, exec, inst, applied>>

\* Expired payloads are purged after the transaction, outside its catch.
PurgeAfter(d) ==
  /\ handler[d].pc = "purge"
  /\ \/ HandlerTo(d, "succeed") /\ UNCHANGED faults
     \/ Fault("error") /\ Throws(d, "fail", "retryable")
  /\ UNCHANGED <<github, sent, net, row, job, exec, inst, applied>>

\* The retention of a payload ends before its delivery is processed.
RetentionCleanup(d) ==
  /\ row[d].payload /\ Fault("late")
  /\ row' = [row EXCEPT ![d].payload = FALSE]
  /\ UNCHANGED <<github, sent, net, job, exec, handler, inst, applied>>
-----------------------------------------------------------------------------
\* A new App, or one whose installation is known.
Init ==
  /\ github \in [life : {"absent", "active", "suspended"}, repo : BOOLEAN]
  /\ github.life = "absent" => ~github.repo
  /\ sent = [d \in Delivery |-> [kind |-> "none", after |-> github]]
  /\ net = [d \in Delivery |-> 0]
  /\ row = [d \in Delivery |-> Absent]
  /\ job = [d \in Delivery |-> NoJob]
  /\ exec = [d \in Delivery |-> "absent"]
  /\ handler = [d \in Delivery |-> Idle]
  /\ inst = [life |-> github.life, repo |-> github.repo,
             perm |-> IF github.life = "suspended" THEN "suspended" ELSE "current"]
  /\ applied = <<>>
  /\ faults = 0

Handles(d) ==
  \/ MarkJobStarted(d) \/ LoadDelivery(d) \/ ApplyDelivery(d) \/ MarkDeliveryFailed(d)
  \/ PurgeAfter(d) \/ MarkJobSucceeded(d) \/ MarkJobFailed(d)

Next ==
  \/ \E d \in Delivery :
       \/ GitHubSends(d) \/ Lose(d) \/ Redeliver(d) \/ Accept(d) \/ Take(d) \/ Handles(d)
       \/ LockExpires(d) \/ RetentionCleanup(d)
  \/ Crash

\* The server answers requests, and the worker goes on with its jobs.
Fairness ==
  \A d \in Delivery : WF_vars(Accept(d)) /\ SF_vars(Take(d)) /\ WF_vars(Handles(d))
                      /\ WF_vars(LockExpires(d))

Spec == Init /\ [][Next]_vars /\ Fairness
-----------------------------------------------------------------------------
(* Properties *)

\* Every row and handler keeps its type.
TypeOK ==
  /\ github \in GitHubState
  /\ sent \in [Delivery -> Event]
  /\ net \in [Delivery -> {0, 1}]
  /\ row \in [Delivery -> [state : {"absent", "queued", "processing", "succeeded", "failed",
                                    "ignored"},
                           attempt : 0 .. MaxAttempts, payload : BOOLEAN]]
  /\ job \in [Delivery -> [state : {"absent", "ready", "locked", "done"},
                           attempts : 0 .. MaxAttempts]]
  /\ exec \in [Delivery -> {"absent", "queued", "running", "retrying", "succeeded", "failed"}]
  /\ handler \in [Delivery -> [pc : {"idle", "start", "load", "apply", "failed", "purge",
                                     "succeed", "fail"},
                               error : {"none", "retryable", "permanent"}]]
  /\ inst \in [life : {"absent", "active", "suspended", "pending_deletion"},
               perm : {"current", "stale", "suspended", "revoked"}, repo : BOOLEAN]
  /\ applied \in Seq(Delivery)
  /\ faults \in 0 .. MaxFaults

\* An event is applied once, however often it is delivered or retried, unless two
\* faults meet: one after it was applied, for which the queue retries it, and one in
\* the retry's claim, whose catch marks the delivery as failed whatever its state
\* was; the next attempt then claims it again.
AppliedOnce == \A i, j \in DOMAIN applied : applied[i] = applied[j] => i = j \/ faults > 1

Applies(d) == \E i \in DOMAIN applied : applied[i] = d

\* What the job's status says of an event: a success is an applied event, a retry
\* is never announced when no attempt is left, and a failure without a fault is a
\* failed delivery.
StatusHonest ==
  \A d \in Delivery :
    /\ exec[d] = "succeeded" => Applies(d) /\ row[d].state = "succeeded"
    /\ exec[d] = "retrying" /\ handler[d].pc = "idle" /\ job[d].attempts = MaxAttempts =>
         faults > 0
    /\ exec[d] = "failed" => row[d].state = "failed" \/ faults > 0

Quiet == \A d \in Delivery : sent[d].kind # "none" => row[d].state \in {"succeeded", "ignored"}
InOrder == \A i, j \in DOMAIN applied : i < j => applied[i] < applied[j]

\* When every event was applied in the order GitHub sent them, the rows say what
\* GitHub does.
RowsFollowGitHub ==
  Quiet /\ InOrder /\ github.life # "absent" =>
    /\ inst.life = IF github.life = "deleted" THEN "pending_deletion" ELSE github.life
    /\ inst.repo = github.repo
    /\ inst.perm = "suspended" <=> github.life = "suspended"
=============================================================================
