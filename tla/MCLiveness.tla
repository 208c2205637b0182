------------------------------- MODULE MCLiveness -------------------------------
(***************************************************************************)
(* What happens in the end, for TLC, in nine parts: the evaluation of the  *)
(* candidate; the required checks with merges, with policies that race,    *)
(* with results that race, with two surfaces and with results that age;    *)
(* and the synchronization with webhooks that all arrive, and with a       *)
(* scheduler that makes up for those of a push or of a merge that are      *)
(* lost.  The modules that are not chosen stay in their initial states.    *)
(***************************************************************************)
EXTENDS RequiredChecks

CONSTANTS Worker, Request, Policy, NoEvaluation, NoRequest, Writers, Faults,
          MaxAttempts, MaxChanges, MaxFaults,
          Reconciliation, Incremental, SyncWorker, NoWorker, MaxHeads, Horizon

VARIABLES part,
          eproject, candidate, policy, inputs, request, job, exec, checkSync, changes, faults,
          remote, mail, sproject, validated, bucket, srecon, incr, archived, sjob, lock, sexec,
          writes, sfaults

evars == <<eproject, candidate, policy, inputs, request, job, exec, checkSync, changes, faults>>
svars == <<remote, mail, sproject, validated, bucket, srecon, incr, archived, sjob, lock, sexec,
           writes, sfaults>>
mcvars == <<vars, svars, evars, part>>

Evaluation == INSTANCE CandidateEvaluation WITH project <- eproject

Webhooks == INSTANCE RepositorySync
              WITH project <- sproject, recon <- srecon, job <- sjob, exec <- sexec,
                   faults <- sfaults, Worker <- SyncWorker,
                   Writers <- {"push", "forcedPush"}, Faults <- {"transient"},
                   MaxAttempts <- 2, MaxWrites <- 2, MaxFaults <- 1, MaxBucket <- 1
Scheduled == INSTANCE RepositorySync
               WITH project <- sproject, recon <- srecon, job <- sjob, exec <- sexec,
                    faults <- sfaults, Worker <- SyncWorker,
                    Writers <- {"push"}, Faults <- {"delivery", "transient"},
                    MaxAttempts <- 3, MaxHeads <- 2, MaxWrites <- 1, MaxFaults <- 2, MaxBucket <- 3
Missed == INSTANCE RepositorySync
            WITH project <- sproject, recon <- srecon, job <- sjob, exec <- sexec,
                 faults <- sfaults, Worker <- SyncWorker,
                 Writers <- {"merge"}, Faults <- {"delivery", "transient"},
                 MaxAttempts <- 3, MaxHeads <- 2, MaxWrites <- 1, MaxFaults <- 1, MaxBucket <- 2

Merging == INSTANCE RequiredChecks
  WITH Context <- {"build"}, Scopes <- BOOLEAN,
       Change <- {1, 2}, Handler <- {1}, Surfaces <- {"check_run"},
       Outcomes <- {"success"}, MaxPosts <- 1, MaxRules <- 1,
       MaxConfigured <- 1, MaxWeeks <- 0, MaxMerges <- 1, MaxFailures <- 0

Deciding == INSTANCE RequiredChecks
  WITH Context <- {"build"}, Scopes <- BOOLEAN,
       Change <- {1}, Handler <- {1, 2}, Surfaces <- {"check_run"},
       Outcomes <- {"success"}, MaxPosts <- 0, MaxRules <- 1,
       MaxConfigured <- 2, MaxWeeks <- 0, MaxMerges <- 0, MaxFailures <- 1

Posting == INSTANCE RequiredChecks
  WITH Context <- {"build"}, Scopes <- BOOLEAN,
       Change <- {1}, Handler <- {1, 2}, Surfaces <- {"check_run"},
       Outcomes <- {"pending", "success", "failure"}, MaxPosts <- 1, MaxRules <- 0,
       MaxConfigured <- 1, MaxWeeks <- 0, MaxMerges <- 0, MaxFailures <- 1

Surfacing == INSTANCE RequiredChecks
  WITH Context <- {"build"}, Scopes <- {FALSE},
       Change <- {1}, Handler <- {1}, Surfaces <- {"check_run", "commit_status"},
       Outcomes <- {"pending", "success"}, MaxPosts <- 2, MaxRules <- 0,
       MaxConfigured <- 1, MaxWeeks <- 0, MaxMerges <- 0, MaxFailures <- 0

MCInit ==
  /\ part \in {"webhooks", "periodic", "missed", "evaluation",
               "merging", "deciding", "posting", "surfacing", "ageing"}
  /\ Webhooks!Init
  /\ Evaluation!Init /\ policy.stored = CHOOSE content \in Policy : TRUE
  /\ \/ part = "merging" /\ Merging!Init
     \/ part = "deciding" /\ Deciding!Init
     \/ part = "posting" /\ Posting!Init
     \/ part = "surfacing" /\ Surfacing!Init
     \/ part = "ageing" /\ Init
     \/ part \in {"webhooks", "periodic", "missed", "evaluation"} /\ Init

EvaluationIdle == UNCHANGED <<svars, vars, part>>
SyncIdle == UNCHANGED <<vars, evars, part>>
ChecksIdle == UNCHANGED <<evars, svars, part>>

MCNext ==
  \/ part = "webhooks" /\ Webhooks!Next /\ SyncIdle
  \/ part = "periodic" /\ Scheduled!Next /\ SyncIdle
  \/ part = "missed" /\ Missed!Next /\ SyncIdle
  \/ part = "evaluation" /\ Evaluation!Next /\ EvaluationIdle
  \/ part = "merging" /\ Merging!Next /\ ChecksIdle
  \/ part = "deciding" /\ Deciding!Next /\ ChecksIdle
  \/ part = "posting" /\ Posting!Next /\ ChecksIdle
  \/ part = "surfacing" /\ Surfacing!Next /\ ChecksIdle
  \/ part = "ageing" /\ Next /\ ChecksIdle

(* No worker of the synchronization crashes here, so no lease must expire.  *)
(* The parts never change, so one fairness condition serves an action of    *)
(* all the parts that have it.                                              *)
Serve(h) ==
  \/ part = "merging" /\ h = 1 /\ (Merging!Load(h) \/ Merging!Commit(h))
  \/ part = "deciding" /\ (Deciding!Load(h) \/ Deciding!Commit(h))
  \/ part = "posting" /\ (Posting!Load(h) \/ Posting!Commit(h))
  \/ part = "surfacing" /\ h = 1 /\ (Surfacing!Load(h) \/ Surfacing!Commit(h))
  \/ part = "ageing" /\ h = 1 /\ (Load(h) \/ Commit(h))

TakeUp(h, j) ==
  \/ part = "merging" /\ h = 1 /\ Merging!Start(h, j)
  \/ part = "deciding" /\ j # 2 /\ Deciding!Start(h, j)
  \/ part = "posting" /\ j # 2 /\ Posting!Start(h, j)
  \/ part = "surfacing" /\ h = 1 /\ j # 2 /\ Surfacing!Start(h, j)
  \/ part = "ageing" /\ h = 1 /\ j # 2 /\ Start(h, j)

ReconcileChecks ==
  \/ part = "merging" /\ Merging!Reconcile
  \/ part = "deciding" /\ Deciding!Reconcile
  \/ part = "posting" /\ Posting!Reconcile
  \/ part = "surfacing" /\ Surfacing!Reconcile
  \/ part = "ageing" /\ Reconcile

EvaluateChecks == part \in {"merging", "deciding", "posting", "surfacing", "ageing"} /\ Evaluate

SyncProgress(w) ==
  (part = "webhooks" /\ Webhooks!Progress(w)) \/ (part = "periodic" /\ Scheduled!Progress(w))
    \/ (part = "missed" /\ Missed!Progress(w))
SyncScan(w) ==
  (part = "webhooks" /\ Webhooks!Scan(w)) \/ (part = "periodic" /\ Scheduled!Scan(w))
    \/ (part = "missed" /\ Missed!Scan(w))
SyncDeliver(k) ==
  (part = "webhooks" /\ Webhooks!Deliver(k)) \/ (part = "periodic" /\ Scheduled!Deliver(k))
    \/ (part = "missed" /\ Missed!Deliver(k))
SyncTick ==
  (part = "webhooks" /\ Webhooks!Tick) \/ (part = "periodic" /\ Scheduled!Tick)
    \/ (part = "missed" /\ Missed!Tick)

MCFairness ==
  /\ \A w \in SyncWorker :
       WF_mcvars(SyncProgress(w) /\ SyncIdle) /\ WF_mcvars(SyncScan(w) /\ SyncIdle)
  /\ \A k \in Webhooks!Delivery : WF_mcvars(SyncDeliver(k) /\ SyncIdle)
  /\ WF_mcvars(SyncTick /\ SyncIdle)
  /\ \A w \in Worker : WF_mcvars(part = "evaluation" /\ Evaluation!Progress(w) /\ EvaluationIdle)
  /\ \A r \in Request : WF_mcvars(part = "evaluation" /\ Evaluation!LeaseExpires(r) /\ EvaluationIdle)
  /\ WF_mcvars(part = "evaluation" /\ Evaluation!Refresh /\ EvaluationIdle)
  /\ \A h \in {1, 2} : WF_mcvars(Serve(h) /\ ChecksIdle)
  /\ \A h \in {1, 2}, j \in {0, 1, 2} : WF_mcvars(TakeUp(h, j) /\ ChecksIdle)
  /\ WF_mcvars(ReconcileChecks /\ ChecksIdle) /\ WF_mcvars(EvaluateChecks /\ ChecksIdle)

MCSpec == MCInit /\ [][MCNext]_mcvars /\ MCFairness

-----------------------------------------------------------------------------
(* Every request of the evaluation ends, and the pending one is published.  *)
EvaluationsEnd == Evaluation!RequestsFinish /\ Evaluation!NewerStateWins

(* Every request of the synchronization ends, too, and the heads that were  *)
(* pushed last are projected in the end.                                    *)
HeadsProjected ==
  <>[](part \in {"webhooks", "periodic", "missed"} =>
         /\ \A r \in Reconciliation : srecon[r].status \notin Webhooks!Active
         /\ \A i \in Incremental : incr[i].status \notin Webhooks!Active
         /\ Webhooks!Deleting \/ sproject.heads = remote)

(* The policy and the results become GitHub's, and the inductive invariant  *)
(* of RequiredChecks holds on the way.                                      *)
ChecksCatchUp ==
  /\ <>[](part \in {"merging", "deciding", "posting", "surfacing", "ageing"} =>
            /\ project.policy = Effective(project.overrides)
            /\ open = merged
            /\ \A c \in merged : {[o EXCEPT !.old = FALSE] : o \in results[c]} = posted[c])
  /\ [](CASE part = "merging" -> Merging!Inv
         [] part = "deciding" -> Deciding!Inv
         [] part = "posting" -> Posting!Inv
         [] part = "surfacing" -> Surfacing!Inv
         [] OTHER -> Inv)
=============================================================================
