------------------------------- MODULE Server -------------------------------
(***************************************************************************)
(* What the processes of the server share, side by side: the lock of a     *)
(* repository on the pool, the life of a process, the sessions of a user,  *)
(* the clients of an installation and the jobs.  The parts share no state; *)
(* each property is about one of them.                                     *)
(***************************************************************************)
EXTENDS RepositoryLock

CONSTANTS Life, MaxWork,                        \* the process: kinds, work
          Browser, Attempt, Request, Asked, NoSession,
          Caller, Slot, Lists, MaxRevoked, MaxDenials, MaxDue,
          Job, Waiter, NoJob, Asks, MaxTries, Parallel,
          MaxErrors                             \* bound on faults of the process and of the jobs

\* Payloads end attempts in one of four ways; null values are none of what they complete.
ASSUME ServerAssumption ==
  /\ Asks \subseteq [outcome : {"success", "permanent", "invalid", "retryable"}, until : Nat]
  /\ NoJob \notin Job /\ MaxTries \in Nat /\ MaxErrors \in Nat
  /\ NoSession \notin Request /\ Asked \subseteq {"logout", "disconnect", "delete"}
  /\ Life \subseteq {"worker", "api"} /\ MaxWork \in Nat
  /\ None \notin Slot /\ None \notin [gen : Nat, epoch : Nat]

VARIABLES kind, main, code, exited, handlers, signalled, hooks, down, pool, worker, server, work,
          scan, beat, row, lost, pfaults,
          oattempt, session, credential, user, jar, request, deleted, ufaults,
          app, cached, due, keys, pending, gen, making, caller, epoch, denials, dues, failures,
          asked, queue, shadow, exec, told, hit, jfaults

pvars == <<kind, main, code, exited, handlers, signalled, hooks, down, pool, worker, server, work,
           scan, beat, row, lost, pfaults>>
uvars == <<oattempt, session, credential, user, jar, request, deleted, ufaults>>
ivars == <<app, cached, due, keys, pending, gen, making, caller, epoch, denials, dues, failures>>
jvars == <<asked, queue, shadow, exec, told, hit, jfaults>>

Process == INSTANCE ProcessLifecycle
             WITH faults <- pfaults, Kinds <- Life, MaxFaults <- MaxErrors
Sessions == INSTANCE UserSessions
              WITH attempt <- oattempt, faults <- ufaults, Kinds <- Asked
Clients == INSTANCE InstallationClients
Jobs == INSTANCE JobExecution
          WITH MaxAttempts <- MaxTries, Concurrency <- Parallel, MaxFaults <- MaxErrors
-----------------------------------------------------------------------------
\* The pool is not destroyed under a job, a request or a scan, a worker that drains its jobs
\* is still seen by the health check, and a process that reports success has cut nothing
\* off (shutdown.ts, worker-runtime.ts).
ShutdownIsOrderly ==
  Process!TypeOK /\ Process!PoolOutlivesWork /\ Process!BeatWhileDraining /\ Process!SuccessIsClean

\* An attempt makes one session at most, an active session has the rows that
\* findActiveSession joins, a user who was told to be signed out is, and a deleted account
\* leaves nothing until it is created anew (auth-store.ts, auth-service.ts).
SessionsStand ==
  /\ Sessions!TypeOK /\ Sessions!OneLogin /\ Sessions!SessionsBacked
  /\ Sessions!SignedOut /\ Sessions!AccountGone

\* The row of a job says what its payload asked for, and what a waiter was told stands
\* (executeJobAttempt, waitForJobExecution).
ToldStands == Jobs!TypeOK /\ Jobs!StatusAsAsked /\ Jobs!ToldStands

\* No client asked for before an invalidation is handed out after it (getInstallationClient,
\* invalidateInstallation).
HandedOut ==
  \A c \in Caller :
    caller[c].pc # "using" /\ caller'[c].pc = "using" => caller'[c].client.gen = gen'
HandedOutIsCurrent == [][HandedOut]_ivars
=============================================================================
