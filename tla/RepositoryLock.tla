---------------------------- MODULE RepositoryLock ----------------------------
(***************************************************************************)
(* How handlers share a repository: a connection of the pool, the session  *)
(* advisory lock polled on it (advisory-lock.ts), and the transaction that *)
(* ends the work on the same connection (repository-transaction.ts).  The  *)
(* import of a webhook does all this while the webhook's own transaction   *)
(* holds another connection (github-webhook.ts).                           *)
(***************************************************************************)
EXTENDS Naturals

CONSTANTS Plain,       \* handlers of jobs and requests
          Import,      \* handlers of webhooks that import dependencies
          Connection,  \* at most as many connections are open: the pool's max
          None,        \* no connection
          MaxPolls,    \* polls within the five seconds
          MaxAttempts, \* attempts of a job
          MaxFaults    \* bound on callbacks that fail and sessions that break

ASSUME LockAssumption ==
  /\ None \notin Connection
  /\ MaxPolls \in Nat /\ MaxAttempts \in Nat \ {0} /\ MaxFaults \in Nat

Handler == Plain \cup Import

VARIABLES pc,
          outer,    \* connection of the webhook's transaction
          conn,     \* connection of the lock
          broken,   \* connections in use whose session has ended
          owner,    \* the session that holds the advisory lock
          polls, attempt,
          value,    \* what the repository's rows hold: a count of commits
          read,     \* what a handler has read of them
          faults

vars == <<pc, outer, conn, broken, owner, polls, attempt, value, read, faults>>

Places == {"ready", "connect", "poll", "work", "unlock", "fail", "done", "failed"}
MaybeConnection == Connection \cup {None}

TypeOK ==
  /\ pc \in [Handler -> Places]
  /\ outer \in [Handler -> MaybeConnection] /\ conn \in [Handler -> MaybeConnection]
  /\ broken \in SUBSET Connection /\ owner \in MaybeConnection
  /\ polls \in [Handler -> 0..MaxPolls] /\ attempt \in [Handler -> 1..MaxAttempts]
  /\ value \in Nat /\ read \in [Handler -> Nat] /\ faults \in 0..MaxFaults

Init ==
  /\ pc = [h \in Handler |-> "ready"]
  /\ outer = [h \in Handler |-> None] /\ conn = [h \in Handler |-> None]
  /\ broken = {} /\ owner = None
  /\ polls = [h \in Handler |-> 0] /\ attempt = [h \in Handler |-> 1]
  /\ value = 0 /\ read = [h \in Handler |-> 0] /\ faults = 0

Idle(c) == \A h \in Handler : conn[h] # c /\ outer[h] # c
Alive(h) == conn[h] \notin broken

(* The webhook's transaction, which other jobs do not have. *)
Begin(h) ==
  /\ pc[h] = "ready"
  /\ \/ h \notin Import /\ UNCHANGED outer
     \/ h \in Import /\ \E c \in Connection : Idle(c) /\ outer' = [outer EXCEPT ![h] = c]
  /\ pc' = [pc EXCEPT ![h] = "connect"]
  /\ UNCHANGED <<conn, broken, owner, polls, attempt, value, read, faults>>

(* database.connection(): a connection that no one uses. *)
Connect(h) ==
  /\ pc[h] = "connect"
  /\ \E c \in Connection : Idle(c) /\ conn' = [conn EXCEPT ![h] = c]
  /\ polls' = [polls EXCEPT ![h] = 0]
  /\ pc' = [pc EXCEPT ![h] = "poll"]
  /\ UNCHANGED <<outer, broken, owner, attempt, value, read, faults>>

(* connectionTimeoutMillis of the pool. *)
ConnectTimesOut(h) ==
  /\ pc[h] = "connect" \/ (pc[h] = "ready" /\ h \in Import)
  /\ \A c \in Connection : ~Idle(c)
  /\ pc' = [pc EXCEPT ![h] = "fail"]
  /\ UNCHANGED <<outer, conn, broken, owner, polls, attempt, value, read, faults>>

(* pg_try_advisory_lock answers true, and the work begins with a read. *)
Acquire(h) ==
  /\ pc[h] = "poll" /\ Alive(h)
  /\ owner = None /\ owner' = conn[h]
  /\ read' = [read EXCEPT ![h] = value]
  /\ pc' = [pc EXCEPT ![h] = "work"]
  /\ UNCHANGED <<outer, conn, broken, polls, attempt, value, faults>>

Waits(h) == Alive(h) /\ polls[h] < MaxPolls

(* It answers false: one more interval, until the time is over. *)
Poll(h) ==
  /\ pc[h] = "poll" /\ (Alive(h) => owner # None)
  /\ IF Waits(h) THEN polls' = [polls EXCEPT ![h] = @ + 1] /\ UNCHANGED pc
                 ELSE pc' = [pc EXCEPT ![h] = "fail"] /\ UNCHANGED polls
  /\ UNCHANGED <<outer, conn, broken, owner, attempt, value, read, faults>>

(* Mutant of Committable: the transaction runs on a connection of its own. *)
CommittableAnywhere(h) == h \in Handler

(* withRepositoryTransactionInLock runs in the lock's own session. *)
Committable(h) == Alive(h)

(* The callback ends with a commit; a broken session makes it fail. *)
Work(h) ==
  /\ pc[h] = "work"
  /\ IF Committable(h)
     THEN value' = read[h] + 1 /\ pc' = [pc EXCEPT ![h] = "unlock"]
     ELSE UNCHANGED value /\ pc' = [pc EXCEPT ![h] = "fail"]
  /\ UNCHANGED <<outer, conn, broken, owner, polls, attempt, read, faults>>

(* GitHub, git or a guard refuses. *)
CallbackFails(h) ==
  /\ faults < MaxFaults /\ faults' = faults + 1
  /\ pc[h] = "work"
  /\ pc' = [pc EXCEPT ![h] = "fail"]
  /\ UNCHANGED <<outer, conn, broken, owner, polls, attempt, value, read>>

(* Mutant of Unlocks: the lock is released only after a success. *)
UnlocksAfterSuccess(h) == pc[h] = "unlock" /\ owner = conn[h]

(* pg_advisory_unlock, whatever came of the callback. *)
Unlocks(h) == owner = conn[h]

Return(h) ==
  /\ owner' = IF Unlocks(h) THEN None ELSE owner
  /\ outer' = [outer EXCEPT ![h] = None] /\ conn' = [conn EXCEPT ![h] = None]
  /\ broken' = broken \ {conn[h], outer[h]}

Finish(h) ==
  /\ pc[h] = "unlock" /\ Alive(h)
  /\ Return(h)
  /\ pc' = [pc EXCEPT ![h] = "done"]
  /\ UNCHANGED <<polls, attempt, value, read, faults>>

(* A failure, or an unlock that finds its session gone although the work is *)
(* committed: the job is tried again from its start.                        *)
Retry(h) ==
  /\ pc[h] = "fail" \/ (pc[h] = "unlock" /\ ~Alive(h))
  /\ Return(h)
  /\ IF attempt[h] < MaxAttempts
     THEN attempt' = [attempt EXCEPT ![h] = @ + 1] /\ pc' = [pc EXCEPT ![h] = "ready"]
     ELSE pc' = [pc EXCEPT ![h] = "failed"] /\ UNCHANGED attempt
  /\ UNCHANGED <<polls, value, read, faults>>

(* PostgreSQL ends a session and with it its lock. *)
Break(h) ==
  /\ faults < MaxFaults /\ faults' = faults + 1
  /\ conn[h] # None /\ Alive(h)
  /\ broken' = broken \cup {conn[h]}
  /\ owner' = IF owner = conn[h] THEN None ELSE owner
  /\ UNCHANGED <<pc, outer, conn, polls, attempt, value, read>>

Step(h) == Begin(h) \/ Connect(h) \/ ConnectTimesOut(h) \/ Acquire(h) \/ Poll(h) \/ Work(h)
           \/ Finish(h) \/ Retry(h)

Next == \E h \in Handler : Step(h) \/ CallbackFails(h) \/ Break(h)

(* The event loop serves every handler, and no callback hangs. *)
Fairness == \A h \in Handler : WF_vars(Step(h))

Spec == Init /\ [][Next]_vars /\ Fairness

-----------------------------------------------------------------------------
(* A commit builds on what the rows hold: nobody else has committed since   *)
(* the handler read them, not even when its session broke and the next      *)
(* handler got the lock while it was still at work.                         *)
CommitsBuildOn ==
  \A h \in Handler : pc[h] = "work" /\ pc'[h] = "unlock" => read[h] = value
NothingLost == [][CommitsBuildOn]_vars

(* A connection that goes back to the pool holds no lock.                   *)
ReturnedClean == owner # None => ~Idle(owner)
=============================================================================
