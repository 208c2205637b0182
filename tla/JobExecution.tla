------------------------------ MODULE JobExecution ------------------------------
(***************************************************************************)
(* Jobs from the request that queues them to the answer a waiter gets      *)
(* (packages/jobs: enqueue.ts, execution.ts, store.ts, registry.ts).  Each *)
(* job has a row of Graphile Worker's and a shadow row that the API shows; *)
(* an attempt writes the shadow row before and after the handler, and only *)
(* then reports to Graphile Worker.  The handler is the one of the         *)
(* diagnostic job, whose payload says how its attempts end.                *)
(***************************************************************************)
EXTENDS Naturals, FiniteSets

CONSTANTS Job, Waiter,
          Asks,         \* payloads: [outcome, until]
          NoJob,        \* the job of a waiter that waits for none
          MaxAttempts,  \* retry.maxAttempts
          Concurrency,  \* jobs a worker runs at once
          MaxFaults     \* bound on errors of the database, aborted handlers and dead workers

VARIABLES asked,   \* the payload of a job
          queue,   \* Graphile Worker's row
          shadow,  \* shipgate_job_execution
          exec,    \* the attempt that is running
          told,    \* what waitForJobExecution has answered
          hit,     \* history: the attempts of a job that a fault has hit
          jfaults

vars == <<asked, queue, shadow, exec, told, hit, jfaults>>

Nothing == [outcome |-> "none", until |-> 0]
NoAttempt == [pc |-> "idle", error |-> "none"]
NoWait == [job |-> NoJob, answer |-> "none", attempts |-> 0]

Final == {"succeeded", "failed"}
Statuses == {"none", "queued", "running", "retrying"} \cup Final

Goto(j, pc) == exec' = [exec EXCEPT ![j].pc = pc]
Throws(j, pc, error) == exec' = [exec EXCEPT ![j] = [pc |-> pc, error |-> error]]
AttemptNumber(j) == queue[j].attempts

\* A fault hits the running attempt of a job.
Fault(j) ==
  /\ jfaults < MaxFaults /\ jfaults' = jfaults + 1
  /\ hit' = [hit EXCEPT ![j] = @ \cup {AttemptNumber(j)}]
NoFault == UNCHANGED <<hit, jfaults>>
-----------------------------------------------------------------------------
(* enqueueJob: both rows in one transaction. *)
Enqueue(j, ask) ==
  /\ queue[j].state = "none"
  /\ asked' = [asked EXCEPT ![j] = ask]
  /\ queue' = [queue EXCEPT ![j].state = "ready"]
  /\ shadow' = [shadow EXCEPT ![j].status = "queued"]
  /\ NoFault /\ UNCHANGED <<exec, told>>

(* waitForJobExecution *)
Wait(w, j) ==
  /\ told[w] = NoWait /\ queue[j].state # "none"
  /\ told' = [told EXCEPT ![w].job = j]
  /\ NoFault /\ UNCHANGED <<asked, queue, shadow, exec>>

Waiting(w) == told[w].job # NoJob /\ told[w].answer = "none"

Poll(w) ==
  /\ Waiting(w) /\ shadow[told[w].job].status \in Final
  /\ told' = [told EXCEPT ![w].answer = shadow[told[w].job].status,
                          ![w].attempts = shadow[told[w].job].attempts]
  /\ NoFault /\ UNCHANGED <<asked, queue, shadow, exec>>

TimesOut(w) ==
  /\ Waiting(w)
  /\ told' = [told EXCEPT ![w].answer = "timeout"]
  /\ NoFault /\ UNCHANGED <<asked, queue, shadow, exec>>
-----------------------------------------------------------------------------
(* Graphile Worker *)

Busy == {j \in Job : exec[j].pc # "idle"}

Take(j) ==
  /\ queue[j].state = "ready" /\ AttemptNumber(j) < MaxAttempts /\ Cardinality(Busy) < Concurrency
  /\ queue' = [queue EXCEPT ![j] = [state |-> "locked", attempts |-> @.attempts + 1]]
  /\ Goto(j, "start")
  /\ NoFault /\ UNCHANGED <<asked, shadow, told>>

\* The attempt returned: the job is over.
Complete(j) ==
  /\ exec[j].pc = "return"
  /\ queue' = [queue EXCEPT ![j].state = "done"]
  /\ exec' = [exec EXCEPT ![j] = NoAttempt]
  /\ NoFault /\ UNCHANGED <<asked, shadow, told>>

\* The attempt threw: the job waits for its next attempt, if it has one left.
FailJob(j) ==
  /\ exec[j].pc = "throw"
  /\ queue' = [queue EXCEPT ![j].state = "ready"]
  /\ exec' = [exec EXCEPT ![j] = NoAttempt]
  /\ NoFault /\ UNCHANGED <<asked, shadow, told>>

\* The worker dies; its jobs stay locked until Graphile Worker takes them back.
Crash ==
  /\ Busy # {} /\ jfaults < MaxFaults /\ jfaults' = jfaults + 1
  /\ exec' = [j \in Job |-> NoAttempt]
  /\ hit' = [j \in Job |-> IF j \in Busy THEN hit[j] \cup {AttemptNumber(j)} ELSE hit[j]]
  /\ UNCHANGED <<asked, queue, shadow, told>>

LockExpires(j) ==
  /\ queue[j].state = "locked" /\ exec[j].pc = "idle"
  /\ queue' = [queue EXCEPT ![j].state = "ready"]
  /\ NoFault /\ UNCHANGED <<asked, shadow, exec, told>>
-----------------------------------------------------------------------------
(* executeJobAttempt *)

\* An error before the try is thrown as it is.
MarkJobStarted(j) ==
  /\ exec[j].pc = "start"
  /\ \/ /\ shadow' = [shadow EXCEPT ![j].status = "running", ![j].attempts = AttemptNumber(j)]
        /\ IF asked[j].outcome = "invalid" THEN Throws(j, "refuse", "permanent")
           ELSE Goto(j, "execute")
        /\ NoFault
     \/ Fault(j) /\ Goto(j, "throw") /\ UNCHANGED shadow
  /\ UNCHANGED <<asked, queue, told>>

\* The diagnostic handler at an attempt; until = 0 stands for no failUntilAttempt.
Outcome(ask, attempt) ==
  IF ask.outcome = "retryable" /\ ask.until # 0 /\ attempt > ask.until THEN "success"
  ELSE ask.outcome

\* The handler ends as the payload says, or is aborted by a worker that stops.
Execute(j) ==
  /\ exec[j].pc = "execute"
  /\ \/ /\ Outcome(asked[j], AttemptNumber(j)) = "success"
        /\ Goto(j, "succeed") /\ NoFault
     \/ /\ Outcome(asked[j], AttemptNumber(j)) # "success"
        /\ Throws(j, "fail", Outcome(asked[j], AttemptNumber(j))) /\ NoFault
     \/ Fault(j) /\ Throws(j, "fail", "retryable")
  /\ UNCHANGED <<asked, queue, shadow, told>>

\* Inside the try: an error here counts as the handler's.
MarkJobSucceeded(j) ==
  /\ exec[j].pc = "succeed"
  /\ \/ /\ shadow' = [shadow EXCEPT ![j] = [status |-> "succeeded", attempts |-> AttemptNumber(j)]]
        /\ Goto(j, "return") /\ NoFault
     \/ Fault(j) /\ Throws(j, "fail", "retryable") /\ UNCHANGED shadow
  /\ UNCHANGED <<asked, queue, told>>

FailedStatus(j) ==
  IF exec[j].error = "permanent" \/ AttemptNumber(j) >= MaxAttempts THEN "failed" ELSE "retrying"

\* Mutant of AfterFailure: a permanent error is thrown on to Graphile Worker.
AfterFailureThrown(j) == "throw"

\* A permanent error ends the job for Graphile Worker, any other is thrown on to it.
AfterFailure(j) == IF exec[j].error = "permanent" THEN "return" ELSE "throw"

\* A refused payload and an error of the handler; an error here is thrown as it is.
MarkJobFailed(j) ==
  /\ exec[j].pc \in {"refuse", "fail"}
  /\ \/ /\ shadow' = [shadow EXCEPT ![j] = [status |-> FailedStatus(j), attempts |-> AttemptNumber(j)]]
        /\ Goto(j, AfterFailure(j)) /\ NoFault
     \/ Fault(j) /\ Goto(j, "throw") /\ UNCHANGED shadow
  /\ UNCHANGED <<asked, queue, told>>
-----------------------------------------------------------------------------
Init ==
  /\ asked = [j \in Job |-> Nothing]
  /\ queue = [j \in Job |-> [state |-> "none", attempts |-> 0]]
  /\ shadow = [j \in Job |-> [status |-> "none", attempts |-> 0]]
  /\ exec = [j \in Job |-> NoAttempt]
  /\ told = [w \in Waiter |-> NoWait]
  /\ hit = [j \in Job |-> {}]
  /\ jfaults = 0

Attempts(j) ==
  \/ MarkJobStarted(j) \/ Execute(j) \/ MarkJobSucceeded(j) \/ MarkJobFailed(j)
  \/ Complete(j) \/ FailJob(j)

Next ==
  \/ \E j \in Job : \/ \E ask \in Asks : Enqueue(j, ask)
                    \/ Take(j) \/ LockExpires(j) \/ Attempts(j)
  \/ \E w \in Waiter : (\E j \in Job : Wait(w, j)) \/ Poll(w) \/ TimesOut(w)
  \/ Crash

\* A worker takes and runs jobs, and Graphile Worker takes back the jobs of dead ones.  A job
\* is kept waiting by finitely many attempts of the others, so that it needs no more.
Fairness == \A j \in Job : WF_vars(Take(j)) /\ WF_vars(Attempts(j)) /\ WF_vars(LockExpires(j))

Spec == Init /\ [][Next]_vars /\ Fairness
-----------------------------------------------------------------------------
(* Properties *)

\* The rows, the attempts and the answers have their types.
TypeOK ==
  /\ asked \in [Job -> Asks \cup {Nothing}]
  /\ queue \in [Job -> [state : {"none", "ready", "locked", "done"}, attempts : 0 .. MaxAttempts]]
  /\ shadow \in [Job -> [status : Statuses, attempts : 0 .. MaxAttempts]]
  /\ exec \in [Job -> [pc : {"idle", "start", "refuse", "execute", "succeed", "fail", "return", "throw"},
                       error : {"none", "retryable", "permanent"}]]
  /\ told \in [Waiter -> [job : Job \cup {NoJob}, answer : {"none", "timeout"} \cup Final,
                       attempts : 0 .. MaxAttempts]]
  /\ hit \in [Job -> SUBSET (0 .. MaxAttempts)]
  /\ jfaults \in 0 .. MaxFaults

\* A success is one the payload allows at that attempt; a failure is permanent or comes
\* after the last attempt; and another attempt is announced only while one is left
\* (executeJobAttempt).
StatusAsAsked ==
  \A j \in Job :
    /\ shadow[j].status = "succeeded" => Outcome(asked[j], shadow[j].attempts) = "success"
    /\ shadow[j].status = "failed" =>
         asked[j].outcome \in {"permanent", "invalid"} \/ shadow[j].attempts = MaxAttempts
    /\ shadow[j].status = "retrying" => shadow[j].attempts < MaxAttempts

\* What waitForJobExecution has answered stands: no attempt follows a success or a
\* failure, unless a fault hit the very attempt that the answer is about.
ToldStands ==
  \A w \in Waiter : told[w].answer \in Final =>
    LET j == told[w].job IN
    \/ shadow[j] = [status |-> told[w].answer, attempts |-> told[w].attempts]
    \/ told[w].attempts \in hit[j]
=============================================================================
