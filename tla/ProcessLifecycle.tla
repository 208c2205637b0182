-------------------------- MODULE ProcessLifecycle --------------------------
(***************************************************************************)
(* The life of one server process, a worker or the API: what its start     *)
(* registers, what a signal or a fatal error stops and in which order      *)
(* (run-application.ts, shutdown.ts, worker-runtime.ts, api-runtime.ts,    *)
(* and worker.ts and heartbeat.ts of the jobs package).  A hook that hangs *)
(* is one that the deadline of the shutdown overtakes.                     *)
(***************************************************************************)
EXTENDS Naturals, Sequences, SequencesExt

CONSTANTS Kinds,       \* subset of {"worker", "api"}
          MaxWork,     \* bound on jobs or requests in progress
          MaxFaults    \* bound on errors

VARIABLES kind,
          main,        \* where runApplication is
          code,        \* process.exitCode
          exited,      \* the process is gone
          handlers,    \* signal handlers are installed
          signalled,   \* a signal or an uncaught error asked for the shutdown
          hooks,       \* registered shutdown hooks
          down,        \* the shutdown: its state, the hooks left, and its result
          pool,        \* the database pool
          worker,      \* the job worker: Graphile's runner
          server,      \* the HTTP server
          work,        \* jobs or requests in progress
          scan,        \* a scan of the reconciliation scheduler is in progress
          beat,        \* the heartbeat: its timer runs
          row,         \* the heartbeat row exists
          lost,        \* work that was cut off
          faults

vars == <<kind, main, code, exited, handlers, signalled, hooks, down, pool, worker, server,
          work, scan, beat, row, lost, faults>>
process == <<kind, exited, handlers, signalled, lost>>
services == <<pool, worker, server, work, scan, beat, row>>

NoShutdown == [state |-> "none", todo |-> <<>>, failed |-> FALSE, timedOut |-> FALSE]

(* createApplicationContext registers the pool before everything else. *)
Init ==
  /\ kind \in Kinds
  /\ main = "start" /\ code = 0 /\ exited = FALSE /\ handlers = TRUE /\ signalled = FALSE
  /\ hooks = <<"database">> /\ down = NoShutdown
  /\ pool = "open" /\ worker = "none" /\ server = "none"
  /\ work = 0 /\ scan = FALSE /\ beat = FALSE /\ row = FALSE /\ lost = 0 /\ faults = 0

TypeOK ==
  /\ main \in {"start", "recover", "run", "beat", "register", "bind", "late", "interrupted", "waiting",
               "complete", "failed", "result", "end"}
  /\ hooks \in Seq({"database", "worker", "scheduler", "fastify"})
  /\ down.state \in {"none", "running", "done"}
  /\ down.todo # <<>> => down.state = "running" \/ down.timedOut
  /\ pool \in {"open", "ending", "ended"}
  /\ worker \in {"none", "running", "stopping", "stopped"}
  /\ server \in {"none", "built", "listening", "closing", "closed"}
  /\ beat => row
  /\ exited => work = 0 /\ ~scan
  /\ lost \in 0..(MaxWork + MaxFaults)

-----------------------------------------------------------------------------
(* The shutdown                                                            *)

IsShuttingDown == down.state # "none"
Failed == down.failed \/ down.timedOut

(* Mutant of HookOrder: hooks run in the order of their registration. *)
HookOrderRegistered(registered) == registered

(* What was registered last is stopped first. *)
HookOrder(registered) == Reverse(registered)

(* shutdown: the first caller starts it, the others share its result. *)
ShutDown ==
  down' = IF IsShuttingDown THEN down
          ELSE [NoShutdown EXCEPT !.state = "running", !.todo = HookOrder(hooks)]

(* addHook, where the code has checked that no shutdown has started. *)
AddHooks(names) == hooks' = hooks \o names

HookEnds(failed) ==
  down' = [down EXCEPT !.todo = Tail(@), !.failed = @ \/ failed,
                       !.state = IF Len(down.todo) = 1 /\ ~down.timedOut THEN "done" ELSE @]

Hook(name) == ~exited /\ down.todo # <<>> /\ Head(down.todo) = name

(* The scheduler's timer is cleared and a scan in progress awaited. *)
StopScheduler ==
  /\ Hook("scheduler") /\ ~scan
  /\ HookEnds(FALSE)
  /\ UNCHANGED <<process, main, code, hooks, services, faults>>

(* stop: no job is taken any more, those in progress end, and only then the *)
(* heartbeat.                                                               *)
StopWorker ==
  /\ Hook("worker")
  /\ IF worker = "running"
     THEN /\ worker' = "stopping"
          /\ UNCHANGED <<down, beat, row>>
     ELSE /\ worker = "stopping" /\ work = 0
          /\ worker' = "stopped" /\ beat' = FALSE /\ row' = FALSE
          /\ HookEnds(FALSE)
  /\ UNCHANGED <<process, main, code, hooks, pool, server, work, scan, faults>>

(* app.close waits for the requests in progress. *)
CloseServer ==
  /\ Hook("fastify")
  /\ IF server \in {"built", "listening"}
     THEN server' = (IF server = "built" THEN "closed" ELSE "closing") /\ UNCHANGED down
     ELSE /\ work = 0
          /\ server' = "closed"
          /\ HookEnds(FALSE)
  /\ UNCHANGED <<process, main, code, hooks, pool, worker, work, scan, beat, row, faults>>

(* database.destroy waits for the connections in use. *)
DestroyPool ==
  /\ Hook("database")
  /\ IF pool = "open"
     THEN pool' = "ending" /\ UNCHANGED down
     ELSE /\ work = 0 /\ ~scan
          /\ pool' = "ended"
          /\ HookEnds(FALSE)
  /\ UNCHANGED <<process, main, code, hooks, worker, server, work, scan, beat, row, faults>>

(* A hook that throws does not keep the next ones from running. *)
HookFails ==
  /\ faults < MaxFaults /\ faults' = faults + 1
  /\ ~exited /\ down.todo # <<>>
  /\ HookEnds(TRUE)
  /\ UNCHANGED <<process, main, code, hooks, services>>

(* The deadline passes; the hooks that are left go on all the same. *)
Deadline ==
  /\ ~exited /\ down.state = "running"
  /\ down' = [down EXCEPT !.state = "done", !.timedOut = TRUE]
  /\ UNCHANGED <<process, main, code, hooks, services, faults>>

-----------------------------------------------------------------------------
(* The process                                                             *)

Gone(status) ==
  /\ exited' = TRUE /\ code' = status /\ lost' = lost + work
  /\ work' = 0 /\ scan' = FALSE /\ beat' = FALSE
  /\ UNCHANGED <<kind, main, handlers, signalled, hooks, down, pool, worker, server, row, faults>>

(* SIGTERM or SIGINT; without the handlers it kills. *)
Signal ==
  /\ ~exited /\ ~signalled /\ handlers
  /\ signalled' = TRUE
  /\ ShutDown
  /\ UNCHANGED <<kind, exited, handlers, lost, main, code, hooks, services, faults>>

(* An exception nobody catches, or a rejection, ends a job or a request. *)
Uncaught ==
  /\ faults < MaxFaults /\ faults' = faults + 1
  /\ ~exited /\ ~signalled /\ handlers
  /\ signalled' = TRUE /\ code' = 1
  /\ work > 0 /\ work' = work - 1 /\ lost' = lost + 1
  /\ ShutDown
  /\ UNCHANGED <<kind, exited, handlers, main, hooks, pool, worker, server, scan, beat, row>>

(* SIGKILL, a second SIGTERM, or the machine. *)
Kill ==
  /\ faults < MaxFaults /\ faults' = faults + 1
  /\ ~exited
  /\ exited' = TRUE /\ code' = 137 /\ lost' = lost + work
  /\ work' = 0 /\ scan' = FALSE /\ beat' = FALSE
  /\ UNCHANGED <<kind, main, handlers, signalled, hooks, down, pool, worker, server, row>>

(* exitAfterFailedShutdown, for a shutdown that a signal asked for. *)
ForcedExit ==
  /\ ~exited /\ signalled /\ handlers /\ down.state = "done" /\ Failed
  /\ Gone(1)

(* Nothing keeps the process alive any more. *)
NaturalExit ==
  /\ ~exited /\ main = "end"
  /\ pool = "ended" /\ worker \in {"none", "stopped"} /\ server \in {"none", "closed"}
  /\ work = 0 /\ ~scan /\ ~beat
  /\ Gone(code)

Goto(next) == main' = next
Step(here) == ~exited /\ main = here

(* An await of the start throws: an error, or the pool has been destroyed. *)
StartFails ==
  /\ ~exited /\ main \in {"start", "recover", "run", "beat", "bind"}
  /\ \/ faults < MaxFaults /\ faults' = faults + 1
     \/ pool # "open" /\ UNCHANGED faults
  /\ IF main = "beat" THEN worker' = "stopping" ELSE UNCHANGED worker
  /\ Goto("failed")
  /\ UNCHANGED <<process, code, hooks, down, pool, server, work, scan, beat, row>>

(* runApplication, before and after options.start. *)
Begin ==
  /\ Step("start")
  /\ IF IsShuttingDown THEN Goto("interrupted")
     ELSE Goto(IF kind = "worker" THEN "recover" ELSE "register")
  /\ server' = IF ~IsShuttingDown /\ kind = "api" THEN "built" ELSE server
  /\ UNCHANGED <<process, code, hooks, down, pool, worker, work, scan, beat, row, faults>>

(* startWorker: readiness, recoveries and due reconciliations. *)
Recover ==
  /\ Step("recover") /\ pool = "open"
  /\ Goto("run")
  /\ UNCHANGED <<process, code, hooks, down, services, faults>>

RunWorker ==
  /\ Step("run") /\ pool = "open"
  /\ worker' = "running"
  /\ Goto("beat")
  /\ UNCHANGED <<process, code, hooks, down, pool, server, work, scan, beat, row, faults>>

StartHeartbeat ==
  /\ Step("beat") /\ pool = "open"
  /\ beat' = TRUE /\ row' = TRUE
  /\ Goto("register")
  /\ UNCHANGED <<process, code, hooks, down, pool, worker, server, work, scan, faults>>

(* Mutant of RegisterWorker: a shutdown that has begun is not looked for. *)
RegisterWorkerLate ==
  /\ Step("register") /\ kind = "worker"
  /\ IF IsShuttingDown THEN UNCHANGED hooks ELSE AddHooks(<<"worker", "scheduler">>)
  /\ Goto(IF IsShuttingDown THEN "interrupted" ELSE "waiting")
  /\ UNCHANGED <<process, code, down, services, faults>>

(* The worker is handed to the shutdown or, when that has begun, stopped. *)
RegisterWorker ==
  /\ Step("register") /\ kind = "worker"
  /\ IF IsShuttingDown
     THEN Goto("late") /\ worker' = "stopping" /\ UNCHANGED hooks
     ELSE Goto("waiting") /\ AddHooks(<<"worker", "scheduler">>) /\ UNCHANGED worker
  /\ UNCHANGED <<process, code, down, pool, server, work, scan, beat, row, faults>>

(* Its jobs end; its row can only be deleted while the pool is open. *)
StopLateWorker ==
  /\ kind = "worker" /\ ~exited /\ worker = "stopping" /\ work = 0
  /\ main = "late" \/ (main \in {"failed", "result", "interrupted", "end"} /\ "worker" \notin ToSet(hooks))
  /\ worker' = "stopped" /\ beat' = FALSE
  /\ row' = (row /\ pool # "open")
  /\ main' = IF main = "late" THEN "interrupted" ELSE main
  /\ UNCHANGED <<process, code, hooks, down, pool, server, work, scan, faults>>

RegisterServer ==
  /\ Step("register") /\ kind = "api"
  /\ IF IsShuttingDown
     THEN Goto("interrupted") /\ server' = "closed" /\ UNCHANGED hooks
     ELSE Goto("bind") /\ AddHooks(<<"fastify">>) /\ UNCHANGED server
  /\ UNCHANGED <<process, code, down, pool, worker, work, scan, beat, row, faults>>

(* listen may settle after the hook has closed the server: it is closed     *)
(* once more.                                                               *)
Listen ==
  /\ Step("bind")
  /\ server' = IF IsShuttingDown THEN "closed" ELSE "listening"
  /\ Goto(IF IsShuttingDown THEN "interrupted" ELSE "waiting")
  /\ UNCHANGED <<process, code, hooks, down, pool, worker, work, scan, beat, row, faults>>

(* The runner's promise or the server's close event. *)
Stopped ==
  /\ Step("waiting")
  /\ worker = "stopped" \/ server = "closed"
  /\ Goto("complete")
  /\ UNCHANGED <<process, code, hooks, down, services, faults>>

(* The runner's promise is rejected: a fatal error of the pool. *)
WorkerDies ==
  /\ Step("waiting") /\ worker = "running" /\ work = 0
  /\ faults < MaxFaults /\ faults' = faults + 1
  /\ Goto("failed")
  /\ UNCHANGED <<process, code, hooks, down, services>>

(* The catch block: an interrupted start is no failure. *)
Catch ==
  /\ Step("failed")
  /\ IF IsShuttingDown THEN UNCHANGED <<code, down>> ELSE code' = 1 /\ ShutDown
  /\ Goto("result")
  /\ UNCHANGED <<process, hooks, services, faults>>

AwaitShutdown ==
  /\ ~exited /\ main \in {"complete", "interrupted"}
  /\ ShutDown
  /\ Goto("result")
  /\ UNCHANGED <<process, code, hooks, services, faults>>

(* The result sets the exit code, and the handlers are removed. *)
Result ==
  /\ Step("result") /\ down.state = "done"
  /\ code' = IF Failed THEN 1 ELSE code
  /\ ~(signalled /\ Failed)
  /\ handlers' = FALSE
  /\ Goto("end")
  /\ UNCHANGED <<kind, exited, signalled, lost, hooks, down, services, faults>>

-----------------------------------------------------------------------------
(* What the process does meanwhile                                         *)

TakeWork ==
  /\ ~exited /\ work < MaxWork
  /\ worker = "running" \/ server = "listening"
  /\ work' = work + 1
  /\ UNCHANGED <<process, main, code, hooks, down, pool, worker, server, scan, beat, row, faults>>

EndWork ==
  /\ ~exited /\ work > 0
  /\ work' = work - 1
  /\ UNCHANGED <<process, main, code, hooks, down, pool, worker, server, scan, beat, row, faults>>

StartScan ==
  /\ ~exited /\ "scheduler" \in ToSet(hooks) /\ ~scan /\ ~IsShuttingDown
  /\ scan' = TRUE
  /\ UNCHANGED <<process, main, code, hooks, down, pool, worker, server, work, beat, row, faults>>

EndScan ==
  /\ ~exited /\ scan
  /\ scan' = FALSE
  /\ UNCHANGED <<process, main, code, hooks, down, pool, worker, server, work, beat, row, faults>>

Start == Begin \/ Recover \/ RunWorker \/ StartHeartbeat \/ RegisterWorker \/ StopLateWorker
         \/ RegisterServer \/ Listen
Run == Stopped \/ Catch \/ AwaitShutdown \/ Result \/ ForcedExit \/ NaturalExit
Hooks == StopScheduler \/ StopWorker \/ CloseServer \/ DestroyPool

Next ==
  \/ Start \/ StartFails
  \/ Run \/ Hooks
  \/ Signal \/ Uncaught \/ Kill \/ Deadline \/ HookFails \/ WorkerDies
  \/ TakeWork \/ EndWork \/ StartScan \/ EndScan

(* The event loop runs what is ready, jobs and requests end, and the        *)
(* deadline passes; a hook may hang.                                        *)
Fairness ==
  /\ WF_vars(Start \/ (StartFails /\ pool # "open"))
  /\ WF_vars(Run) /\ WF_vars(StopLateWorker) /\ WF_vars(EndWork)
  /\ WF_vars(Deadline)

Spec == Init /\ [][Next]_vars /\ Fairness

-----------------------------------------------------------------------------
(* Properties                                                              *)

Hooked == ToSet(hooks) \cap {"worker", "fastify"} # {}

(* The hooks run in the reverse order of their registration: while none of  *)
(* them fails, the pool is not destroyed under a job, a request or a scan.  *)
PoolOutlivesWork ==
  pool # "open" /\ Hooked /\ ~down.failed => work = 0 /\ ~scan

(* A worker that drains its jobs is still seen by the health check.         *)
BeatWhileDraining == worker = "stopping" /\ work > 0 /\ Hooked => row

(* A process that reports success has cut nothing off, and a worker that    *)
(* was started has removed its heartbeat.                                   *)
SuccessIsClean == exited /\ code = 0 => lost = 0 /\ (Hooked => ~row)
=============================================================================
