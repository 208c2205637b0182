------------------------------ MODULE Server_proofs ------------------------------
(***************************************************************************)
(* What holds of the parts of the server, for any handlers, connections,   *)
(* work, browsers, requests, callers and jobs: the lock of a repository    *)
(* and the transaction in its session exclude lost updates; hooks in the   *)
(* reverse order of their registration stop what works before the pool;    *)
(* the sessions of a user end when he was told so; clients asked for       *)
(* before an invalidation are not handed out; and what a waiter was told   *)
(* of a job stands.                                                        *)
(***************************************************************************)
EXTENDS Server, Sequences, TLAPS

(* The lock.  What makes its exclusion inductive is that connections are    *)
(* never shared, and that a handler at work whose session is alive owns    *)
(* the lock and has read what the rows still hold.                         *)

(* Connections are used by one handler, for one purpose. *)
Exclusive ==
  \A h \in Handler : conn[h] # None =>
    /\ \A g \in Handler : conn[h] # outer[g]
    /\ \A g \in Handler : conn[h] = conn[g] => h = g

(* A live session at work owns the lock and knows the rows. *)
OwnerWorks ==
  \A h \in Handler : pc[h] = "work" =>
    /\ conn[h] # None
    /\ Alive(h) => owner = conn[h] /\ read[h] = value

(* A handler has a connection from its first poll to its end. *)
PollsConnected ==
  \A h \in Handler :
    /\ pc[h] = "poll" => conn[h] # None
    /\ pc[h] \in {"ready", "connect", "done", "failed"} => conn[h] = None

(* Whoever owns the lock is a handler's session. *)
Owned == owner # None => \E h \in Handler : conn[h] = owner

IInv == TypeOK /\ Exclusive /\ OwnerWorks /\ PollsConnected /\ Owned

(* Type correctness: the variables stay in their sets. *)
LEMMA TypeInvariant == TypeOK /\ [Next]_vars => TypeOK'
<1> SUFFICES ASSUME TypeOK, [Next]_vars PROVE TypeOK'
  OBVIOUS
<1> USE LockAssumption DEF TypeOK, MaybeConnection, Places
<1>1. CASE UNCHANGED vars
  BY <1>1 DEF vars
<1>2. ASSUME NEW h \in Handler, Begin(h) PROVE TypeOK'
  BY <1>2 DEF Begin
<1>3. ASSUME NEW h \in Handler, Connect(h) PROVE TypeOK'
  BY <1>3 DEF Connect
<1>4. ASSUME NEW h \in Handler, ConnectTimesOut(h) PROVE TypeOK'
  BY <1>4 DEF ConnectTimesOut
<1>5. ASSUME NEW h \in Handler, Acquire(h) PROVE TypeOK'
  BY <1>5 DEF Acquire
<1>6. ASSUME NEW h \in Handler, Poll(h) PROVE TypeOK'
  <2>1. CASE Waits(h)
    <3>1. polls[h] + 1 \in 0..MaxPolls
      BY <2>1 DEF Waits
    <3> QED BY <3>1, <2>1, <1>6 DEF Poll
  <2>2. CASE ~Waits(h)
    BY <2>2, <1>6 DEF Poll
  <2> QED BY <2>1, <2>2
<1>7. ASSUME NEW h \in Handler, Work(h) PROVE TypeOK'
  <2>1. value' \in Nat /\ pc' \in [Handler -> Places]
    BY <1>7 DEF Work
  <2> QED BY <2>1, <1>7 DEF Work
<1>8. ASSUME NEW h \in Handler, CallbackFails(h) PROVE TypeOK'
  BY <1>8 DEF CallbackFails
<1>9. ASSUME NEW h \in Handler, Finish(h) PROVE TypeOK'
  BY <1>9 DEF Finish, Return
<1>10. ASSUME NEW h \in Handler, Retry(h) PROVE TypeOK'
  <2>1. owner' \in MaybeConnection /\ outer' \in [Handler -> MaybeConnection]
        /\ conn' \in [Handler -> MaybeConnection] /\ broken' \in SUBSET Connection
    BY <1>10 DEF Retry, Return
  <2>2. CASE attempt[h] < MaxAttempts
    <3>1. attempt[h] + 1 \in 1..MaxAttempts
      BY <2>2
    <3> QED BY <3>1, <2>1, <2>2, <1>10 DEF Retry
  <2>3. CASE ~(attempt[h] < MaxAttempts)
    BY <2>1, <2>3, <1>10 DEF Retry
  <2> QED BY <2>2, <2>3
<1>11. ASSUME NEW h \in Handler, Break(h) PROVE TypeOK'
  BY <1>11 DEF Break
<1> QED
  BY <1>1, <1>2, <1>3, <1>4, <1>5, <1>6, <1>7, <1>8, <1>9, <1>10, <1>11 DEF Next, Step

(* The rest of the invariant, action by action. *)
LEMMA SessionInvariant == IInv /\ [Next]_vars => IInv'
<1> SUFFICES ASSUME IInv, [Next]_vars PROVE (Exclusive /\ OwnerWorks /\ PollsConnected /\ Owned)'
  BY TypeInvariant DEF IInv
<1> DEFINE Rest == Exclusive /\ OwnerWorks /\ PollsConnected /\ Owned
<1> USE LockAssumption DEF IInv, TypeOK, MaybeConnection, Places, Exclusive, OwnerWorks,
        PollsConnected, Owned, Alive
<1>1. CASE UNCHANGED vars
  BY <1>1 DEF vars
<1>2. ASSUME NEW h \in Handler, Begin(h) PROVE Rest'
  BY <1>2 DEF Begin, Idle
<1>3. ASSUME NEW h \in Handler, Connect(h) PROVE Rest'
  <2> PICK c \in Connection : Idle(c) /\ conn' = [conn EXCEPT ![h] = c]
    BY <1>3 DEF Connect
  <2>1. \A g \in Handler : conn'[g] = IF g = h THEN c ELSE conn[g]
    OBVIOUS
  <2>2. outer' = outer /\ owner' = owner /\ broken' = broken /\ value' = value /\ read' = read
        /\ pc' = [pc EXCEPT ![h] = "poll"] /\ pc[h] = "connect"
    BY <1>3 DEF Connect
  <2>3. \A g \in Handler : conn[g] # c /\ outer[g] # c
    BY DEF Idle
  <2>4. Exclusive'
    BY <2>1, <2>2, <2>3
  <2>5. OwnerWorks' /\ PollsConnected'
    BY <2>1, <2>2
  <2>6. Owned'
    <3> SUFFICES ASSUME owner # None PROVE \E g \in Handler : conn'[g] = owner
      BY <2>2
    <3> PICK g \in Handler : conn[g] = owner
      OBVIOUS
    <3>1. CASE g # h
      BY <3>1, <2>1
    <3>2. CASE g = h
      BY <3>2, <1>3 DEF Connect
    <3> QED BY <3>1, <3>2
  <2> QED BY <2>4, <2>5, <2>6
<1>4. ASSUME NEW h \in Handler, ConnectTimesOut(h) PROVE Rest'
  BY <1>4 DEF ConnectTimesOut
<1>5. ASSUME NEW h \in Handler, Acquire(h) PROVE Rest'
  BY <1>5 DEF Acquire
<1>6. ASSUME NEW h \in Handler, Poll(h) PROVE Rest'
  BY <1>6 DEF Poll
<1>7. ASSUME NEW h \in Handler, Work(h) PROVE Rest'
  BY <1>7 DEF Work, Committable
<1>8. ASSUME NEW h \in Handler, CallbackFails(h) PROVE Rest'
  BY <1>8 DEF CallbackFails
<1>9. ASSUME NEW h \in Handler, Finish(h) \/ Retry(h) PROVE Rest'
  BY <1>9 DEF Finish, Retry, Return, Unlocks
<1>10. ASSUME NEW h \in Handler, Break(h) PROVE Rest'
  BY <1>10 DEF Break
<1> QED
  BY <1>1, <1>2, <1>3, <1>4, <1>5, <1>6, <1>7, <1>8, <1>9, <1>10 DEF Next, Step

LEMMA InitInvariant == Init => IInv
BY LockAssumption DEF Init, IInv, TypeOK, MaybeConnection, Places, Exclusive, OwnerWorks,
   PollsConnected, Owned, Alive

(* The inductive invariant holds in every state. *)
THEOREM LockInvariant == Spec => []IInv
<1>1. Init => IInv
  BY InitInvariant
<1>2. IInv /\ [Next]_vars => IInv'
  BY SessionInvariant
<1> QED
  BY <1>1, <1>2, PTL DEF Spec

(* The variables stay in their sets: no handler polls or is tried too often. *)
THEOREM LockTyped == Spec => []TypeOK
<1>1. IInv => TypeOK
  BY DEF IInv
<1> QED
  BY <1>1, LockInvariant, PTL

(* No connection goes back to the pool with the lock. *)
THEOREM LockReturned == Spec => []ReturnedClean
<1>1. IInv => ReturnedClean
  BY DEF IInv, Owned, ReturnedClean, Idle
<1> QED
  BY <1>1, LockInvariant, PTL

(* No commit of a handler is built on rows that another has changed. *)
THEOREM NoUpdateLost == Spec => NothingLost
<1>1. IInv /\ [Next]_vars => [CommitsBuildOn]_vars
  <2> SUFFICES ASSUME IInv, Next, NEW h \in Handler, pc[h] = "work", pc'[h] = "unlock"
               PROVE read[h] = value
    BY DEF CommitsBuildOn
  <2> USE DEF IInv, TypeOK, Places
  <2>1. PICK g \in Handler : Step(g) \/ CallbackFails(g) \/ Break(g)
    BY DEF Next
  <2>2. g = h
    BY <2>1 DEF Step, Begin, Connect, ConnectTimesOut, Acquire, Poll, Work, Finish, Retry,
                CallbackFails, Break
  <2>3. Work(h)
    BY <2>1, <2>2 DEF Step, Begin, Connect, ConnectTimesOut, Acquire, Poll, Finish, Retry,
                      CallbackFails, Break
  <2>4. Alive(h)
    BY <2>3 DEF Work, Committable
  <2> QED
    BY <2>4 DEF OwnerWorks
<1> QED
  BY <1>1, LockInvariant, PTL DEF Spec, NothingLost

-----------------------------------------------------------------------------
(* The life of a process                                                   *)

\* The hooks that are registered, and those that are left.
WorkerHooks == <<"database", "worker", "scheduler">>
ServerHooks == <<"database", "fastify">>
AfterWork == {<<>>, <<"database">>}
Todo ==
  AfterWork \cup {<<"worker", "database">>, <<"scheduler", "worker", "database">>, <<"fastify", "database">>}
HooksOK ==
  \/ hooks = <<"database">> /\ down.todo \in AfterWork
  \/ /\ kind = "worker" /\ hooks = WorkerHooks
     /\ down.todo \in AfterWork \cup {<<"worker", "database">>, <<"scheduler", "worker", "database">>}
  \/ kind = "api" /\ hooks = ServerHooks /\ down.todo \in AfterWork \cup {<<"fastify", "database">>}

DownOK ==
  /\ down \in [state : {"none", "running", "done"},
               todo : Todo,
               failed : BOOLEAN, timedOut : BOOLEAN]
  /\ down.state = "none" => down.todo = <<>> /\ ~down.failed /\ ~down.timedOut
  /\ down.state = "running" => down.todo # <<>> /\ ~down.timedOut
  /\ down.state = "done" => down.todo = <<>> \/ down.timedOut

\* The hook of what works is over, and has not failed.
Past == down.state # "none" /\ down.todo \in AfterWork /\ ~down.failed

\* The hook of the scheduler is not over, unless one has failed.
Scanning == down.state # "none" /\ ~down.failed => down.todo = <<"scheduler", "worker", "database">>

PoolOK ==
  /\ pool \in {"open", "ending", "ended"}
  /\ pool # "open" => down.state # "none" /\ down.todo \in AfterWork

CountsOK ==
  /\ work \in 0..MaxWork /\ pfaults \in 0..MaxErrors /\ lost \in Nat
  /\ ~exited => lost <= pfaults
  /\ lost <= MaxWork + MaxErrors
  /\ code = 0 => lost = 0
  /\ exited => work = 0 /\ ~scan

WorkerOK ==
  kind = "worker" =>
    /\ server = "none" /\ worker \in {"none", "running", "stopping", "stopped"}
    /\ worker \in {"none", "stopped"} => work = 0
    /\ main # "bind"
    /\ main \in {"beat", "register"} => worker = "running"
    /\ main = "register" => row
    /\ hooks # <<"database">> =>
         /\ main \notin {"start", "recover", "run", "beat", "register", "late"}
         /\ worker # "none" /\ (row <=> worker # "stopped")
         /\ Past => worker = "stopped"
    /\ scan => hooks = WorkerHooks /\ Scanning

ServerOK ==
  kind = "api" =>
    /\ worker = "none" /\ ~row /\ ~scan
    /\ server \in {"none", "built", "listening", "closing", "closed"}
    /\ server \in {"none", "built", "closed"} => work = 0
    /\ main \notin {"recover", "run", "beat", "late"}
    /\ main = "start" => server = "none"
    /\ main = "register" => server = "built"
    /\ main = "bind" => server \in {"built", "closed"}
    /\ main \in {"start", "register"} => hooks = <<"database">>
    /\ hooks # <<"database">> /\ Past => server = "closed"

MainOK ==
  /\ main \in {"start", "recover", "run", "beat", "register", "bind", "late", "interrupted", "waiting",
               "complete", "failed", "result", "end"}
  /\ main = "end" /\ code = 0 => down.state = "done" /\ ~down.failed /\ ~down.timedOut
  /\ exited /\ code = 0 => main = "end"

ProcessInv ==
  /\ kind \in Life /\ beat \in BOOLEAN /\ row \in BOOLEAN /\ scan \in BOOLEAN /\ (beat => row)
  /\ HooksOK /\ DownOK /\ PoolOK /\ CountsOK /\ WorkerOK /\ ServerOK /\ MainOK

LEMMA Orders ==
  /\ Process!HookOrder(<<"database">>) = <<"database">>
  /\ Process!HookOrder(WorkerHooks) = <<"scheduler", "worker", "database">>
  /\ Process!HookOrder(ServerHooks) = <<"fastify", "database">>
  /\ <<"database">> \o <<"worker", "scheduler">> = WorkerHooks
  /\ <<"database">> \o <<"fastify">> = ServerHooks
<1>1. Process!HookOrder(<<"database">>) = <<"database">>
  BY DEF Process!HookOrder, Process!Reverse
<1>2. Process!HookOrder(WorkerHooks) = <<"scheduler", "worker", "database">>
  BY DEF Process!HookOrder, Process!Reverse, WorkerHooks
<1>3. Process!HookOrder(ServerHooks) = <<"fastify", "database">>
  BY DEF Process!HookOrder, Process!Reverse, ServerHooks
<1> DEFINE names == {"database", "worker", "scheduler", "fastify"}
<1>4. <<"database">> \in Seq(names) /\ <<"worker", "scheduler">> \in Seq(names) /\ <<"fastify">> \in Seq(names)
  OBVIOUS
<1>5. <<"database">> \o <<"worker", "scheduler">> = WorkerHooks
  <2> DEFINE s == <<"database">> \o <<"worker", "scheduler">>
  <2>1. s \in Seq(names) /\ Len(s) = 3
    BY <1>4
  <2>2. s[1] = "database" /\ s[2] = "worker" /\ s[3] = "scheduler"
    BY <1>4
  <2> HIDE DEF s
  <2>3. s = WorkerHooks
    BY <2>1, <2>2 DEF WorkerHooks
  <2> QED
    BY <2>3 DEF s
<1>6. <<"database">> \o <<"fastify">> = ServerHooks
  <2> DEFINE s == <<"database">> \o <<"fastify">>
  <2>1. s \in Seq(names) /\ Len(s) = 2
    BY <1>4
  <2>2. s[1] = "database" /\ s[2] = "fastify"
    BY <1>4
  <2> HIDE DEF s
  <2>3. s = ServerHooks
    BY <2>1, <2>2 DEF ServerHooks
  <2> QED
    BY <2>3 DEF s
<1> QED
  BY <1>1, <1>2, <1>3, <1>5, <1>6

LEMMA Tails ==
  /\ Tail(<<"scheduler", "worker", "database">>) = <<"worker", "database">>
  /\ Tail(<<"worker", "database">>) = <<"database">>
  /\ Tail(<<"fastify", "database">>) = <<"database">>
  /\ Tail(<<"database">>) = <<>>
OBVIOUS

LEMMA Registered ==
  /\ WorkerHooks # <<"database">> /\ ServerHooks # <<"database">>
  /\ Process!ToSet(<<"database">>) = {"database"}
  /\ Process!ToSet(WorkerHooks) = {"database", "worker", "scheduler"}
  /\ Process!ToSet(ServerHooks) = {"database", "fastify"}
BY DEF Process!ToSet, WorkerHooks, ServerHooks

(* The shutdown goes on, but for the end of a hook that waits for work.     *)
DownMoves ==
  /\ HooksOK' /\ DownOK' /\ UNCHANGED hooks
  /\ down.state # "none" => /\ down'.state # "none"
                            /\ down.todo \in AfterWork => down'.todo \in AfterWork
  /\ hooks # <<"database">> /\ Past' => Past
  /\ hooks = WorkerHooks /\ Scanning => Scanning'
  /\ down.state = "done" /\ ~down.failed /\ ~down.timedOut => UNCHANGED down

LEMMA DownStays == ProcessInv /\ UNCHANGED <<down, hooks, kind>> => DownMoves
  BY DEF ProcessInv, DownMoves, HooksOK, DownOK, Past, Scanning

LEMMA ShutDownMoves ==
  ASSUME ProcessInv, Process!ShutDown, UNCHANGED <<hooks, kind>>
  PROVE  DownMoves /\ down'.state # "none" /\ (down.state # "none" => UNCHANGED down)
<1>1. CASE Process!IsShuttingDown
  BY <1>1, DownStays DEF Process!ShutDown, Process!IsShuttingDown
<1>2. CASE ~Process!IsShuttingDown
  <2>1. down' = [state |-> "running", todo |-> Process!HookOrder(hooks), failed |-> FALSE, timedOut |-> FALSE]
    BY <1>2 DEF Process!ShutDown, Process!NoShutdown
  <2>2. down.state = "none" /\ HooksOK
    BY <1>2 DEF Process!IsShuttingDown, ProcessInv, DownOK
  <2> QED
    BY <2>1, <2>2, Orders, Registered DEF DownMoves, HooksOK, DownOK, Past, Scanning, Todo, AfterWork
<1> QED
  BY <1>1, <1>2

LEMMA HookEndsMoves ==
  ASSUME ProcessInv, NEW failed \in BOOLEAN, down.todo # <<>>, Process!HookEnds(failed),
         UNCHANGED <<hooks, kind>>
  PROVE  /\ HooksOK' /\ DownOK' /\ down'.state # "none" /\ down.state # "none"
         /\ down'.todo = Tail(down.todo) /\ (~down'.failed <=> ~down.failed /\ ~failed)
         /\ down.todo \in AfterWork \/ failed => DownMoves
<1> USE DEF ProcessInv
<1>1. down \in [state : {"none", "running", "done"}, todo : Todo, failed : BOOLEAN, timedOut : BOOLEAN]
  BY DEF DownOK
<1>2. /\ down'.todo = Tail(down.todo) /\ (~down'.failed <=> ~down.failed /\ ~failed)
      /\ down'.timedOut = down.timedOut
      /\ down'.state = IF Len(down.todo) = 1 /\ ~down.timedOut THEN "done" ELSE down.state
  BY <1>1 DEF Process!HookEnds
<1>3. down' = [state |-> down'.state, todo |-> down'.todo, failed |-> down'.failed, timedOut |-> down'.timedOut]
  BY <1>1 DEF Process!HookEnds
<1>4. down.state # "none" /\ down'.state # "none" /\ down'.state \in {"running", "done"}
  BY <1>1, <1>2 DEF DownOK
<1>5. /\ down.todo \in AfterWork => down'.todo = <<>>
      /\ down'.todo \in AfterWork \cup {<<"worker", "database">>}
      /\ down.todo = <<"worker", "database">> => down'.todo = <<"database">>
      /\ down.todo = <<"fastify", "database">> => down'.todo = <<"database">>
      /\ down'.todo = <<>> <=> Len(down.todo) = 1
      /\ down'.todo = <<"worker", "database">> => down.todo = <<"scheduler", "worker", "database">>
  <2>1. CASE down.todo = <<"database">>
    BY <1>2, <2>1, Tails DEF AfterWork
  <2>2. CASE down.todo = <<"worker", "database">>
    BY <1>2, <2>2, Tails DEF AfterWork
  <2>3. CASE down.todo = <<"fastify", "database">>
    BY <1>2, <2>3, Tails DEF AfterWork
  <2>4. CASE down.todo = <<"scheduler", "worker", "database">>
    BY <1>2, <2>4, Tails DEF AfterWork
  <2>5. \/ down.todo = <<"database">> \/ down.todo = <<"worker", "database">>
        \/ down.todo = <<"fastify", "database">> \/ down.todo = <<"scheduler", "worker", "database">>
    BY <1>1 DEF Todo, AfterWork
  <2> QED
    BY <2>1, <2>2, <2>3, <2>4, <2>5
<1>6. DownOK'
  <2>1. /\ down'.state \in {"none", "running", "done"} /\ down'.todo \in Todo
        /\ down'.failed \in BOOLEAN /\ down'.timedOut \in BOOLEAN
    BY <1>1, <1>2, <1>4, <1>5 DEF Todo, Process!HookEnds
  <2>2. down' \in [state : {"none", "running", "done"}, todo : Todo, failed : BOOLEAN, timedOut : BOOLEAN]
    BY <1>3, <2>1
  <2>3. down'.state = "running" => down'.todo # <<>> /\ ~down'.timedOut
    BY <1>2, <1>5 DEF DownOK
  <2>4. down'.state = "done" => down'.todo = <<>> \/ down'.timedOut
    BY <1>2, <1>5 DEF DownOK
  <2> QED
    BY <1>4, <2>2, <2>3, <2>4 DEF DownOK
<1>7. HooksOK'
  BY <1>1, <1>5 DEF HooksOK, AfterWork, Todo
<1>8. ASSUME down.todo \in AfterWork \/ failed PROVE DownMoves
  <2>1. down.todo \in AfterWork => down'.todo \in AfterWork
    BY <1>5 DEF AfterWork
  <2>2. Past' => Past
    BY <1>2, <1>4, <1>8 DEF Past
  <2>3. Scanning => Scanning'
    BY <1>2, <1>4, <1>5, <1>8 DEF Scanning, AfterWork
  <2>4. ~(down.state = "done" /\ ~down.failed /\ ~down.timedOut)
    BY DEF DownOK
  <2> QED
    BY <1>4, <1>6, <1>7, <2>1, <2>2, <2>3, <2>4 DEF DownMoves
<1> QED
  BY <1>2, <1>4, <1>6, <1>7, <1>8

LEMMA DeadlineMoves == ProcessInv /\ Process!Deadline => DownMoves
  BY DEF ProcessInv, Process!Deadline, Process!process, DownMoves, HooksOK, DownOK, Past, Scanning

LEMMA RecoverKeeps == ProcessInv /\ Process!Recover => ProcessInv'
<1> SUFFICES ASSUME ProcessInv, Process!Recover PROVE ProcessInv'
  OBVIOUS
<1> USE DEF Process!Recover, Process!Step, Process!Goto, Process!process, Process!services
<1>1. DownMoves
  BY DownStays
<1>2. UNCHANGED kind /\ beat' \in BOOLEAN /\ row' \in BOOLEAN /\ scan' \in BOOLEAN /\ (beat' => row')
  BY DEF ProcessInv
<1>3. PoolOK'
  BY <1>1 DEF ProcessInv, PoolOK, DownMoves
<1>4. CountsOK'
  BY <1>1, ServerAssumption DEF ProcessInv, CountsOK
<1>5. WorkerOK'
  BY <1>1 DEF ProcessInv, WorkerOK, DownMoves, MainOK
<1>6. ServerOK'
  BY <1>1 DEF ProcessInv, ServerOK, DownMoves, MainOK
<1>7. MainOK'
  BY <1>1 DEF ProcessInv, MainOK, DownMoves
<1> QED
  BY <1>1, <1>2, <1>3, <1>4, <1>5, <1>6, <1>7 DEF ProcessInv, DownMoves

LEMMA RunWorkerKeeps == ProcessInv /\ Process!RunWorker => ProcessInv'
<1> SUFFICES ASSUME ProcessInv, Process!RunWorker PROVE ProcessInv'
  OBVIOUS
<1> USE DEF Process!RunWorker, Process!Step, Process!Goto, Process!process, Process!services
<1>1. DownMoves
  BY DownStays
<1>2. UNCHANGED kind /\ beat' \in BOOLEAN /\ row' \in BOOLEAN /\ scan' \in BOOLEAN /\ (beat' => row')
  BY DEF ProcessInv
<1>3. PoolOK'
  BY <1>1 DEF ProcessInv, PoolOK, DownMoves
<1>4. CountsOK'
  BY <1>1, ServerAssumption DEF ProcessInv, CountsOK
<1>5. WorkerOK'
  BY <1>1 DEF ProcessInv, WorkerOK, DownMoves, MainOK
<1>6. ServerOK'
  BY <1>1 DEF ProcessInv, ServerOK, DownMoves, MainOK
<1>7. MainOK'
  BY <1>1 DEF ProcessInv, MainOK, DownMoves
<1> QED
  BY <1>1, <1>2, <1>3, <1>4, <1>5, <1>6, <1>7 DEF ProcessInv, DownMoves

LEMMA StartHeartbeatKeeps == ProcessInv /\ Process!StartHeartbeat => ProcessInv'
<1> SUFFICES ASSUME ProcessInv, Process!StartHeartbeat PROVE ProcessInv'
  OBVIOUS
<1> USE DEF Process!StartHeartbeat, Process!Step, Process!Goto, Process!process, Process!services
<1>1. DownMoves
  BY DownStays
<1>2. UNCHANGED kind /\ beat' \in BOOLEAN /\ row' \in BOOLEAN /\ scan' \in BOOLEAN /\ (beat' => row')
  BY DEF ProcessInv
<1>3. PoolOK'
  BY <1>1 DEF ProcessInv, PoolOK, DownMoves
<1>4. CountsOK'
  BY <1>1, ServerAssumption DEF ProcessInv, CountsOK
<1>5. WorkerOK'
  BY <1>1 DEF ProcessInv, WorkerOK, DownMoves, MainOK
<1>6. ServerOK'
  BY <1>1 DEF ProcessInv, ServerOK, DownMoves, MainOK
<1>7. MainOK'
  BY <1>1 DEF ProcessInv, MainOK, DownMoves
<1> QED
  BY <1>1, <1>2, <1>3, <1>4, <1>5, <1>6, <1>7 DEF ProcessInv, DownMoves

LEMMA StoppedKeeps == ProcessInv /\ Process!Stopped => ProcessInv'
<1> SUFFICES ASSUME ProcessInv, Process!Stopped PROVE ProcessInv'
  OBVIOUS
<1> USE DEF Process!Stopped, Process!Step, Process!Goto, Process!process, Process!services
<1>1. DownMoves
  BY DownStays
<1>2. UNCHANGED kind /\ beat' \in BOOLEAN /\ row' \in BOOLEAN /\ scan' \in BOOLEAN /\ (beat' => row')
  BY DEF ProcessInv
<1>3. PoolOK'
  BY <1>1 DEF ProcessInv, PoolOK, DownMoves
<1>4. CountsOK'
  BY <1>1, ServerAssumption DEF ProcessInv, CountsOK
<1>5. WorkerOK'
  BY <1>1 DEF ProcessInv, WorkerOK, DownMoves, MainOK
<1>6. ServerOK'
  BY <1>1 DEF ProcessInv, ServerOK, DownMoves, MainOK
<1>7. MainOK'
  BY <1>1 DEF ProcessInv, MainOK, DownMoves
<1> QED
  BY <1>1, <1>2, <1>3, <1>4, <1>5, <1>6, <1>7 DEF ProcessInv, DownMoves

LEMMA WorkerDiesKeeps == ProcessInv /\ Process!WorkerDies => ProcessInv'
<1> SUFFICES ASSUME ProcessInv, Process!WorkerDies PROVE ProcessInv'
  OBVIOUS
<1> USE DEF Process!WorkerDies, Process!Step, Process!Goto, Process!process, Process!services
<1>1. DownMoves
  BY DownStays
<1>2. UNCHANGED kind /\ beat' \in BOOLEAN /\ row' \in BOOLEAN /\ scan' \in BOOLEAN /\ (beat' => row')
  BY DEF ProcessInv
<1>3. PoolOK'
  BY <1>1 DEF ProcessInv, PoolOK, DownMoves
<1>4. CountsOK'
  BY <1>1, ServerAssumption DEF ProcessInv, CountsOK
<1>5. WorkerOK'
  BY <1>1 DEF ProcessInv, WorkerOK, DownMoves, MainOK
<1>6. ServerOK'
  BY <1>1 DEF ProcessInv, ServerOK, DownMoves, MainOK
<1>7. MainOK'
  BY <1>1 DEF ProcessInv, MainOK, DownMoves
<1> QED
  BY <1>1, <1>2, <1>3, <1>4, <1>5, <1>6, <1>7 DEF ProcessInv, DownMoves

LEMMA BeginKeeps == ProcessInv /\ Process!Begin => ProcessInv'
<1> SUFFICES ASSUME ProcessInv, Process!Begin PROVE ProcessInv'
  OBVIOUS
<1> USE DEF Process!Begin, Process!Step, Process!Goto, Process!IsShuttingDown, Process!process, Process!services
<1>1. DownMoves
  BY DownStays
<1>2. UNCHANGED kind /\ beat' \in BOOLEAN /\ row' \in BOOLEAN /\ scan' \in BOOLEAN /\ (beat' => row')
  BY DEF ProcessInv
<1>3. PoolOK'
  BY <1>1 DEF ProcessInv, PoolOK, DownMoves
<1>4. CountsOK'
  BY <1>1, ServerAssumption DEF ProcessInv, CountsOK
<1>5. WorkerOK'
  BY <1>1 DEF ProcessInv, WorkerOK, DownMoves, MainOK
<1>6. ServerOK'
  BY <1>1 DEF ProcessInv, ServerOK, DownMoves, MainOK
<1>7. MainOK'
  BY <1>1 DEF ProcessInv, MainOK, DownMoves
<1> QED
  BY <1>1, <1>2, <1>3, <1>4, <1>5, <1>6, <1>7 DEF ProcessInv, DownMoves

LEMMA StartFailsKeeps == ProcessInv /\ Process!StartFails => ProcessInv'
<1> SUFFICES ASSUME ProcessInv, Process!StartFails PROVE ProcessInv'
  OBVIOUS
<1> USE DEF Process!StartFails, Process!Goto, Process!process, Process!services
<1>1. DownMoves
  BY DownStays
<1>2. UNCHANGED kind /\ beat' \in BOOLEAN /\ row' \in BOOLEAN /\ scan' \in BOOLEAN /\ (beat' => row')
  BY DEF ProcessInv
<1>3. PoolOK'
  BY <1>1 DEF ProcessInv, PoolOK, DownMoves
<1>4. CountsOK'
  BY <1>1, ServerAssumption DEF ProcessInv, CountsOK
<1>5. WorkerOK'
  BY <1>1 DEF ProcessInv, WorkerOK, DownMoves, MainOK
<1>6. ServerOK'
  BY <1>1 DEF ProcessInv, ServerOK, DownMoves, MainOK
<1>7. MainOK'
  BY <1>1 DEF ProcessInv, MainOK, DownMoves
<1> QED
  BY <1>1, <1>2, <1>3, <1>4, <1>5, <1>6, <1>7 DEF ProcessInv, DownMoves

LEMMA TakeWorkKeeps == ProcessInv /\ Process!TakeWork => ProcessInv'
<1> SUFFICES ASSUME ProcessInv, Process!TakeWork PROVE ProcessInv'
  OBVIOUS
<1> USE DEF Process!TakeWork, Process!process, Process!services
<1>1. DownMoves
  BY DownStays
<1>2. UNCHANGED kind /\ beat' \in BOOLEAN /\ row' \in BOOLEAN /\ scan' \in BOOLEAN /\ (beat' => row')
  BY DEF ProcessInv
<1>3. PoolOK'
  BY <1>1 DEF ProcessInv, PoolOK, DownMoves
<1>4. CountsOK'
  BY <1>1, ServerAssumption DEF ProcessInv, CountsOK
<1>5. WorkerOK'
  BY <1>1 DEF ProcessInv, WorkerOK, DownMoves, MainOK
<1>6. ServerOK'
  BY <1>1 DEF ProcessInv, ServerOK, DownMoves, MainOK
<1>7. MainOK'
  BY <1>1 DEF ProcessInv, MainOK, DownMoves
<1> QED
  BY <1>1, <1>2, <1>3, <1>4, <1>5, <1>6, <1>7 DEF ProcessInv, DownMoves

LEMMA EndWorkKeeps == ProcessInv /\ Process!EndWork => ProcessInv'
<1> SUFFICES ASSUME ProcessInv, Process!EndWork PROVE ProcessInv'
  OBVIOUS
<1> USE DEF Process!EndWork, Process!process, Process!services
<1>1. DownMoves
  BY DownStays
<1>2. UNCHANGED kind /\ beat' \in BOOLEAN /\ row' \in BOOLEAN /\ scan' \in BOOLEAN /\ (beat' => row')
  BY DEF ProcessInv
<1>3. PoolOK'
  BY <1>1 DEF ProcessInv, PoolOK, DownMoves
<1>4. CountsOK'
  BY <1>1, ServerAssumption DEF ProcessInv, CountsOK
<1>5. WorkerOK'
  BY <1>1 DEF ProcessInv, WorkerOK, DownMoves, MainOK
<1>6. ServerOK'
  BY <1>1 DEF ProcessInv, ServerOK, DownMoves, MainOK
<1>7. MainOK'
  BY <1>1 DEF ProcessInv, MainOK, DownMoves
<1> QED
  BY <1>1, <1>2, <1>3, <1>4, <1>5, <1>6, <1>7 DEF ProcessInv, DownMoves

LEMMA EndScanKeeps == ProcessInv /\ Process!EndScan => ProcessInv'
<1> SUFFICES ASSUME ProcessInv, Process!EndScan PROVE ProcessInv'
  OBVIOUS
<1> USE DEF Process!EndScan, Process!process, Process!services
<1>1. DownMoves
  BY DownStays
<1>2. UNCHANGED kind /\ beat' \in BOOLEAN /\ row' \in BOOLEAN /\ scan' \in BOOLEAN /\ (beat' => row')
  BY DEF ProcessInv
<1>3. PoolOK'
  BY <1>1 DEF ProcessInv, PoolOK, DownMoves
<1>4. CountsOK'
  BY <1>1, ServerAssumption DEF ProcessInv, CountsOK
<1>5. WorkerOK'
  BY <1>1 DEF ProcessInv, WorkerOK, DownMoves, MainOK
<1>6. ServerOK'
  BY <1>1 DEF ProcessInv, ServerOK, DownMoves, MainOK
<1>7. MainOK'
  BY <1>1 DEF ProcessInv, MainOK, DownMoves
<1> QED
  BY <1>1, <1>2, <1>3, <1>4, <1>5, <1>6, <1>7 DEF ProcessInv, DownMoves

LEMMA NaturalExitKeeps == ProcessInv /\ Process!NaturalExit => ProcessInv'
<1> SUFFICES ASSUME ProcessInv, Process!NaturalExit PROVE ProcessInv'
  OBVIOUS
<1> USE DEF Process!NaturalExit, Process!Gone, Process!process, Process!services
<1>1. DownMoves
  BY DownStays
<1>2. UNCHANGED kind /\ beat' \in BOOLEAN /\ row' \in BOOLEAN /\ scan' \in BOOLEAN /\ (beat' => row')
  BY DEF ProcessInv
<1>3. PoolOK'
  BY <1>1 DEF ProcessInv, PoolOK, DownMoves
<1>4. CountsOK'
  BY <1>1, ServerAssumption DEF ProcessInv, CountsOK
<1>5. WorkerOK'
  BY <1>1 DEF ProcessInv, WorkerOK, DownMoves, MainOK
<1>6. ServerOK'
  BY <1>1 DEF ProcessInv, ServerOK, DownMoves, MainOK
<1>7. MainOK'
  BY <1>1 DEF ProcessInv, MainOK, DownMoves
<1> QED
  BY <1>1, <1>2, <1>3, <1>4, <1>5, <1>6, <1>7 DEF ProcessInv, DownMoves

LEMMA ForcedExitKeeps == ProcessInv /\ Process!ForcedExit => ProcessInv'
<1> SUFFICES ASSUME ProcessInv, Process!ForcedExit PROVE ProcessInv'
  OBVIOUS
<1> USE DEF Process!ForcedExit, Process!Gone, Process!Failed, Process!process, Process!services
<1>1. DownMoves
  BY DownStays
<1>2. UNCHANGED kind /\ beat' \in BOOLEAN /\ row' \in BOOLEAN /\ scan' \in BOOLEAN /\ (beat' => row')
  BY DEF ProcessInv
<1>3. PoolOK'
  BY <1>1 DEF ProcessInv, PoolOK, DownMoves
<1>4. CountsOK'
  BY <1>1, ServerAssumption DEF ProcessInv, CountsOK
<1>5. WorkerOK'
  BY <1>1 DEF ProcessInv, WorkerOK, DownMoves, MainOK
<1>6. ServerOK'
  BY <1>1 DEF ProcessInv, ServerOK, DownMoves, MainOK
<1>7. MainOK'
  BY <1>1 DEF ProcessInv, MainOK, DownMoves
<1> QED
  BY <1>1, <1>2, <1>3, <1>4, <1>5, <1>6, <1>7 DEF ProcessInv, DownMoves

LEMMA KillKeeps == ProcessInv /\ Process!Kill => ProcessInv'
<1> SUFFICES ASSUME ProcessInv, Process!Kill PROVE ProcessInv'
  OBVIOUS
<1> USE DEF Process!Kill, Process!process, Process!services
<1>1. DownMoves
  BY DownStays
<1>2. UNCHANGED kind /\ beat' \in BOOLEAN /\ row' \in BOOLEAN /\ scan' \in BOOLEAN /\ (beat' => row')
  BY DEF ProcessInv
<1>3. PoolOK'
  BY <1>1 DEF ProcessInv, PoolOK, DownMoves
<1>4. CountsOK'
  BY <1>1, ServerAssumption DEF ProcessInv, CountsOK
<1>5. WorkerOK'
  BY <1>1 DEF ProcessInv, WorkerOK, DownMoves, MainOK
<1>6. ServerOK'
  BY <1>1 DEF ProcessInv, ServerOK, DownMoves, MainOK
<1>7. MainOK'
  BY <1>1 DEF ProcessInv, MainOK, DownMoves
<1> QED
  BY <1>1, <1>2, <1>3, <1>4, <1>5, <1>6, <1>7 DEF ProcessInv, DownMoves

LEMMA ResultKeeps == ProcessInv /\ Process!Result => ProcessInv'
<1> SUFFICES ASSUME ProcessInv, Process!Result PROVE ProcessInv'
  OBVIOUS
<1> USE DEF Process!Result, Process!Step, Process!Goto, Process!Failed, Process!process, Process!services
<1>1. DownMoves
  BY DownStays
<1>2. UNCHANGED kind /\ beat' \in BOOLEAN /\ row' \in BOOLEAN /\ scan' \in BOOLEAN /\ (beat' => row')
  BY DEF ProcessInv
<1>3. PoolOK'
  BY <1>1 DEF ProcessInv, PoolOK, DownMoves
<1>4. CountsOK'
  BY <1>1, ServerAssumption DEF ProcessInv, CountsOK
<1>5. WorkerOK'
  BY <1>1 DEF ProcessInv, WorkerOK, DownMoves, MainOK
<1>6. ServerOK'
  BY <1>1 DEF ProcessInv, ServerOK, DownMoves, MainOK
<1>7. MainOK'
  BY <1>1 DEF ProcessInv, MainOK, DownMoves
<1> QED
  BY <1>1, <1>2, <1>3, <1>4, <1>5, <1>6, <1>7 DEF ProcessInv, DownMoves

LEMMA SignalKeeps == ProcessInv /\ Process!Signal => ProcessInv'
<1> SUFFICES ASSUME ProcessInv, Process!Signal PROVE ProcessInv'
  OBVIOUS
<1> USE DEF Process!Signal, Process!process, Process!services
<1>1. DownMoves /\ (down.state # "none" => UNCHANGED down)
  BY ShutDownMoves
<1>2. UNCHANGED kind /\ beat' \in BOOLEAN /\ row' \in BOOLEAN /\ scan' \in BOOLEAN /\ (beat' => row')
  BY DEF ProcessInv
<1>3. PoolOK'
  BY <1>1 DEF ProcessInv, PoolOK, DownMoves
<1>4. CountsOK'
  BY <1>1, ServerAssumption DEF ProcessInv, CountsOK
<1>5. WorkerOK'
  BY <1>1 DEF ProcessInv, WorkerOK, DownMoves, MainOK
<1>6. ServerOK'
  BY <1>1 DEF ProcessInv, ServerOK, DownMoves, MainOK
<1>7. MainOK'
  BY <1>1 DEF ProcessInv, MainOK, DownMoves
<1> QED
  BY <1>1, <1>2, <1>3, <1>4, <1>5, <1>6, <1>7 DEF ProcessInv, DownMoves

LEMMA UncaughtKeeps == ProcessInv /\ Process!Uncaught => ProcessInv'
<1> SUFFICES ASSUME ProcessInv, Process!Uncaught PROVE ProcessInv'
  OBVIOUS
<1> USE DEF Process!Uncaught, Process!process, Process!services
<1>1. DownMoves /\ (down.state # "none" => UNCHANGED down)
  BY ShutDownMoves
<1>2. UNCHANGED kind /\ beat' \in BOOLEAN /\ row' \in BOOLEAN /\ scan' \in BOOLEAN /\ (beat' => row')
  BY DEF ProcessInv
<1>3. PoolOK'
  BY <1>1 DEF ProcessInv, PoolOK, DownMoves
<1>4. CountsOK'
  BY <1>1, ServerAssumption DEF ProcessInv, CountsOK
<1>5. WorkerOK'
  BY <1>1 DEF ProcessInv, WorkerOK, DownMoves, MainOK
<1>6. ServerOK'
  BY <1>1 DEF ProcessInv, ServerOK, DownMoves, MainOK
<1>7. MainOK'
  BY <1>1 DEF ProcessInv, MainOK, DownMoves
<1> QED
  BY <1>1, <1>2, <1>3, <1>4, <1>5, <1>6, <1>7 DEF ProcessInv, DownMoves

LEMMA AwaitShutdownKeeps == ProcessInv /\ Process!AwaitShutdown => ProcessInv'
<1> SUFFICES ASSUME ProcessInv, Process!AwaitShutdown PROVE ProcessInv'
  OBVIOUS
<1> USE DEF Process!AwaitShutdown, Process!Goto, Process!process, Process!services
<1>1. DownMoves /\ (down.state # "none" => UNCHANGED down)
  BY ShutDownMoves
<1>2. UNCHANGED kind /\ beat' \in BOOLEAN /\ row' \in BOOLEAN /\ scan' \in BOOLEAN /\ (beat' => row')
  BY DEF ProcessInv
<1>3. PoolOK'
  BY <1>1 DEF ProcessInv, PoolOK, DownMoves
<1>4. CountsOK'
  BY <1>1, ServerAssumption DEF ProcessInv, CountsOK
<1>5. WorkerOK'
  BY <1>1 DEF ProcessInv, WorkerOK, DownMoves, MainOK
<1>6. ServerOK'
  BY <1>1 DEF ProcessInv, ServerOK, DownMoves, MainOK
<1>7. MainOK'
  BY <1>1 DEF ProcessInv, MainOK, DownMoves
<1> QED
  BY <1>1, <1>2, <1>3, <1>4, <1>5, <1>6, <1>7 DEF ProcessInv, DownMoves

LEMMA CatchKeeps == ProcessInv /\ Process!Catch => ProcessInv'
<1> SUFFICES ASSUME ProcessInv, Process!Catch PROVE ProcessInv'
  OBVIOUS
<1> USE DEF Process!Catch, Process!Step, Process!Goto, Process!IsShuttingDown, Process!process, Process!services
<1>1. DownMoves /\ (down.state # "none" => UNCHANGED down)
  BY ShutDownMoves, DownStays DEF Process!IsShuttingDown
<1>2. UNCHANGED kind /\ beat' \in BOOLEAN /\ row' \in BOOLEAN /\ scan' \in BOOLEAN /\ (beat' => row')
  BY DEF ProcessInv
<1>3. PoolOK'
  BY <1>1 DEF ProcessInv, PoolOK, DownMoves
<1>4. CountsOK'
  BY <1>1, ServerAssumption DEF ProcessInv, CountsOK
<1>5. WorkerOK'
  BY <1>1 DEF ProcessInv, WorkerOK, DownMoves, MainOK
<1>6. ServerOK'
  BY <1>1 DEF ProcessInv, ServerOK, DownMoves, MainOK
<1>7. MainOK'
  BY <1>1 DEF ProcessInv, MainOK, DownMoves
<1> QED
  BY <1>1, <1>2, <1>3, <1>4, <1>5, <1>6, <1>7 DEF ProcessInv, DownMoves

LEMMA DeadlineKeeps == ProcessInv /\ Process!Deadline => ProcessInv'
<1> SUFFICES ASSUME ProcessInv, Process!Deadline PROVE ProcessInv'
  OBVIOUS
<1> USE DEF Process!Deadline, Process!process, Process!services
<1>1. DownMoves
  BY DeadlineMoves
<1>2. UNCHANGED kind /\ beat' \in BOOLEAN /\ row' \in BOOLEAN /\ scan' \in BOOLEAN /\ (beat' => row')
  BY DEF ProcessInv
<1>3. PoolOK'
  BY <1>1 DEF ProcessInv, PoolOK, DownMoves
<1>4. CountsOK'
  BY <1>1, ServerAssumption DEF ProcessInv, CountsOK
<1>5. WorkerOK'
  BY <1>1 DEF ProcessInv, WorkerOK, DownMoves, MainOK
<1>6. ServerOK'
  BY <1>1 DEF ProcessInv, ServerOK, DownMoves, MainOK
<1>7. MainOK'
  BY <1>1 DEF ProcessInv, MainOK, DownMoves
<1> QED
  BY <1>1, <1>2, <1>3, <1>4, <1>5, <1>6, <1>7 DEF ProcessInv, DownMoves

LEMMA HookFailsKeeps == ProcessInv /\ Process!HookFails => ProcessInv'
<1> SUFFICES ASSUME ProcessInv, Process!HookFails PROVE ProcessInv'
  OBVIOUS
<1> USE DEF Process!HookFails, Process!process, Process!services
<1>1. DownMoves
  BY HookEndsMoves
<1>2. UNCHANGED kind /\ beat' \in BOOLEAN /\ row' \in BOOLEAN /\ scan' \in BOOLEAN /\ (beat' => row')
  BY DEF ProcessInv
<1>3. PoolOK'
  BY <1>1 DEF ProcessInv, PoolOK, DownMoves
<1>4. CountsOK'
  BY <1>1, ServerAssumption DEF ProcessInv, CountsOK
<1>5. WorkerOK'
  BY <1>1 DEF ProcessInv, WorkerOK, DownMoves, MainOK
<1>6. ServerOK'
  BY <1>1 DEF ProcessInv, ServerOK, DownMoves, MainOK
<1>7. MainOK'
  BY <1>1 DEF ProcessInv, MainOK, DownMoves
<1> QED
  BY <1>1, <1>2, <1>3, <1>4, <1>5, <1>6, <1>7 DEF ProcessInv, DownMoves

LEMMA ListenKeeps == ProcessInv /\ Process!Listen => ProcessInv'
<1> SUFFICES ASSUME ProcessInv, Process!Listen PROVE ProcessInv'
  OBVIOUS
<1> USE DEF Process!Listen, Process!Step, Process!Goto, Process!IsShuttingDown, Process!process, Process!services
<1>1. DownMoves
  BY DownStays
<1>2. UNCHANGED kind /\ beat' \in BOOLEAN /\ row' \in BOOLEAN /\ scan' \in BOOLEAN /\ (beat' => row')
  BY DEF ProcessInv
<1>3. PoolOK'
  BY <1>1 DEF ProcessInv, PoolOK, DownMoves
<1>4. CountsOK'
  BY <1>1, ServerAssumption DEF ProcessInv, CountsOK
<1>5. WorkerOK'
  BY <1>1 DEF ProcessInv, WorkerOK, DownMoves, MainOK, Past, Scanning
<1>6. ServerOK'
  BY <1>1 DEF ProcessInv, ServerOK, DownMoves, MainOK, Past, Scanning
<1>7. MainOK'
  BY <1>1 DEF ProcessInv, MainOK, DownMoves
<1> QED
  BY <1>1, <1>2, <1>3, <1>4, <1>5, <1>6, <1>7 DEF ProcessInv, DownMoves

LEMMA StartScanKeeps == ProcessInv /\ Process!StartScan => ProcessInv'
<1> SUFFICES ASSUME ProcessInv, Process!StartScan PROVE ProcessInv'
  OBVIOUS
<1> USE DEF Process!StartScan, Process!IsShuttingDown, Process!process, Process!services
<1>1. DownMoves /\ hooks = WorkerHooks /\ hooks # <<"database">> /\ kind = "worker"
  BY DownStays, Registered DEF ProcessInv, HooksOK
<1>2. UNCHANGED kind /\ beat' \in BOOLEAN /\ row' \in BOOLEAN /\ scan' \in BOOLEAN /\ (beat' => row')
  BY DEF ProcessInv
<1>3. PoolOK'
  BY <1>1 DEF ProcessInv, PoolOK, DownMoves
<1>4. CountsOK'
  BY <1>1, ServerAssumption DEF ProcessInv, CountsOK
<1>5. WorkerOK'
  BY <1>1 DEF ProcessInv, WorkerOK, DownMoves, MainOK, Past, Scanning
<1>6. ServerOK'
  BY <1>1 DEF ProcessInv, ServerOK, DownMoves, MainOK, Past, Scanning
<1>7. MainOK'
  BY <1>1 DEF ProcessInv, MainOK, DownMoves
<1> QED
  BY <1>1, <1>2, <1>3, <1>4, <1>5, <1>6, <1>7 DEF ProcessInv, DownMoves

LEMMA StopLateWorkerKeeps == ProcessInv /\ Process!StopLateWorker => ProcessInv'
<1> SUFFICES ASSUME ProcessInv, Process!StopLateWorker PROVE ProcessInv'
  OBVIOUS
<1> USE DEF Process!StopLateWorker, Process!process, Process!services
<1>1. DownMoves /\ hooks = <<"database">> /\ kind = "worker"
  BY DownStays, Registered DEF ProcessInv, HooksOK, WorkerOK
<1>2. UNCHANGED kind /\ beat' \in BOOLEAN /\ row' \in BOOLEAN /\ scan' \in BOOLEAN /\ (beat' => row')
  BY DEF ProcessInv
<1>3. PoolOK'
  BY <1>1 DEF ProcessInv, PoolOK, DownMoves
<1>4. CountsOK'
  BY <1>1, ServerAssumption DEF ProcessInv, CountsOK
<1>5. WorkerOK'
  BY <1>1 DEF ProcessInv, WorkerOK, DownMoves, MainOK
<1>6. ServerOK'
  BY <1>1 DEF ProcessInv, ServerOK, DownMoves, MainOK
<1>7. MainOK'
  BY <1>1 DEF ProcessInv, MainOK, DownMoves
<1> QED
  BY <1>1, <1>2, <1>3, <1>4, <1>5, <1>6, <1>7 DEF ProcessInv, DownMoves

LEMMA Heads ==
  ASSUME ProcessInv, down.todo # <<>>
  PROVE  /\ Head(down.todo) = "database" => down.todo = <<"database">> /\ down.todo \in AfterWork
         /\ Head(down.todo) = "worker" => down.todo = <<"worker", "database">> /\ kind = "worker"
                                          /\ hooks = WorkerHooks
         /\ Head(down.todo) = "scheduler" => down.todo = <<"scheduler", "worker", "database">>
                                             /\ kind = "worker" /\ hooks = WorkerHooks
         /\ Head(down.todo) = "fastify" => down.todo = <<"fastify", "database">> /\ kind = "api"
                                           /\ hooks = ServerHooks
BY DEF ProcessInv, HooksOK, AfterWork

(* The end of the hooks that wait for work. *)
LEMMA HookDone ==
  ASSUME ProcessInv, NEW name \in {"scheduler", "worker", "fastify"}, Process!Hook(name), Process!HookEnds(FALSE),
         UNCHANGED <<hooks, kind>>
  PROVE  /\ HooksOK' /\ DownOK' /\ down'.state # "none" /\ down.state # "none" /\ ~exited
         /\ down.todo \notin AfterWork /\ hooks # <<"database">>
         /\ (down.todo = <<"scheduler", "worker", "database">> <=> name = "scheduler")
         /\ (~down'.failed <=> ~down.failed)
         /\ ~(down.state = "done" /\ ~down.failed /\ ~down.timedOut)
         /\ down'.todo = IF name = "scheduler" THEN <<"worker", "database">> ELSE <<"database">>
         /\ kind = IF name = "fastify" THEN "api" ELSE "worker"
         /\ hooks = IF name = "fastify" THEN ServerHooks ELSE WorkerHooks
<1>1. down.todo # <<>> /\ Head(down.todo) = name /\ ~exited
  BY DEF Process!Hook
<1>2. /\ HooksOK' /\ DownOK' /\ down'.state # "none" /\ down.state # "none"
      /\ down'.todo = Tail(down.todo) /\ (~down'.failed <=> ~down.failed)
  BY <1>1, HookEndsMoves
<1>3. ~(down.state = "done" /\ ~down.failed /\ ~down.timedOut)
  BY <1>1 DEF ProcessInv, DownOK
<1>4. CASE name = "scheduler"
  <2>1. down.todo = <<"scheduler", "worker", "database">> /\ kind = "worker" /\ hooks = WorkerHooks
    BY <1>1, <1>4, Heads
  <2>2. down'.todo = <<"worker", "database">>
    BY <1>2, <2>1, Tails
  <2>3. down.todo \notin AfterWork /\ hooks # <<"database">>
        /\ (down.todo = <<"scheduler", "worker", "database">> <=> name = "scheduler")
    BY <1>4, <2>1, Registered DEF AfterWork
  <2> QED
    BY <1>1, <1>2, <1>3, <1>4, <2>1, <2>2, <2>3
<1>5. CASE name = "worker"
  <2>1. down.todo = <<"worker", "database">> /\ kind = "worker" /\ hooks = WorkerHooks
    BY <1>1, <1>5, Heads
  <2>2. down'.todo = <<"database">>
    BY <1>2, <2>1, Tails
  <2>3. down.todo \notin AfterWork /\ hooks # <<"database">>
        /\ (down.todo = <<"scheduler", "worker", "database">> <=> name = "scheduler")
    BY <1>5, <2>1, Registered DEF AfterWork
  <2> QED
    BY <1>1, <1>2, <1>3, <1>5, <2>1, <2>2, <2>3
<1>6. CASE name = "fastify"
  <2>1. down.todo = <<"fastify", "database">> /\ kind = "api" /\ hooks = ServerHooks
    BY <1>1, <1>6, Heads
  <2>2. down'.todo = <<"database">>
    BY <1>2, <2>1, Tails
  <2>3. down.todo \notin AfterWork /\ hooks # <<"database">>
        /\ (down.todo = <<"scheduler", "worker", "database">> <=> name = "scheduler")
    BY <1>6, <2>1, Registered DEF AfterWork
  <2> QED
    BY <1>1, <1>2, <1>3, <1>6, <2>1, <2>2, <2>3
<1> QED
  BY <1>4, <1>5, <1>6

LEMMA StopSchedulerKeeps == ProcessInv /\ Process!StopScheduler => ProcessInv'
<1> SUFFICES ASSUME ProcessInv, Process!StopScheduler PROVE ProcessInv'
  OBVIOUS
<1> USE DEF Process!StopScheduler, Process!process, Process!services
<1>1. UNCHANGED <<kind, hooks, exited, main, code, lost, pool>> /\ beat' \in BOOLEAN /\ row' \in BOOLEAN
      /\ scan' \in BOOLEAN /\ (beat' => row')
  BY DEF ProcessInv
<1>2. Process!Hook("scheduler") /\ Process!HookEnds(FALSE)
  OBVIOUS
<1>3. /\ HooksOK' /\ DownOK' /\ down'.state # "none" /\ down.state # "none" /\ ~exited
      /\ (~down'.failed <=> ~down.failed) /\ ~(down.state = "done" /\ ~down.failed /\ ~down.timedOut)
      /\ down'.todo = <<"worker", "database">> /\ kind = "worker" /\ hooks = WorkerHooks
      /\ down.todo \notin AfterWork
  BY <1>1, <1>2, HookDone
<1>4. PoolOK'
  BY <1>1, <1>3 DEF ProcessInv, PoolOK
<1>5. CountsOK'
  BY <1>1, <1>3, ServerAssumption DEF ProcessInv, CountsOK
<1>6. WorkerOK'
  BY <1>1, <1>3 DEF ProcessInv, WorkerOK, MainOK, Past, Scanning, AfterWork
<1>7. ServerOK'
  BY <1>1, <1>3 DEF ProcessInv, ServerOK, MainOK, Past, AfterWork
<1>8. MainOK'
  BY <1>1, <1>3 DEF ProcessInv, MainOK
<1> QED
  BY <1>1, <1>3, <1>4, <1>5, <1>6, <1>7, <1>8 DEF ProcessInv

LEMMA StopWorkerKeeps == ProcessInv /\ Process!StopWorker => ProcessInv'
<1> SUFFICES ASSUME ProcessInv, Process!StopWorker PROVE ProcessInv'
  OBVIOUS
<1> USE DEF Process!StopWorker, Process!process, Process!services
<1>1. UNCHANGED <<kind, hooks, exited, main, code, lost, pool>> /\ beat' \in BOOLEAN /\ row' \in BOOLEAN
      /\ scan' \in BOOLEAN /\ (beat' => row')
  BY DEF ProcessInv
<1>2. CASE worker = "running"
  <2>1. DownMoves
    BY <1>1, <1>2, DownStays
  <2>2. kind = "worker" /\ hooks # <<"database">> /\ down.todo # <<>> /\ down.todo \notin AfterWork
    BY Heads, Registered DEF Process!Hook, AfterWork
  <2>3. PoolOK'
    BY <1>1, <1>2, <2>1, <2>2 DEF ProcessInv, DownMoves, PoolOK
  <2>4. CountsOK'
    BY <1>1, <1>2, <2>1, <2>2, ServerAssumption DEF ProcessInv, DownMoves, CountsOK
  <2>5. WorkerOK'
    BY <1>1, <1>2, <2>1, <2>2 DEF ProcessInv, DownMoves, WorkerOK, MainOK, Past, Scanning, AfterWork
  <2>6. ServerOK'
    BY <1>1, <1>2, <2>1, <2>2 DEF ProcessInv, DownMoves, ServerOK, MainOK, Past, AfterWork
  <2>7. MainOK'
    BY <1>1, <1>2, <2>1, <2>2 DEF ProcessInv, DownMoves, MainOK
  <2> QED
    BY <1>1, <2>1, <2>3, <2>4, <2>5, <2>6, <2>7 DEF ProcessInv, DownMoves
<1>3. CASE ~(worker = "running")
  <2>1. Process!Hook("worker") /\ Process!HookEnds(FALSE)
    BY <1>3
  <2>2. /\ HooksOK' /\ DownOK' /\ down'.state # "none" /\ down.state # "none" /\ ~exited
        /\ (~down'.failed <=> ~down.failed) /\ ~(down.state = "done" /\ ~down.failed /\ ~down.timedOut)
        /\ down'.todo = <<"database">> /\ kind = "worker" /\ hooks = WorkerHooks
        /\ down.todo \notin AfterWork /\ hooks # <<"database">>
        /\ down.todo # <<"scheduler", "worker", "database">>
    BY <1>1, <2>1, HookDone
  <2>3. PoolOK'
    BY <1>1, <1>3, <2>2 DEF ProcessInv, PoolOK
  <2>4. CountsOK'
    BY <1>1, <1>3, <2>2, ServerAssumption DEF ProcessInv, CountsOK
  <2>5. WorkerOK'
    BY <1>1, <1>3, <2>2 DEF ProcessInv, WorkerOK, MainOK, Past, Scanning, AfterWork
  <2>6. ServerOK'
    BY <1>1, <1>3, <2>2 DEF ProcessInv, ServerOK, MainOK, Past, AfterWork
  <2>7. MainOK'
    BY <1>1, <1>3, <2>2 DEF ProcessInv, MainOK
  <2> QED
    BY <1>1, <2>2, <2>3, <2>4, <2>5, <2>6, <2>7 DEF ProcessInv
<1> QED
  BY <1>2, <1>3

LEMMA CloseServerKeeps == ProcessInv /\ Process!CloseServer => ProcessInv'
<1> SUFFICES ASSUME ProcessInv, Process!CloseServer PROVE ProcessInv'
  OBVIOUS
<1> USE DEF Process!CloseServer, Process!process, Process!services
<1>1. UNCHANGED <<kind, hooks, exited, main, code, lost, pool>> /\ beat' \in BOOLEAN /\ row' \in BOOLEAN
      /\ scan' \in BOOLEAN /\ (beat' => row')
  BY DEF ProcessInv
<1>2. CASE server \in {"built", "listening"}
  <2>1. DownMoves
    BY <1>1, <1>2, DownStays
  <2>2. kind = "api" /\ hooks # <<"database">> /\ down.todo # <<>> /\ down.todo \notin AfterWork
    BY Heads, Registered DEF Process!Hook, AfterWork
  <2>3. PoolOK'
    BY <1>1, <1>2, <2>1, <2>2 DEF ProcessInv, DownMoves, PoolOK
  <2>4. CountsOK'
    BY <1>1, <1>2, <2>1, <2>2, ServerAssumption DEF ProcessInv, DownMoves, CountsOK
  <2>5. WorkerOK'
    BY <1>1, <1>2, <2>1, <2>2 DEF ProcessInv, DownMoves, WorkerOK, MainOK, Past, Scanning, AfterWork
  <2>6. ServerOK'
    BY <1>1, <1>2, <2>1, <2>2 DEF ProcessInv, DownMoves, ServerOK, MainOK, Past, AfterWork
  <2>7. MainOK'
    BY <1>1, <1>2, <2>1, <2>2 DEF ProcessInv, DownMoves, MainOK
  <2> QED
    BY <1>1, <2>1, <2>3, <2>4, <2>5, <2>6, <2>7 DEF ProcessInv, DownMoves
<1>3. CASE ~(server \in {"built", "listening"})
  <2>1. Process!Hook("fastify") /\ Process!HookEnds(FALSE)
    BY <1>3
  <2>2. /\ HooksOK' /\ DownOK' /\ down'.state # "none" /\ down.state # "none" /\ ~exited
        /\ (~down'.failed <=> ~down.failed) /\ ~(down.state = "done" /\ ~down.failed /\ ~down.timedOut)
        /\ down'.todo = <<"database">> /\ kind = "api" /\ hooks = ServerHooks
        /\ down.todo \notin AfterWork /\ hooks # <<"database">>
        /\ down.todo # <<"scheduler", "worker", "database">>
    BY <1>1, <2>1, HookDone
  <2>3. PoolOK'
    BY <1>1, <1>3, <2>2 DEF ProcessInv, PoolOK
  <2>4. CountsOK'
    BY <1>1, <1>3, <2>2, ServerAssumption DEF ProcessInv, CountsOK
  <2>5. WorkerOK'
    BY <1>1, <1>3, <2>2 DEF ProcessInv, WorkerOK, MainOK, Past, Scanning, AfterWork
  <2>6. ServerOK'
    BY <1>1, <1>3, <2>2 DEF ProcessInv, ServerOK, MainOK, Past, AfterWork
  <2>7. MainOK'
    BY <1>1, <1>3, <2>2 DEF ProcessInv, MainOK
  <2> QED
    BY <1>1, <2>2, <2>3, <2>4, <2>5, <2>6, <2>7 DEF ProcessInv
<1> QED
  BY <1>2, <1>3

LEMMA DestroyPoolKeeps == ProcessInv /\ Process!DestroyPool => ProcessInv'
<1> SUFFICES ASSUME ProcessInv, Process!DestroyPool PROVE ProcessInv'
  OBVIOUS
<1> USE DEF Process!DestroyPool, Process!process, Process!services
<1>1. DownMoves /\ down.todo \in AfterWork /\ down.state # "none"
  <2>1. down.todo # <<>> /\ down.todo \in AfterWork /\ down.state # "none"
    BY Heads DEF Process!Hook, ProcessInv, DownOK
  <2>2. CASE pool = "open"
    BY <2>1, <2>2, DownStays
  <2>3. CASE pool # "open"
    BY <2>1, <2>3, HookEndsMoves
  <2> QED
    BY <2>1, <2>2, <2>3
<1>2. UNCHANGED kind /\ beat' \in BOOLEAN /\ row' \in BOOLEAN /\ scan' \in BOOLEAN /\ (beat' => row')
  BY DEF ProcessInv
<1>3. PoolOK'
  BY <1>1 DEF ProcessInv, PoolOK, DownMoves
<1>4. CountsOK'
  BY <1>1, ServerAssumption DEF ProcessInv, CountsOK
<1>5. WorkerOK'
  BY <1>1 DEF ProcessInv, WorkerOK, DownMoves, MainOK
<1>6. ServerOK'
  BY <1>1 DEF ProcessInv, ServerOK, DownMoves, MainOK
<1>7. MainOK'
  BY <1>1 DEF ProcessInv, MainOK, DownMoves
<1> QED
  BY <1>1, <1>2, <1>3, <1>4, <1>5, <1>6, <1>7 DEF ProcessInv, DownMoves

LEMMA RegisterWorkerKeeps == ProcessInv /\ Process!RegisterWorker => ProcessInv'
<1> SUFFICES ASSUME ProcessInv, Process!RegisterWorker PROVE ProcessInv'
  OBVIOUS
<1> USE DEF Process!RegisterWorker, Process!process, Process!services, Process!Step, Process!Goto
<1>1. UNCHANGED <<kind, exited, code, lost, pool, down, scan, beat, row>> /\ kind = "worker" /\ beat' \in BOOLEAN
      /\ row' \in BOOLEAN /\ scan' \in BOOLEAN /\ (beat' => row')
  BY DEF ProcessInv
<1>2. CASE Process!IsShuttingDown
  <2>1. DownMoves
    BY <1>1, <1>2, DownStays
  <2>2. PoolOK'
    BY <1>1, <1>2, <2>1 DEF ProcessInv, DownMoves, PoolOK
  <2>3. CountsOK'
    BY <1>1, <1>2, <2>1, ServerAssumption DEF ProcessInv, DownMoves, CountsOK
  <2>4. WorkerOK'
    BY <1>1, <1>2, <2>1 DEF ProcessInv, DownMoves, WorkerOK, MainOK, Past, Scanning, AfterWork
  <2>5. ServerOK'
    BY <1>1, <1>2, <2>1 DEF ProcessInv, DownMoves, ServerOK, MainOK, Past, AfterWork
  <2>6. MainOK'
    BY <1>1, <1>2, <2>1 DEF ProcessInv, DownMoves, MainOK
  <2> QED
    BY <1>1, <2>1, <2>2, <2>3, <2>4, <2>5, <2>6 DEF ProcessInv, DownMoves
<1>3. CASE ~Process!IsShuttingDown
  <2>1. hooks = <<"database">> /\ hooks' = WorkerHooks
    BY <1>1, <1>3, Orders DEF ProcessInv, WorkerOK, ServerOK, Process!AddHooks
  <2>2. down.state = "none" /\ down.todo = <<>>
    BY <1>3 DEF ProcessInv, DownOK, Process!IsShuttingDown
  <2>3. HooksOK' /\ DownOK'
    BY <1>1, <2>1, <2>2 DEF ProcessInv, HooksOK, DownOK, AfterWork
  <2>4. PoolOK'
    BY <1>1, <1>3, <2>1, <2>2 DEF ProcessInv, PoolOK
  <2>5. CountsOK'
    BY <1>1, <1>3, <2>1, <2>2, ServerAssumption DEF ProcessInv, CountsOK
  <2>6. WorkerOK'
    BY <1>1, <1>3, <2>1, <2>2 DEF ProcessInv, WorkerOK, MainOK, Past, Scanning, AfterWork
  <2>7. ServerOK'
    BY <1>1, <1>3, <2>1, <2>2 DEF ProcessInv, ServerOK, MainOK, Past, AfterWork
  <2>8. MainOK'
    BY <1>1, <1>3, <2>1, <2>2 DEF ProcessInv, MainOK
  <2> QED
    BY <1>1, <2>3, <2>4, <2>5, <2>6, <2>7, <2>8 DEF ProcessInv
<1> QED
  BY <1>2, <1>3

LEMMA RegisterServerKeeps == ProcessInv /\ Process!RegisterServer => ProcessInv'
<1> SUFFICES ASSUME ProcessInv, Process!RegisterServer PROVE ProcessInv'
  OBVIOUS
<1> USE DEF Process!RegisterServer, Process!process, Process!services, Process!Step, Process!Goto
<1>1. UNCHANGED <<kind, exited, code, lost, pool, down, scan, beat, row>> /\ kind = "api" /\ beat' \in BOOLEAN
      /\ row' \in BOOLEAN /\ scan' \in BOOLEAN /\ (beat' => row')
  BY DEF ProcessInv
<1>2. CASE Process!IsShuttingDown
  <2>1. DownMoves
    BY <1>1, <1>2, DownStays
  <2>2. PoolOK'
    BY <1>1, <1>2, <2>1 DEF ProcessInv, DownMoves, PoolOK
  <2>3. CountsOK'
    BY <1>1, <1>2, <2>1, ServerAssumption DEF ProcessInv, DownMoves, CountsOK
  <2>4. WorkerOK'
    BY <1>1, <1>2, <2>1 DEF ProcessInv, DownMoves, WorkerOK, MainOK, Past, Scanning, AfterWork
  <2>5. ServerOK'
    BY <1>1, <1>2, <2>1 DEF ProcessInv, DownMoves, ServerOK, MainOK, Past, AfterWork
  <2>6. MainOK'
    BY <1>1, <1>2, <2>1 DEF ProcessInv, DownMoves, MainOK
  <2> QED
    BY <1>1, <2>1, <2>2, <2>3, <2>4, <2>5, <2>6 DEF ProcessInv, DownMoves
<1>3. CASE ~Process!IsShuttingDown
  <2>1. hooks = <<"database">> /\ hooks' = ServerHooks
    BY <1>1, <1>3, Orders DEF ProcessInv, WorkerOK, ServerOK, Process!AddHooks
  <2>2. down.state = "none" /\ down.todo = <<>>
    BY <1>3 DEF ProcessInv, DownOK, Process!IsShuttingDown
  <2>3. HooksOK' /\ DownOK'
    BY <1>1, <2>1, <2>2 DEF ProcessInv, HooksOK, DownOK, AfterWork
  <2>4. PoolOK'
    BY <1>1, <1>3, <2>1, <2>2 DEF ProcessInv, PoolOK
  <2>5. CountsOK'
    BY <1>1, <1>3, <2>1, <2>2, ServerAssumption DEF ProcessInv, CountsOK
  <2>6. WorkerOK'
    BY <1>1, <1>3, <2>1, <2>2 DEF ProcessInv, WorkerOK, MainOK, Past, Scanning, AfterWork
  <2>7. ServerOK'
    BY <1>1, <1>3, <2>1, <2>2 DEF ProcessInv, ServerOK, MainOK, Past, AfterWork
  <2>8. MainOK'
    BY <1>1, <1>3, <2>1, <2>2 DEF ProcessInv, MainOK
  <2> QED
    BY <1>1, <2>3, <2>4, <2>5, <2>6, <2>7, <2>8 DEF ProcessInv
<1> QED
  BY <1>2, <1>3

LEMMA ProcessInit == Process!Init => ProcessInv
<1> SUFFICES ASSUME Process!Init PROVE ProcessInv
  OBVIOUS
<1> USE DEF Process!Init
<1>1. DownOK /\ down.todo = <<>> /\ down.state = "none"
  BY DEF Process!NoShutdown, DownOK, Todo, AfterWork
<1>2. HooksOK
  BY <1>1 DEF HooksOK, AfterWork
<1>3. PoolOK /\ CountsOK /\ MainOK
  BY ServerAssumption DEF PoolOK, CountsOK, MainOK
<1>4. WorkerOK /\ ServerOK
  BY <1>1 DEF WorkerOK, ServerOK, Past
<1> QED
  BY <1>1, <1>2, <1>3, <1>4 DEF ProcessInv

LEMMA ProcessNext == ProcessInv /\ [Process!Next]_pvars => ProcessInv'
<1> SUFFICES ASSUME ProcessInv, [Process!Next]_pvars PROVE ProcessInv'
  OBVIOUS
<1>1. CASE UNCHANGED pvars
  BY <1>1 DEF pvars, ProcessInv, HooksOK, DownOK, PoolOK, CountsOK, WorkerOK, ServerOK, MainOK, Past, Scanning
<1>2. CASE Process!Start
  BY <1>2, BeginKeeps, RecoverKeeps, RunWorkerKeeps, StartHeartbeatKeeps, RegisterWorkerKeeps, StopLateWorkerKeeps,
     RegisterServerKeeps, ListenKeeps DEF Process!Start
<1>3. CASE Process!Run
  BY <1>3, StoppedKeeps, CatchKeeps, AwaitShutdownKeeps, ResultKeeps, ForcedExitKeeps, NaturalExitKeeps
     DEF Process!Run
<1>4. CASE Process!Hooks
  BY <1>4, StopSchedulerKeeps, StopWorkerKeeps, CloseServerKeeps, DestroyPoolKeeps DEF Process!Hooks
<1> QED
  BY <1>1, <1>2, <1>3, <1>4, StartFailsKeeps, SignalKeeps, UncaughtKeeps, KillKeeps, DeadlineKeeps, HookFailsKeeps,
     WorkerDiesKeeps, TakeWorkKeeps, EndWorkKeeps, StartScanKeeps, EndScanKeeps DEF Process!Next

LEMMA InvIsOrderly == ProcessInv => ShutdownIsOrderly
<1> SUFFICES ASSUME ProcessInv PROVE ShutdownIsOrderly
  OBVIOUS
<1>1. Process!TypeOK
  <2>1. hooks \in Seq({"database", "worker", "scheduler", "fastify"})
    <3> DEFINE S == {"database", "worker", "scheduler", "fastify"}
    <3>1. <<"database">> \in Seq(S) /\ WorkerHooks \in Seq(S) /\ ServerHooks \in Seq(S)
      BY DEF WorkerHooks, ServerHooks
    <3>2. \/ hooks = <<"database">> \/ hooks = WorkerHooks \/ hooks = ServerHooks
      BY DEF ProcessInv, HooksOK
    <3> QED
      BY <3>1, <3>2
  <2>2. down.todo # <<>> => down.state = "running" \/ down.timedOut
    BY DEF ProcessInv, DownOK
  <2>3. kind \in {"worker", "api"}
    BY ServerAssumption DEF ProcessInv
  <2>4. worker \in {"none", "running", "stopping", "stopped"}
        /\ server \in {"none", "built", "listening", "closing", "closed"}
    BY <2>3 DEF ProcessInv, WorkerOK, ServerOK
  <2>5. lost \in 0..(MaxWork + MaxErrors)
    BY ServerAssumption DEF ProcessInv, CountsOK
  <2> QED
    BY <2>1, <2>2, <2>4, <2>5 DEF ProcessInv, DownOK, PoolOK, CountsOK, MainOK, Process!TypeOK
<1>2. Process!Hooked => hooks # <<"database">> /\ kind \in {"worker", "api"}
      /\ (kind = "worker" => hooks = WorkerHooks)
  BY Registered, ServerAssumption DEF Process!Hooked, ProcessInv, HooksOK
<1>3. Process!PoolOutlivesWork
  BY <1>2 DEF ProcessInv, PoolOK, WorkerOK, ServerOK, Process!PoolOutlivesWork, Past, Scanning, AfterWork
<1>4. Process!BeatWhileDraining
  BY <1>2 DEF ProcessInv, WorkerOK, ServerOK, Process!BeatWhileDraining
<1>5. Process!SuccessIsClean
  BY <1>2 DEF ProcessInv, CountsOK, MainOK, DownOK, WorkerOK, ServerOK, Process!SuccessIsClean, Past, AfterWork
<1> QED
  BY <1>1, <1>3, <1>4, <1>5 DEF ShutdownIsOrderly

(* However a process is started, stopped or killed, its pool outlives what
   works on it, a worker that drains is seen, and success has cut nothing off. *)
THEOREM ProcessShutsDownInOrder == Process!Spec => []ShutdownIsOrderly
BY ProcessInit, ProcessNext, InvIsOrderly, PTL DEF Process!Spec, Process!vars, pvars

-----------------------------------------------------------------------------
(* The sessions of a user                                                  *)

RequestRow ==
  [kind : {"none", "callback"} \cup Sessions!Ending,
   phase : {"none", "built", "sent", "exchange", "session", "revoke", "sessions", "handle", "rows",
            "answer", "done"},
   by : Browser \cup {"none"}, state : Attempt \cup {"none"},
   cookie : Sessions!Cookie, header : Sessions!Cookie, ok : BOOLEAN]
OAuthRow == Sessions!AttemptRow

(* The types of the rows, of which Sessions!TypeOK names the parts. *)
SessionsTyped ==
  /\ oattempt \in [Attempt -> OAuthRow] /\ session \in [Request -> Sessions!SessionRow]
  /\ request \in [Request -> RequestRow] /\ jar \in [Browser -> Sessions!Cookie]
  /\ credential \in BOOLEAN /\ user \in BOOLEAN /\ deleted \in BOOLEAN

(* A callback that consumed its attempt, and a session that it made.        *)
Consumed(r) ==
  request[r].phase \in {"exchange", "session", "revoke", "sessions"} \/ session[r] # "none"

(* What the phase of a request has found out.                               *)
RequestOK(r) ==
  /\ request[r].phase # "none" => request[r].by \in Browser
  /\ request[r].kind = "callback" => request[r].state \in Attempt
  /\ session[r] # "none" => request[r].phase \in {"answer", "done"} /\ request[r].kind = "callback"
  /\ Consumed(r) =>
       request[r].state \in Attempt /\ oattempt[request[r].state].status \in {"consumed", "gone"}
  /\ request[r].phase \in {"handle", "rows"} =>
       /\ request[r].header = request[r].cookie /\ request[r].header \in Request
       /\ session[request[r].header] # "none"
  /\ request[r].kind \in Sessions!Ending /\ request[r].phase \in {"answer", "done"} /\ request[r].ok =>
       request[r].header \in Request /\ session[request[r].header] \notin {"none", "active"}

(* An attempt is consumed once, and begun by a browser. *)
ConsumedOnce ==
  \A r, q \in Request : Consumed(r) /\ Consumed(q) /\ request[r].state = request[q].state => r = q
Begun == \A a \in Attempt : oattempt[a].status # "none" => oattempt[a].by \in Browser

SessionsInv ==
  /\ SessionsTyped /\ Begun /\ ConsumedOnce /\ \A r \in Request : RequestOK(r)
  /\ Sessions!SessionsBacked /\ Sessions!AccountGone

LEMMA NoRequestRow == Sessions!NoRequest \in RequestRow
  BY DEF Sessions!NoRequest, RequestRow, Sessions!Cookie

LEMMA SessionsInit == ServerAssumption /\ Sessions!Init => SessionsInv
<1> SUFFICES ASSUME Sessions!Init PROVE SessionsInv
  OBVIOUS
<1> USE DEF Sessions!Init
<1>1. Sessions!NoRequest \in RequestRow /\ Sessions!NoRequest.phase = "none"
      /\ Sessions!NoRequest.kind = "none"
  BY DEF Sessions!NoRequest, RequestRow, Sessions!Cookie
<1>2. SessionsTyped
  BY <1>1 DEF SessionsTyped, OAuthRow, Sessions!AttemptRow, Sessions!SessionRow, Sessions!Cookie
<1>3. \A r \in Request : ~Consumed(r) /\ RequestOK(r)
  BY <1>1 DEF Consumed, RequestOK, Sessions!Ending
<1>4. Begun /\ ConsumedOnce
  BY <1>3 DEF Begun, ConsumedOnce
<1> QED
  BY <1>2, <1>3, <1>4 DEF SessionsInv, Sessions!SessionsBacked, Sessions!AccountGone

(* Sessions that were there end or stay, and none but r's begins;           *)
SessionsGoOn(r) ==
  /\ session' \in [Request -> Sessions!SessionRow]
  /\ \A s \in Request :
       /\ session[s] # "none" => session'[s] # "none" /\ (session'[s] = "active" => session[s] = "active")
       /\ s # r => (session[s] = "none" => session'[s] = "none")
(* or none begins at all; *)
SessionsOnlyEnd ==
  /\ session' \in [Request -> Sessions!SessionRow]
  /\ \A s \in Request : /\ session[s] = "none" <=> session'[s] = "none"
                        /\ session'[s] = "active" => session[s] = "active"
(* attempts that are consumed remain so. *)
AttemptsGoOn ==
  /\ oattempt' \in [Attempt -> OAuthRow] /\ Begun'
  /\ \A a \in Attempt : oattempt[a].status \in {"consumed", "gone"} =>
                          oattempt'[a].status \in {"consumed", "gone"}

(* The other requests stay where they are. *)
Alone(r) ==
  /\ request' \in [Request -> RequestRow]
  /\ \A q \in Request : q # r => request'[q] = request[q]

(* One request moves on, and the others keep what they have found out. *)
LEMMA RequestMoves ==
  ASSUME SessionsInv, NEW r \in Request, Alone(r),
         SessionsGoOn(r), AttemptsGoOn, RequestOK(r)',
         Consumed(r)' => \/ Consumed(r) /\ request[r].state = request'[r].state
                         \/ \A q \in Request : Consumed(q) => request[q].state # request'[r].state,
         jar' \in [Browser -> Sessions!Cookie],
         credential' \in BOOLEAN, user' \in BOOLEAN, deleted' \in BOOLEAN,
         (Sessions!SessionsBacked /\ Sessions!AccountGone)'
  PROVE  SessionsInv'
<1> USE DEF SessionsInv
<1>1. \A q \in Request : q # r => request'[q] = request[q]
  BY DEF Alone
<1>2. SessionsTyped'
  BY DEF Alone, SessionsTyped, SessionsGoOn, AttemptsGoOn
<1>3. \A q \in Request : q # r => (Consumed(q)' <=> Consumed(q))
  BY <1>1 DEF Consumed, SessionsGoOn
<1>4. ConsumedOnce'
  BY <1>1, <1>3 DEF ConsumedOnce
<1>5. ASSUME NEW q \in Request, q # r PROVE RequestOK(q)'
  <2>1. request'[q] = request[q] /\ (session'[q] = "none" <=> session[q] = "none")
    BY <1>1, <1>5 DEF SessionsGoOn
  <2>2. RequestOK(q)
    OBVIOUS
  <2> QED
    BY <1>3, <1>5, <2>1, <2>2 DEF RequestOK, SessionsGoOn, AttemptsGoOn
<1> QED
  BY <1>2, <1>4, <1>5 DEF AttemptsGoOn

(* What the statements on sessions do to them. *)
LEMMA SessionsRevoked ==
  ASSUME SessionsInv, NEW rows, session' = Sessions!Revoked(rows)
  PROVE  /\ SessionsOnlyEnd
         /\ \A s \in Request : s \in rows => session'[s] # "active"
BY DEF SessionsInv, SessionsTyped, SessionsOnlyEnd, Sessions!Revoked, Sessions!SessionRow

LEMMA SessionsCascade ==
  ASSUME SessionsInv, Sessions!DeleteCredentials
  PROVE  /\ SessionsOnlyEnd
         /\ \A s \in Request : session'[s] \in {"none", "gone"}
BY DEF SessionsInv, SessionsTyped, SessionsOnlyEnd, Sessions!DeleteCredentials, Sessions!SessionRow

(* A request that goes on to a phase keeps the rest. *)
Kept(r) ==
  /\ request'[r].kind = request[r].kind /\ request'[r].by = request[r].by
  /\ request'[r].state = request[r].state /\ request'[r].cookie = request[r].cookie
  /\ request'[r].header = request[r].header
LEMMA Goes ==
  ASSUME SessionsInv, NEW r \in Request,
         NEW phase \in {"none", "built", "sent", "exchange", "session", "revoke", "sessions", "handle",
                        "rows", "answer", "done"}
  PROVE  /\ Sessions!Goto(r, phase) =>
              Alone(r) /\ Kept(r) /\ request'[r].phase = phase /\ request'[r].ok = request[r].ok
         /\ \A ok \in BOOLEAN : Sessions!Answer(r, ok) =>
              Alone(r) /\ Kept(r) /\ request'[r].phase = "answer" /\ request'[r].ok = ok
BY DEF SessionsInv, SessionsTyped, RequestRow, Sessions!Goto, Sessions!Answer, Alone, Kept

LEMMA AttemptsStay == SessionsInv /\ UNCHANGED oattempt => AttemptsGoOn
  BY DEF SessionsInv, SessionsTyped, AttemptsGoOn, Begun

LEMMA AttemptEnds ==
  ASSUME SessionsTyped, Begun, NEW a \in Attempt, oattempt[a].status = "open",
         NEW status \in {"consumed", "expired"}, oattempt' = [oattempt EXCEPT ![a].status = status]
  PROVE  AttemptsGoOn /\ oattempt'[a].status = status
BY DEF AttemptsGoOn, SessionsTyped, Begun, OAuthRow, Sessions!AttemptRow

(* No request moves. *)
LEMMA NobodyMoves ==
  ASSUME SessionsInv, UNCHANGED request, SessionsOnlyEnd, AttemptsGoOn,
         UNCHANGED <<jar, credential, user, deleted>>
  PROVE  SessionsInv'
<1> USE DEF SessionsInv
<1>1. SessionsTyped'
  BY DEF SessionsTyped, AttemptsGoOn, SessionsOnlyEnd
<1>2. ASSUME NEW q \in Request PROVE RequestOK(q)' /\ (Consumed(q)' <=> Consumed(q))
  <2>1. RequestOK(q)
    OBVIOUS
  <2> QED
    BY <2>1 DEF RequestOK, Consumed, SessionsOnlyEnd, AttemptsGoOn
<1>3. ConsumedOnce'
  BY <1>2 DEF ConsumedOnce
<1> QED
  BY <1>1, <1>2, <1>3 DEF AttemptsGoOn, SessionsOnlyEnd, Sessions!SessionsBacked, Sessions!AccountGone

LEMMA AuthorizeUserKeeps ==
  ASSUME SessionsInv, NEW r \in Request, Sessions!AuthorizeUser(r) PROVE SessionsInv'
<1> USE DEF Sessions!AuthorizeUser, Sessions!At
<1>1. RequestOK(r) /\ SessionsTyped /\ Sessions!SessionsBacked /\ Sessions!AccountGone
  BY DEF SessionsInv
<1>2. Alone(r) /\ Kept(r) /\ request'[r].phase = "session"
  BY Goes
<1>3. AttemptsGoOn
  BY AttemptsStay
<1>4. SessionsOnlyEnd /\ UNCHANGED session
  BY SessionsRevoked DEF SessionsInv, SessionsTyped, SessionsOnlyEnd
<1>5. RequestOK(r)' /\ (Consumed(r)' => Consumed(r))
  BY <1>1, <1>2, <1>3, <1>4 DEF RequestOK, Consumed, Kept, AttemptsGoOn, SessionsOnlyEnd, Sessions!Ending
<1>6. (Sessions!SessionsBacked /\ Sessions!AccountGone)'
  BY <1>1, <1>4 DEF SessionsTyped, SessionsOnlyEnd, Sessions!SessionsBacked, Sessions!AccountGone
<1> QED
  BY <1>1, <1>2, <1>3, <1>4, <1>5, <1>6, RequestMoves DEF Kept, SessionsTyped, SessionsOnlyEnd, SessionsGoOn

LEMMA NotAuthorizedKeeps ==
  ASSUME SessionsInv, NEW r \in Request, Sessions!NotAuthorized(r) PROVE SessionsInv'
<1> USE DEF Sessions!NotAuthorized, Sessions!At
<1>1. RequestOK(r) /\ SessionsTyped /\ Sessions!SessionsBacked /\ Sessions!AccountGone
  BY DEF SessionsInv
<1>2. Alone(r) /\ Kept(r) /\ request'[r].phase = "answer" /\ ~request'[r].ok
  BY Goes
<1>3. AttemptsGoOn
  BY AttemptsStay
<1>4. SessionsOnlyEnd /\ UNCHANGED session
  BY SessionsRevoked DEF SessionsInv, SessionsTyped, SessionsOnlyEnd
<1>5. RequestOK(r)' /\ (Consumed(r)' => Consumed(r))
  BY <1>1, <1>2, <1>3, <1>4 DEF RequestOK, Consumed, Kept, AttemptsGoOn, SessionsOnlyEnd, Sessions!Ending
<1>6. (Sessions!SessionsBacked /\ Sessions!AccountGone)'
  BY <1>1, <1>4 DEF SessionsTyped, SessionsOnlyEnd, Sessions!SessionsBacked, Sessions!AccountGone
<1> QED
  BY <1>1, <1>2, <1>3, <1>4, <1>5, <1>6, RequestMoves DEF Kept, SessionsTyped, SessionsOnlyEnd, SessionsGoOn

LEMMA LoginFailsKeeps ==
  ASSUME SessionsInv, NEW r \in Request, Sessions!LoginFails(r) PROVE SessionsInv'
<1> USE DEF Sessions!LoginFails, Sessions!At
<1>1. RequestOK(r) /\ SessionsTyped /\ Sessions!SessionsBacked /\ Sessions!AccountGone
  BY DEF SessionsInv
<1>2. Alone(r) /\ Kept(r) /\ request'[r].phase = "revoke"
  BY Goes
<1>3. AttemptsGoOn
  BY AttemptsStay
<1>4. SessionsOnlyEnd /\ UNCHANGED session
  BY SessionsRevoked DEF SessionsInv, SessionsTyped, SessionsOnlyEnd
<1>5. RequestOK(r)' /\ (Consumed(r)' => Consumed(r))
  BY <1>1, <1>2, <1>3, <1>4 DEF RequestOK, Consumed, Kept, AttemptsGoOn, SessionsOnlyEnd, Sessions!Ending
<1>6. (Sessions!SessionsBacked /\ Sessions!AccountGone)'
  BY <1>1, <1>4 DEF SessionsTyped, SessionsOnlyEnd, Sessions!SessionsBacked, Sessions!AccountGone
<1> QED
  BY <1>1, <1>2, <1>3, <1>4, <1>5, <1>6, RequestMoves DEF Kept, SessionsTyped, SessionsOnlyEnd, SessionsGoOn

LEMMA RevokeUserKeeps ==
  ASSUME SessionsInv, NEW r \in Request, Sessions!RevokeUser(r) PROVE SessionsInv'
<1> USE DEF Sessions!RevokeUser, Sessions!At
<1>1. RequestOK(r) /\ SessionsTyped /\ Sessions!SessionsBacked /\ Sessions!AccountGone
  BY DEF SessionsInv
<1>2. Alone(r) /\ Kept(r) /\ request'[r].phase = "sessions"
  BY Goes
<1>3. AttemptsGoOn
  BY AttemptsStay
<1>4. SessionsOnlyEnd /\ (\A s \in Request : session'[s] \in {"none", "gone"}) /\ credential' = FALSE
  <2>1. Sessions!DeleteCredentials
    OBVIOUS
  <2>2. credential' = FALSE
    BY DEF Sessions!DeleteCredentials
  <2> QED
    BY <2>1, <2>2, SessionsCascade
<1>5. RequestOK(r)' /\ (Consumed(r)' => Consumed(r))
  BY <1>1, <1>2, <1>3, <1>4 DEF RequestOK, Consumed, Kept, AttemptsGoOn, SessionsOnlyEnd, Sessions!Ending
<1>6. (Sessions!SessionsBacked /\ Sessions!AccountGone)'
  BY <1>1, <1>4 DEF SessionsTyped, SessionsOnlyEnd, Sessions!SessionsBacked, Sessions!AccountGone
<1> QED
  BY <1>1, <1>2, <1>3, <1>4, <1>5, <1>6, RequestMoves DEF Kept, SessionsTyped, SessionsOnlyEnd, SessionsGoOn

LEMMA RevokeUserSessionsKeeps ==
  ASSUME SessionsInv, NEW r \in Request, Sessions!RevokeUserSessions(r) PROVE SessionsInv'
<1> USE DEF Sessions!RevokeUserSessions, Sessions!At
<1>1. RequestOK(r) /\ SessionsTyped /\ Sessions!SessionsBacked /\ Sessions!AccountGone
  BY DEF SessionsInv
<1>2. Alone(r) /\ Kept(r) /\ request'[r].phase = "answer" /\ ~request'[r].ok
  BY Goes
<1>3. AttemptsGoOn
  BY AttemptsStay
<1>4. SessionsOnlyEnd 
  BY SessionsRevoked DEF SessionsInv, SessionsTyped, SessionsOnlyEnd
<1>5. RequestOK(r)' /\ (Consumed(r)' => Consumed(r))
  BY <1>1, <1>2, <1>3, <1>4 DEF RequestOK, Consumed, Kept, AttemptsGoOn, SessionsOnlyEnd, Sessions!Ending
<1>6. (Sessions!SessionsBacked /\ Sessions!AccountGone)'
  BY <1>1, <1>4 DEF SessionsTyped, SessionsOnlyEnd, Sessions!SessionsBacked, Sessions!AccountGone
<1> QED
  BY <1>1, <1>2, <1>3, <1>4, <1>5, <1>6, RequestMoves DEF Kept, SessionsTyped, SessionsOnlyEnd, SessionsGoOn

LEMMA LogoutKeeps ==
  ASSUME SessionsInv, NEW r \in Request, Sessions!Logout(r) PROVE SessionsInv'
<1> USE DEF Sessions!Logout, Sessions!At
<1>1. RequestOK(r) /\ SessionsTyped /\ Sessions!SessionsBacked /\ Sessions!AccountGone
  BY DEF SessionsInv
<1>2. Alone(r) /\ Kept(r) /\ request'[r].phase = "answer"
  BY Goes
<1>3. AttemptsGoOn
  BY AttemptsStay
<1>4. SessionsOnlyEnd /\ \A s \in Request : s = request[r].cookie => session'[s] # "active"
  BY SessionsRevoked
<1>5. RequestOK(r)' /\ (Consumed(r)' => Consumed(r))
  BY <1>1, <1>2, <1>3, <1>4 DEF RequestOK, Consumed, Kept, AttemptsGoOn, SessionsOnlyEnd, Sessions!Ending
<1>6. (Sessions!SessionsBacked /\ Sessions!AccountGone)'
  BY <1>1, <1>4 DEF SessionsTyped, SessionsOnlyEnd, Sessions!SessionsBacked, Sessions!AccountGone
<1> QED
  BY <1>1, <1>2, <1>3, <1>4, <1>5, <1>6, RequestMoves DEF Kept, SessionsTyped, SessionsOnlyEnd, SessionsGoOn

LEMMA DisconnectKeeps ==
  ASSUME SessionsInv, NEW r \in Request, Sessions!Disconnect(r) PROVE SessionsInv'
<1> USE DEF Sessions!Disconnect, Sessions!At
<1>1. RequestOK(r) /\ SessionsTyped /\ Sessions!SessionsBacked /\ Sessions!AccountGone
  BY DEF SessionsInv
<1>2. Alone(r) /\ Kept(r) /\ request'[r].phase = "answer"
  BY Goes
<1>3. AttemptsGoOn
  BY AttemptsStay
<1>4. SessionsOnlyEnd /\ (\A s \in Request : session'[s] \in {"none", "gone"}) /\ credential' = FALSE
  <2>1. Sessions!DeleteCredentials
    OBVIOUS
  <2>2. credential' = FALSE
    BY DEF Sessions!DeleteCredentials
  <2> QED
    BY <2>1, <2>2, SessionsCascade
<1>5. RequestOK(r)' /\ (Consumed(r)' => Consumed(r))
  BY <1>1, <1>2, <1>3, <1>4 DEF RequestOK, Consumed, Kept, AttemptsGoOn, SessionsOnlyEnd, Sessions!Ending
<1>6. (Sessions!SessionsBacked /\ Sessions!AccountGone)'
  BY <1>1, <1>4 DEF SessionsTyped, SessionsOnlyEnd, Sessions!SessionsBacked, Sessions!AccountGone
<1> QED
  BY <1>1, <1>2, <1>3, <1>4, <1>5, <1>6, RequestMoves DEF Kept, SessionsTyped, SessionsOnlyEnd, SessionsGoOn

LEMMA DisconnectFailsKeeps ==
  ASSUME SessionsInv, NEW r \in Request, Sessions!DisconnectFails(r) PROVE SessionsInv'
<1> USE DEF Sessions!DisconnectFails, Sessions!At
<1>1. RequestOK(r) /\ SessionsTyped /\ Sessions!SessionsBacked /\ Sessions!AccountGone
  BY DEF SessionsInv
<1>2. Alone(r) /\ Kept(r) /\ request'[r].phase = "answer" /\ ~request'[r].ok
  BY Goes
<1>3. AttemptsGoOn
  BY AttemptsStay
<1>4. SessionsOnlyEnd /\ UNCHANGED session
  BY SessionsRevoked DEF SessionsInv, SessionsTyped, SessionsOnlyEnd
<1>5. RequestOK(r)' /\ (Consumed(r)' => Consumed(r))
  BY <1>1, <1>2, <1>3, <1>4 DEF RequestOK, Consumed, Kept, AttemptsGoOn, SessionsOnlyEnd, Sessions!Ending
<1>6. (Sessions!SessionsBacked /\ Sessions!AccountGone)'
  BY <1>1, <1>4 DEF SessionsTyped, SessionsOnlyEnd, Sessions!SessionsBacked, Sessions!AccountGone
<1> QED
  BY <1>1, <1>2, <1>3, <1>4, <1>5, <1>6, RequestMoves DEF Kept, SessionsTyped, SessionsOnlyEnd, SessionsGoOn

LEMMA DeleteAccountKeeps ==
  ASSUME SessionsInv, NEW r \in Request, Sessions!DeleteAccount(r) PROVE SessionsInv'
<1> USE DEF Sessions!DeleteAccount, Sessions!At
<1>1. RequestOK(r) /\ SessionsTyped /\ Sessions!SessionsBacked /\ Sessions!AccountGone
  BY DEF SessionsInv
<1>2. Alone(r) /\ Kept(r) /\ request'[r].phase = "rows"
  BY Goes
<1>3. AttemptsGoOn
  BY AttemptsStay
<1>4. SessionsOnlyEnd /\ (\A s \in Request : session'[s] \in {"none", "gone"}) /\ credential' = FALSE
  <2>1. Sessions!DeleteCredentials
    OBVIOUS
  <2>2. credential' = FALSE
    BY DEF Sessions!DeleteCredentials
  <2> QED
    BY <2>1, <2>2, SessionsCascade
<1>5. RequestOK(r)' /\ (Consumed(r)' => Consumed(r))
  BY <1>1, <1>2, <1>3, <1>4 DEF RequestOK, Consumed, Kept, AttemptsGoOn, SessionsOnlyEnd, Sessions!Ending
<1>6. (Sessions!SessionsBacked /\ Sessions!AccountGone)'
  BY <1>1, <1>4 DEF SessionsTyped, SessionsOnlyEnd, Sessions!SessionsBacked, Sessions!AccountGone
<1> QED
  BY <1>1, <1>2, <1>3, <1>4, <1>5, <1>6, RequestMoves DEF Kept, SessionsTyped, SessionsOnlyEnd, SessionsGoOn

LEMMA DeleteLocalAccountKeeps ==
  ASSUME SessionsInv, NEW r \in Request, Sessions!DeleteLocalAccount(r) PROVE SessionsInv'
<1> USE DEF Sessions!DeleteLocalAccount, Sessions!At
<1>1. RequestOK(r) /\ SessionsTyped /\ Sessions!SessionsBacked /\ Sessions!AccountGone
  BY DEF SessionsInv
<1>2. Alone(r) /\ Kept(r) /\ request'[r].phase = "answer"
  BY Goes
<1>3. AttemptsGoOn
  BY AttemptsStay
<1>4. SessionsOnlyEnd /\ (\A s \in Request : session'[s] \in {"none", "gone"}) /\ credential' = FALSE
  <2>1. Sessions!DeleteCredentials
    OBVIOUS
  <2>2. credential' = FALSE
    BY DEF Sessions!DeleteCredentials
  <2> QED
    BY <2>1, <2>2, SessionsCascade
<1>5. RequestOK(r)' /\ (Consumed(r)' => Consumed(r))
  BY <1>1, <1>2, <1>3, <1>4 DEF RequestOK, Consumed, Kept, AttemptsGoOn, SessionsOnlyEnd, Sessions!Ending
<1>6. (Sessions!SessionsBacked /\ Sessions!AccountGone)'
  BY <1>1, <1>4 DEF SessionsTyped, SessionsOnlyEnd, Sessions!SessionsBacked, Sessions!AccountGone
<1> QED
  BY <1>1, <1>2, <1>3, <1>4, <1>5, <1>6, RequestMoves DEF Kept, SessionsTyped, SessionsOnlyEnd, SessionsGoOn

LEMMA StartLoginKeeps ==
  ASSUME SessionsInv, NEW b \in Browser, NEW a \in Attempt, Sessions!StartLogin(b, a) PROVE SessionsInv'
<1> USE DEF Sessions!StartLogin
<1>1. SessionsTyped /\ Begun
  BY DEF SessionsInv
<1>2. SessionsOnlyEnd
  BY <1>1 DEF SessionsTyped, SessionsOnlyEnd, Sessions!Purged, Sessions!SessionRow
<1>3. oattempt' \in [Attempt -> OAuthRow]
  BY <1>1 DEF SessionsTyped, OAuthRow, Sessions!AttemptRow
<1>4. ASSUME NEW k \in Attempt, k # a
      PROVE  /\ oattempt'[k].by = oattempt[k].by
             /\ \/ oattempt'[k].status = oattempt[k].status
                \/ oattempt[k].status \in {"consumed", "expired"} /\ oattempt'[k].status = "gone"
  <2>1. oattempt'[k] = IF oattempt[k].status \in {"consumed", "expired"}
                       THEN [oattempt[k] EXCEPT !.status = "gone"] ELSE oattempt[k]
    BY <1>4
  <2>2. oattempt[k] \in OAuthRow
    BY <1>1 DEF SessionsTyped
  <2> QED
    BY <2>1, <2>2 DEF OAuthRow, Sessions!AttemptRow
<1>5. oattempt'[a].by = b
  BY <1>1 DEF SessionsTyped
<1>6. AttemptsGoOn
  BY <1>1, <1>3, <1>4, <1>5 DEF AttemptsGoOn, Begun, SessionsTyped, OAuthRow, Sessions!AttemptRow
<1> QED
  BY <1>2, <1>6, NobodyMoves

LEMMA ExpireKeeps == SessionsInv /\ Sessions!Expire => SessionsInv'
<1> SUFFICES ASSUME SessionsInv, Sessions!Expire PROVE SessionsInv'
  OBVIOUS
<1>1. SessionsTyped /\ Begun /\ UNCHANGED <<jar, credential, user, deleted, request>>
  BY DEF SessionsInv, Sessions!Expire
<1>2. ASSUME NEW a \in Attempt, oattempt[a].status = "open",
             oattempt' = [oattempt EXCEPT ![a].status = "expired"], UNCHANGED session
      PROVE  SessionsInv'
  <2>1. AttemptsGoOn
    BY <1>1, <1>2, AttemptEnds
  <2> QED
    BY <1>1, <1>2, <2>1, NobodyMoves DEF SessionsOnlyEnd, SessionsTyped
<1>3. ASSUME NEW s \in Request, session[s] = "active", session' = [session EXCEPT ![s] = "expired"],
             UNCHANGED oattempt
      PROVE  SessionsInv'
  <2>1. SessionsOnlyEnd
    BY <1>1, <1>3 DEF SessionsOnlyEnd, SessionsTyped, Sessions!SessionRow
  <2> QED
    BY <1>1, <1>3, <2>1, NobodyMoves, AttemptsStay
<1> QED
  BY <1>2, <1>3 DEF Sessions!Expire

LEMMA CallbackKeeps ==
  ASSUME SessionsInv, NEW r \in Request, NEW a \in Attempt, Sessions!Callback(r, a) PROVE SessionsInv'
<1> USE DEF Sessions!Callback, Sessions!At
<1>1. RequestOK(r) /\ SessionsTyped /\ Begun /\ Sessions!SessionsBacked /\ Sessions!AccountGone
  BY DEF SessionsInv
<1> DEFINE m == [Sessions!NoRequest EXCEPT !.kind = "callback", !.phase = "sent",
                       !.by = oattempt[a].by, !.state = a, !.cookie = jar[oattempt[a].by]]
<1>3. m \in RequestRow /\ m.kind = "callback" /\ m.phase = "sent" /\ m.by \in Browser /\ m.state = a
  BY <1>1, NoRequestRow DEF SessionsTyped, Begun, RequestRow, Sessions!Cookie
<1>4. request' = [request EXCEPT ![r] = m]
  OBVIOUS
<1> HIDE DEF m
<1>5. Alone(r) /\ request'[r] = m
  BY <1>1, <1>3, <1>4 DEF SessionsTyped, Alone
<1>6. RequestOK(r)' /\ ~Consumed(r)'
  BY <1>1, <1>3, <1>5 DEF RequestOK, Consumed, Sessions!Ending
<1>7. AttemptsGoOn /\ SessionsGoOn(r)
  BY <1>1, AttemptsStay DEF SessionsGoOn, SessionsTyped
<1>8. (Sessions!SessionsBacked /\ Sessions!AccountGone)'
  BY <1>1 DEF Sessions!SessionsBacked, Sessions!AccountGone
<1>9. jar' \in [Browser -> Sessions!Cookie] /\ credential' \in BOOLEAN /\ user' \in BOOLEAN /\ deleted' \in BOOLEAN
  BY <1>1 DEF SessionsTyped
<1> HIDE DEF Sessions!Callback
<1> QED
  BY <1>5, <1>6, <1>7, <1>8, <1>9, RequestMoves

LEMMA BuildKeeps ==
  ASSUME SessionsInv, NEW r \in Request, NEW b \in Browser, NEW ask \in Asked, Sessions!Build(r, b, ask) PROVE SessionsInv'
<1> USE DEF Sessions!Build, Sessions!At
<1>1. RequestOK(r) /\ SessionsTyped /\ Begun /\ Sessions!SessionsBacked /\ Sessions!AccountGone
  BY DEF SessionsInv
<1> DEFINE m == [Sessions!NoRequest EXCEPT !.kind = ask, !.phase = "built", !.by = b, !.header = jar[b]]
<1>3. m \in RequestRow /\ m.kind \in Sessions!Ending /\ m.phase = "built" /\ m.by \in Browser
  <2>1. ask \in Sessions!Ending /\ jar[b] \in Sessions!Cookie
    BY <1>1, ServerAssumption DEF SessionsTyped, Sessions!Ending
  <2> QED
    BY <2>1, NoRequestRow DEF RequestRow
<1>4. request' = [request EXCEPT ![r] = m]
  OBVIOUS
<1> HIDE DEF m
<1>5. Alone(r) /\ request'[r] = m
  BY <1>1, <1>3, <1>4 DEF SessionsTyped, Alone
<1>6. RequestOK(r)' /\ ~Consumed(r)'
  BY <1>1, <1>3, <1>5 DEF RequestOK, Consumed, Sessions!Ending
<1>7. AttemptsGoOn /\ SessionsGoOn(r)
  BY <1>1, AttemptsStay DEF SessionsGoOn, SessionsTyped
<1>8. (Sessions!SessionsBacked /\ Sessions!AccountGone)'
  BY <1>1 DEF Sessions!SessionsBacked, Sessions!AccountGone
<1>9. jar' \in [Browser -> Sessions!Cookie] /\ credential' \in BOOLEAN /\ user' \in BOOLEAN /\ deleted' \in BOOLEAN
  BY <1>1 DEF SessionsTyped
<1> HIDE DEF Sessions!Build
<1> QED
  BY <1>5, <1>6, <1>7, <1>8, <1>9, RequestMoves

LEMMA SendKeeps ==
  ASSUME SessionsInv, NEW r \in Request, Sessions!Send(r) PROVE SessionsInv'
<1> USE DEF Sessions!Send, Sessions!At
<1>1. RequestOK(r) /\ SessionsTyped /\ Begun /\ Sessions!SessionsBacked /\ Sessions!AccountGone
  BY DEF SessionsInv
<1>2. jar[request[r].by] \in Sessions!Cookie
  BY <1>1 DEF RequestOK, SessionsTyped
<1> DEFINE m == [request[r] EXCEPT !.phase = "sent", !.cookie = jar[request[r].by]]
<1>7. m \in RequestRow /\ m.phase = "sent" /\ m.kind = request[r].kind
      /\ m.by = request[r].by /\ m.state = request[r].state
  BY <1>1, <1>2 DEF SessionsTyped, RequestRow
<1>8. request' = [request EXCEPT ![r] = m]
  BY <1>1 DEF SessionsTyped
<1> HIDE DEF m
<1>3. Alone(r) /\ request'[r].phase = "sent" /\ request'[r].kind = request[r].kind
      /\ request'[r].by = request[r].by /\ request'[r].state = request[r].state
  BY <1>1, <1>7, <1>8 DEF SessionsTyped, Alone
<1>4. RequestOK(r)' /\ ~Consumed(r)'
  BY <1>1, <1>3 DEF RequestOK, Consumed, Sessions!Ending
<1>5. AttemptsGoOn /\ SessionsGoOn(r)
  BY <1>1, AttemptsStay DEF SessionsGoOn, SessionsTyped
<1>6. (Sessions!SessionsBacked /\ Sessions!AccountGone)'
  BY <1>1 DEF Sessions!SessionsBacked, Sessions!AccountGone
<1> QED
  BY <1>1, <1>3, <1>4, <1>5, <1>6, RequestMoves DEF SessionsTyped

LEMMA AuthenticateKeeps ==
  ASSUME SessionsInv, NEW r \in Request, Sessions!Authenticate(r) PROVE SessionsInv'
<1> USE DEF Sessions!Authenticate, Sessions!At
<1>1. RequestOK(r) /\ SessionsTyped /\ Begun /\ Sessions!SessionsBacked /\ Sessions!AccountGone
  BY DEF SessionsInv
<1>2. AttemptsGoOn /\ SessionsGoOn(r)
  BY <1>1, AttemptsStay DEF SessionsGoOn, SessionsTyped
<1>3. (Sessions!SessionsBacked /\ Sessions!AccountGone)'
  BY <1>1 DEF Sessions!SessionsBacked, Sessions!AccountGone
<1>4. CASE Sessions!Authentic(r)
  <2>1. Alone(r) /\ Kept(r) /\ request'[r].phase = "handle"
    BY <1>4, Goes
  <2>2. request[r].header = request[r].cookie /\ request[r].cookie \in Request
        /\ session[request[r].cookie] = "active"
    BY <1>1, <1>4 DEF Sessions!Authentic, SessionsTyped, RequestRow, Sessions!Cookie
  <2>3. RequestOK(r)' /\ ~Consumed(r)'
    BY <1>1, <2>1, <2>2 DEF RequestOK, Consumed, Kept, Sessions!Ending
  <2> QED
    BY <1>1, <1>2, <1>3, <2>1, <2>3, RequestMoves DEF SessionsTyped
<1>5. CASE ~Sessions!Authentic(r)
  <2>1. Alone(r) /\ Kept(r) /\ request'[r].phase = "answer" /\ ~request'[r].ok
    BY <1>5, Goes
  <2>2. RequestOK(r)' /\ ~Consumed(r)'
    BY <1>1, <2>1 DEF RequestOK, Consumed, Kept, Sessions!Ending
  <2> QED
    BY <1>1, <1>2, <1>3, <2>1, <2>2, RequestMoves DEF SessionsTyped
<1> QED
  BY <1>4, <1>5

LEMMA AnsweredKeeps ==
  ASSUME SessionsInv, NEW r \in Request, Sessions!Answered(r) PROVE SessionsInv'
<1> USE DEF Sessions!Answered, Sessions!At
<1>1. RequestOK(r) /\ SessionsTyped /\ Begun /\ Sessions!SessionsBacked /\ Sessions!AccountGone
  BY DEF SessionsInv
<1>2. Sessions!Cookies(r) \in Sessions!Cookie
  BY <1>1 DEF RequestOK, SessionsTyped, Sessions!Cookies, Sessions!Cookie
<1>3. jar' \in [Browser -> Sessions!Cookie]
  BY <1>1, <1>2 DEF SessionsTyped
<1>4. Alone(r) /\ Kept(r) /\ request'[r].phase = "done" /\ request'[r].ok = request[r].ok
  BY Goes
<1>5. AttemptsGoOn /\ SessionsGoOn(r)
  BY <1>1, AttemptsStay DEF SessionsGoOn, SessionsTyped
<1>6. RequestOK(r)' /\ (Consumed(r)' => Consumed(r))
  BY <1>1, <1>4 DEF RequestOK, Consumed, Kept
<1>7. (Sessions!SessionsBacked /\ Sessions!AccountGone)'
  BY <1>1 DEF Sessions!SessionsBacked, Sessions!AccountGone
<1> QED
  BY <1>1, <1>3, <1>4, <1>5, <1>6, <1>7, RequestMoves DEF SessionsTyped, Kept

LEMMA ConsumeOAuthAttemptKeeps ==
  ASSUME SessionsInv, NEW r \in Request, Sessions!ConsumeOAuthAttempt(r) PROVE SessionsInv'
<1> USE DEF Sessions!ConsumeOAuthAttempt, Sessions!At
<1>1. RequestOK(r) /\ SessionsTyped /\ Begun /\ Sessions!SessionsBacked /\ Sessions!AccountGone
  BY DEF SessionsInv
<1> DEFINE a == request[r].state
<1>2. SessionsGoOn(r) /\ a \in Attempt
  BY <1>1 DEF SessionsGoOn, SessionsTyped, RequestOK
<1>3. (Sessions!SessionsBacked /\ Sessions!AccountGone)'
  BY <1>1 DEF Sessions!SessionsBacked, Sessions!AccountGone
<1>4. CASE Sessions!Consumable(a)
  <2>1. Alone(r) /\ Kept(r) /\ request'[r].phase = "exchange"
    BY <1>4, Goes
  <2>2. oattempt' = [oattempt EXCEPT ![a].status = "consumed"]
    BY <1>4
  <2>3. AttemptsGoOn /\ oattempt'[a].status = "consumed"
    BY <1>1, <1>2, <1>4, <2>2, AttemptEnds DEF Sessions!Consumable
  <2>4. RequestOK(r)'
    BY <1>1, <1>2, <2>1, <2>3 DEF RequestOK, Consumed, Kept, Sessions!Ending
  <2>5. \A q \in Request : Consumed(q) => request[q].state # a
    BY <1>4 DEF SessionsInv, RequestOK, Sessions!Consumable
  <2> QED
    BY <1>1, <1>2, <1>3, <2>1, <2>3, <2>4, <2>5, RequestMoves DEF SessionsTyped, Kept
<1>5. CASE ~Sessions!Consumable(a)
  <2>1. Alone(r) /\ Kept(r) /\ request'[r].phase = "answer" /\ ~request'[r].ok
    BY <1>5, Goes
  <2>2. AttemptsGoOn
    BY <1>5, AttemptsStay
  <2>3. RequestOK(r)' /\ ~Consumed(r)'
    BY <1>1, <2>1 DEF RequestOK, Consumed, Kept, Sessions!Ending
  <2> QED
    BY <1>1, <1>2, <1>3, <2>1, <2>2, <2>3, RequestMoves DEF SessionsTyped
<1> QED
  BY <1>4, <1>5

LEMMA CreateLoginSessionKeeps ==
  ASSUME SessionsInv, NEW r \in Request, Sessions!CreateLoginSession(r) PROVE SessionsInv'
<1> USE DEF Sessions!CreateLoginSession, Sessions!At
<1>1. RequestOK(r) /\ SessionsTyped /\ Begun /\ Sessions!SessionsBacked /\ Sessions!AccountGone
  BY DEF SessionsInv
<1>2. AttemptsGoOn
  BY AttemptsStay
<1>3. CASE credential
  <2>1. Alone(r) /\ Kept(r) /\ request'[r].phase = "answer"
    BY <1>3, Goes
  <2>2. session' = [Sessions!Revoked({request[r].cookie}) EXCEPT ![r] = "active"]
        /\ user' = TRUE /\ deleted' = FALSE
    BY <1>3
  <2>3. session[r] = "none"
    BY <1>1 DEF RequestOK, SessionsTyped
  <2>4. SessionsGoOn(r)
    BY <1>1, <2>2, <2>3 DEF SessionsGoOn, SessionsTyped, Sessions!Revoked, Sessions!SessionRow
  <2>5. RequestOK(r)' /\ Consumed(r)
    BY <1>1, <1>2, <2>1 DEF RequestOK, Consumed, Kept, AttemptsGoOn, Sessions!Ending
  <2>6. (Sessions!SessionsBacked /\ Sessions!AccountGone)'
    BY <1>3, <2>2 DEF Sessions!SessionsBacked, Sessions!AccountGone
  <2> QED
    BY <1>1, <1>2, <2>1, <2>2, <2>4, <2>5, <2>6, RequestMoves DEF SessionsTyped, Kept
<1>4. CASE ~credential
  <2>1. Alone(r) /\ Kept(r) /\ request'[r].phase = "revoke" /\ UNCHANGED <<user, session, deleted>>
    BY <1>4, Goes
  <2>2. SessionsGoOn(r)
    BY <1>1, <2>1 DEF SessionsGoOn, SessionsTyped
  <2>3. RequestOK(r)' /\ Consumed(r)
    BY <1>1, <1>2, <2>1 DEF RequestOK, Consumed, Kept, AttemptsGoOn, Sessions!Ending
  <2>4. (Sessions!SessionsBacked /\ Sessions!AccountGone)'
    BY <1>1, <2>1 DEF Sessions!SessionsBacked, Sessions!AccountGone
  <2> QED
    BY <1>1, <1>2, <2>1, <2>2, <2>3, <2>4, RequestMoves DEF SessionsTyped, Kept
<1> QED
  BY <1>3, <1>4

LEMMA SessionsNext == SessionsInv /\ [Sessions!Next]_uvars => SessionsInv'
<1> SUFFICES ASSUME SessionsInv, [Sessions!Next]_uvars PROVE SessionsInv'
  OBVIOUS
<1>1. CASE UNCHANGED uvars
  BY <1>1, NobodyMoves, AttemptsStay DEF uvars, SessionsOnlyEnd, SessionsInv, SessionsTyped
<1>2. ASSUME NEW r \in Request, Sessions!Login(r) PROVE SessionsInv'
  BY <1>2, CallbackKeeps, ConsumeOAuthAttemptKeeps, AuthorizeUserKeeps, NotAuthorizedKeeps,
     CreateLoginSessionKeeps, LoginFailsKeeps, RevokeUserKeeps, RevokeUserSessionsKeeps DEF Sessions!Login
<1>3. ASSUME NEW r \in Request, Sessions!End(r) PROVE SessionsInv'
  BY <1>3, BuildKeeps, SendKeeps, AuthenticateKeeps, LogoutKeeps, DisconnectKeeps, DisconnectFailsKeeps,
     DeleteAccountKeeps, DeleteLocalAccountKeeps DEF Sessions!End
<1> QED
  BY <1>1, <1>2, <1>3, StartLoginKeeps, AnsweredKeeps, ExpireKeeps DEF Sessions!Next

(* Logins, logouts and removals, interleaved at every await: an attempt makes
   one session, who was told to be signed out is, and a deleted account stays so. *)
THEOREM UserSessionsStand == Sessions!Spec => []SessionsStand
<1>1. SessionsInv => SessionsStand
  <2> SUFFICES ASSUME SessionsInv PROVE SessionsStand
    OBVIOUS
  <2>1. Sessions!TypeOK
    BY DEF SessionsInv, SessionsTyped, Sessions!TypeOK, OAuthRow, RequestRow
  <2>2. Sessions!SignedOut
    BY DEF SessionsInv, RequestOK, Sessions!SignedOut
  <2>3. Sessions!OneLogin
    BY DEF SessionsInv, ConsumedOnce, Consumed, Sessions!OneLogin
  <2> QED
    BY <2>1, <2>2, <2>3 DEF SessionsStand, SessionsInv
<1> QED
  BY <1>1, SessionsInit, SessionsNext, ServerAssumption, PTL DEF Sessions!Spec, Sessions!vars, uvars

-----------------------------------------------------------------------------
(* The clients of an installation                                          *)

Client == [gen : Nat, epoch : Nat]
Making == [pc : {"free", "app", "post", "minted"}, key : Clients!Keys \cup {{}}, gen : Nat, epoch : Nat]
Calling == [pc : {"idle", "waiting", "using", "refused", "rejected"}, on : Slot \cup {None},
            client : Client \cup {None}]

(* The types of the maps of the provider, which Clients!TypeOK leaves open.   *)
ClientsTyped ==
  /\ cached \in [Clients!Keys -> Client \cup {None}]
  /\ pending \in [Clients!Keys -> Slot \cup {None}]
  /\ making \in [Slot -> Making] /\ caller \in [Caller -> Calling]
  /\ due \subseteq keys /\ keys = {k \in Clients!Keys : cached[k] # None}
  /\ gen \in Nat /\ epoch \in Nat

(* What is kept was asked for in the current generation, *)
CachedCurrent == \A k \in Clients!Keys : cached[k] # None => cached[k].gen = gen
(* and a token request of the current generation is the one that its        *)
(* repositories wait for.                                                   *)
MakingPending ==
  \A a \in Slot : making[a].pc # "free" =>
    /\ making[a].key \in Clients!Keys /\ making[a].gen <= gen
    /\ making[a].gen = gen => pending[making[a].key] = a

ClientsInv == ClientsTyped /\ CachedCurrent /\ MakingPending /\ Clients!OneRequestPerKey

LEMMA ClientsInit == Clients!Init => ClientsInv
  BY ServerAssumption DEF Clients!Init, ClientsInv, ClientsTyped, CachedCurrent, MakingPending,
     Clients!OneRequestPerKey, Client, Making, Calling, Clients!Free, Clients!Idle

(* What an invalidation leaves: nothing that was kept. *)
LEMMA InvalidateKeeps ==
  ASSUME ClientsInv, Clients!Invalidate, caller' \in [Caller -> Calling], UNCHANGED <<making, epoch>>
  PROVE  ClientsInv'
<1> USE ServerAssumption DEF ClientsInv
<1>1. gen' = gen + 1 /\ gen' \in Nat /\ cached' = [k \in Clients!Keys |-> None] /\ keys' = {} /\ due' = {}
  BY DEF Clients!Invalidate, ClientsTyped
<1>2. pending' \in [Clients!Keys -> Slot \cup {None}]
  BY DEF Clients!Invalidate, ClientsTyped
<1>3. ClientsTyped' /\ CachedCurrent'
  BY <1>1, <1>2 DEF ClientsTyped, CachedCurrent
<1>4. MakingPending'
  BY <1>1 DEF MakingPending, ClientsTyped, Making
<1> QED
  BY <1>3, <1>4 DEF Clients!OneRequestPerKey

(* A token request ends: its slot is free and nobody waits for it. *)
LEMMA SettledKeeps ==
  ASSUME ClientsInv, NEW a \in Slot, making[a].pc # "free", Clients!Settled(a), UNCHANGED <<gen, epoch>>
  PROVE  /\ pending' \in [Clients!Keys -> Slot \cup {None}] /\ making' \in [Slot -> Making]
         /\ MakingPending' /\ Clients!OneRequestPerKey'
<1> USE ServerAssumption DEF ClientsInv
<1>1. making' = [making EXCEPT ![a] = Clients!Free] /\ Clients!Free \in Making /\ Clients!Free.pc = "free"
  BY DEF Clients!Settled, Clients!Free, Making
<1>2. pending' = [k \in Clients!Keys |-> IF pending[k] = a THEN None ELSE pending[k]]
  BY DEF Clients!Settled
<1>3. making' \in [Slot -> Making] /\ pending' \in [Clients!Keys -> Slot \cup {None}]
  BY <1>1, <1>2 DEF ClientsTyped
<1>4. \A b \in Slot : making'[b].pc # "free" => b # a /\ making'[b] = making[b]
  BY <1>1 DEF ClientsTyped
<1>5. MakingPending'
  BY <1>2, <1>4 DEF MakingPending
<1>6. Clients!OneRequestPerKey'
  BY <1>4 DEF Clients!OneRequestPerKey
<1> QED
  BY <1>3, <1>5, <1>6

(* Only the caller's own state changes. *)
LEMMA CallerKeeps ==
  ASSUME ClientsInv, caller' \in [Caller -> Calling],
         UNCHANGED <<cached, due, keys, pending, gen, making, epoch>>
  PROVE  ClientsInv'
BY DEF ClientsInv, ClientsTyped, CachedCurrent, MakingPending, Clients!OneRequestPerKey

LEMMA AskKeeps ==
  ASSUME ClientsInv, NEW c \in Caller, NEW k \in Clients!Keys,
         Clients!AskCached(c, k) \/ Clients!AskJoin(c, k) \/ Clients!AskCreate(c, k)
  PROVE  ClientsInv'
<1> USE ServerAssumption DEF ClientsInv
<1>1. CASE Clients!AskCached(c, k)
  <2>1. Clients!Using(cached[k]) \in Calling
    BY <1>1 DEF Clients!AskCached, Clients!Usable, Clients!Using, ClientsTyped, Calling
  <2>2. caller' \in [Caller -> Calling]
    BY <1>1, <2>1 DEF Clients!AskCached, ClientsTyped
  <2> QED
    BY <1>1, <2>2, CallerKeeps DEF Clients!AskCached
<1>2. CASE Clients!AskJoin(c, k)
  <2>1. [pc |-> "waiting", on |-> pending[k], client |-> None] \in Calling
    BY <1>2 DEF Clients!AskJoin, ClientsTyped, Calling
  <2>2. caller' \in [Caller -> Calling]
    BY <1>2, <2>1 DEF Clients!AskJoin, Clients!Waits, ClientsTyped
  <2> QED
    BY <1>2, <2>2, CallerKeeps DEF Clients!AskJoin
<1>3. CASE Clients!AskCreate(c, k)
  <2> DEFINE a == CHOOSE x \in Clients!FreeSlots : TRUE
             m == [Clients!Free EXCEPT !.pc = "app", !.key = k, !.gen = gen]
  <2>1. a \in Slot /\ making[a].pc = "free" /\ pending[k] = None
    BY <1>3 DEF Clients!AskCreate, Clients!FreeSlots
  <2>2. making' = [making EXCEPT ![a] = m] /\ pending' = [pending EXCEPT ![k] = a]
        /\ caller' = [caller EXCEPT ![c] = [pc |-> "waiting", on |-> a, client |-> None]]
        /\ UNCHANGED <<cached, due, keys, gen, epoch>>
    BY <1>3 DEF Clients!AskCreate, Clients!Waits
  <2> HIDE DEF a
  <2>3. m \in Making /\ [pc |-> "waiting", on |-> a, client |-> None] \in Calling
    BY <2>1 DEF Making, Calling, ClientsTyped, Clients!Free
  <2>4. ClientsTyped'
    BY <2>1, <2>2, <2>3 DEF ClientsTyped
  <2>5. making'[a] = m /\ pending'[k] = a /\ \A b \in Slot : b # a => making'[b] = making[b]
    BY <2>1, <2>2 DEF ClientsTyped
  <2> HIDE DEF m
  <2>6. m.gen = gen /\ m.key = k
    BY DEF m, Clients!Free
  <2>7. \A b \in Slot : making[b].pc # "free" /\ making[b].gen = gen => making[b].key # k
    BY <2>1 DEF MakingPending
  <2>8. MakingPending'
    BY <2>1, <2>2, <2>5, <2>6, <2>7 DEF MakingPending, ClientsTyped
  <2>9. Clients!OneRequestPerKey'
    BY <2>2, <2>5, <2>6, <2>7 DEF Clients!OneRequestPerKey
  <2> QED
    BY <2>2, <2>4, <2>8, <2>9 DEF CachedCurrent
<1> QED
  BY <1>1, <1>2, <1>3

LEMMA AttemptKeeps ==
  ASSUME ClientsInv, NEW a \in Slot, Clients!AttemptStep(a) \/ Clients!PostFails(a)
  PROVE  ClientsInv'
<1> USE ServerAssumption DEF ClientsInv
<1>1. CASE Clients!WithApp(a) \/ Clients!Mint(a)
  <2> DEFINE m == IF making[a].pc = "app" THEN [making[a] EXCEPT !.pc = "post"]
                  ELSE [making[a] EXCEPT !.pc = "minted", !.epoch = epoch]
  <2>4. making[a] \in Making /\ making[a].pc \in {"app", "post"} /\ epoch \in Nat
    BY <1>1 DEF Clients!WithApp, Clients!Mint, ClientsTyped
  <2>5. m \in Making /\ m.pc # "free" /\ m.gen = making[a].gen /\ m.key = making[a].key
    BY <2>4 DEF Making
  <2>6. making' = [making EXCEPT ![a] = m]
    BY <1>1, <2>4 DEF Clients!WithApp, Clients!Mint, ClientsTyped, Making
  <2> HIDE DEF m
  <2>1. making' \in [Slot -> Making]
    BY <2>5, <2>6 DEF ClientsTyped
  <2>2. \A b \in Slot : /\ making'[b].pc # "free" <=> making[b].pc # "free"
                        /\ making'[b].gen = making[b].gen /\ making'[b].key = making[b].key
    BY <2>4, <2>5, <2>6 DEF ClientsTyped
  <2>3. UNCHANGED <<cached, due, keys, pending, gen, caller, epoch>>
    BY <1>1 DEF Clients!WithApp, Clients!Mint
  <2> QED
    BY <2>1, <2>2, <2>3 DEF ClientsTyped, CachedCurrent, MakingPending, Clients!OneRequestPerKey
<1>2. CASE Clients!Create(a)
  <2> DEFINE client == [gen |-> gen, epoch |-> making[a].epoch]
  <2>1. making[a].pc = "minted" /\ making[a].key \in Clients!Keys
    BY <1>2 DEF Clients!Create, MakingPending
  <2>2. client \in Client /\ Clients!Using(client) \in Calling /\ client # None /\ client.gen = gen
    BY <2>1 DEF Client, Calling, Clients!Using, ClientsTyped, Making
  <2>3. cached' = [cached EXCEPT ![making[a].key] = client] /\ keys' = keys \cup {making[a].key}
        /\ Clients!Answered(a, Clients!Using(client)) /\ Clients!Settled(a) /\ UNCHANGED <<gen, epoch>>
        /\ due' = due \ {making[a].key}
    BY <1>2 DEF Clients!Create
  <2> HIDE DEF client
  <2>4. caller' \in [Caller -> Calling]
    BY <2>2, <2>3 DEF Clients!Answered, ClientsTyped
  <2>5. ClientsTyped'
    BY <2>1, <2>2, <2>3, <2>4, SettledKeeps DEF ClientsTyped
  <2>6. CachedCurrent'
    BY <2>1, <2>2, <2>3 DEF CachedCurrent, ClientsTyped
  <2> QED
    BY <2>1, <2>3, <2>5, <2>6, SettledKeeps
<1>3. CASE Clients!Reject(a) \/ Clients!PostFails(a)
  <2>1. making[a].pc # "free" /\ Clients!Answered(a, Clients!Rejected) /\ Clients!Settled(a)
        /\ UNCHANGED <<cached, due, keys, gen, epoch>>
    BY <1>3 DEF Clients!Reject, Clients!PostFails
  <2>2. caller' \in [Caller -> Calling]
    BY <2>1 DEF Clients!Answered, Clients!Rejected, ClientsTyped, Calling
  <2> QED
    BY <2>1, <2>2, SettledKeeps DEF ClientsTyped, CachedCurrent
<1> QED
  BY <1>1, <1>2, <1>3 DEF Clients!AttemptStep

LEMMA ClientsNext == ClientsInv /\ [Clients!Next]_ivars => ClientsInv'
<1> SUFFICES ASSUME ClientsInv, [Clients!Next]_ivars PROVE ClientsInv'
  OBVIOUS
<1>1. CASE UNCHANGED ivars
  BY <1>1 DEF ivars, ClientsInv, ClientsTyped, CachedCurrent, MakingPending, Clients!OneRequestPerKey
<1>2. ASSUME NEW c \in Caller, Clients!Ask(c) PROVE ClientsInv'
  <2>1. PICK list \in Lists : Clients!AskCached(c, Clients!Key(list))
          \/ Clients!AskJoin(c, Clients!Key(list)) \/ Clients!AskCreate(c, Clients!Key(list))
    BY <1>2 DEF Clients!Ask
  <2>2. Clients!Key(list) \in Clients!Keys
    BY DEF Clients!Keys
  <2> QED
    BY <2>1, <2>2, AskKeeps
<1>3. ASSUME NEW c \in Caller, Clients!Use(c) \/ Clients!Again(c) PROVE ClientsInv'
  <2>1. caller' \in [Caller -> Calling]
    BY <1>3 DEF Clients!Use, Clients!Again, Clients!Idle, Clients!Rejected, Calling, ClientsInv, ClientsTyped
  <2> QED
    BY <1>3, <2>1, CallerKeeps DEF Clients!Use, Clients!Again
<1>4. ASSUME NEW c \in Caller, Clients!Unauthorized(c) PROVE ClientsInv'
  <2>1. caller' \in [Caller -> Calling]
    BY <1>4 DEF Clients!Unauthorized, Clients!Rejected, Calling, ClientsInv, ClientsTyped
  <2> QED
    BY <1>4, <2>1, InvalidateKeeps DEF Clients!Unauthorized
<1>5. CASE Clients!Revoke
  BY <1>5 DEF Clients!Revoke, ClientsInv, ClientsTyped, CachedCurrent, MakingPending, Clients!OneRequestPerKey
<1>6. CASE Clients!VerificationFails
  BY <1>6, InvalidateKeeps DEF Clients!VerificationFails, ClientsInv, ClientsTyped
<1>7. CASE Clients!ComeDue
  <2>1. due' \subseteq keys
    BY <1>7 DEF Clients!ComeDue, ClientsInv, ClientsTyped
  <2> QED
    BY <1>7, <2>1 DEF Clients!ComeDue, ClientsInv, ClientsTyped, CachedCurrent, MakingPending,
                      Clients!OneRequestPerKey
<1> QED
  BY <1>1, <1>2, <1>3, <1>4, <1>5, <1>6, <1>7, AttemptKeeps DEF Clients!Next, Clients!CallerStep

(* What is cached, pending and made belongs to a generation, in every state. *)
THEOREM ClientsInvariant == Clients!Spec => []ClientsInv
  BY ClientsInit, ClientsNext, PTL DEF Clients!Spec, Clients!vars, ivars

(* A client that was asked for before an invalidation is not handed out. *)
THEOREM ClientsCurrent == Clients!Spec => HandedOutIsCurrent
<1>1. ClientsInv /\ [Clients!Next]_ivars => [HandedOut]_ivars
  <2> SUFFICES ASSUME ClientsInv, Clients!Next, NEW c \in Caller,
                      caller[c].pc # "using", caller'[c].pc = "using"
               PROVE  caller'[c].client.gen = gen'
    BY DEF HandedOut
  <2> USE DEF ClientsInv
  <2>1. ASSUME NEW d \in Caller, NEW list \in Lists, Clients!AskCached(d, Clients!Key(list))
        PROVE  caller'[c].client.gen = gen'
    <3>1. Clients!Key(list) \in Clients!Keys
      BY DEF Clients!Keys
    <3>2. caller' = [caller EXCEPT ![d] = Clients!Using(cached[Clients!Key(list)])]
          /\ cached[Clients!Key(list)] # None /\ gen' = gen
      BY <2>1 DEF Clients!AskCached, Clients!Usable
    <3>3. c = d
      BY <3>2 DEF ClientsTyped
    <3> QED
      BY <3>1, <3>2, <3>3 DEF CachedCurrent, Clients!Using, ClientsTyped
  <2>2. ASSUME NEW a \in Slot, Clients!Create(a) PROVE caller'[c].client.gen = gen'
    <3> DEFINE client == [gen |-> gen, epoch |-> making[a].epoch]
    <3>1. Clients!Answered(a, Clients!Using(client))
      BY <2>2 DEF Clients!Create
    <3>4. gen' = gen
      BY <2>2 DEF Clients!Create
    <3>2. client.gen = gen
      OBVIOUS
    <3> HIDE DEF client
    <3>3. caller'[c].client = client
      BY <3>1 DEF Clients!Answered, Clients!Using
    <3> QED
      BY <3>2, <3>3, <3>4
  <2>3. ASSUME NEW a \in Slot, Clients!Reject(a) \/ Clients!PostFails(a) PROVE FALSE
    <3>1. Clients!Answered(a, Clients!Rejected)
      BY <2>3 DEF Clients!Reject, Clients!PostFails
    <3>2. caller'[c] = Clients!Rejected \/ caller'[c] = caller[c]
      BY <3>1 DEF Clients!Answered
    <3> QED
      BY <3>2 DEF Clients!Rejected
  <2>4. ASSUME NEW d \in Caller, NEW k,
               Clients!AskJoin(d, k) \/ Clients!AskCreate(d, k) \/ Clients!Use(d)
               \/ Clients!Unauthorized(d) \/ Clients!Again(d)
        PROVE FALSE
    BY <2>4 DEF Clients!AskJoin, Clients!AskCreate, Clients!Use, Clients!Unauthorized, Clients!Again,
                Clients!Waits, Clients!Idle, Clients!Rejected, ClientsTyped
  <2>5. ASSUME NEW a \in Slot, Clients!WithApp(a) \/ Clients!Mint(a) PROVE FALSE
    BY <2>5 DEF Clients!WithApp, Clients!Mint
  <2>6. ASSUME Clients!Revoke \/ Clients!VerificationFails \/ Clients!ComeDue PROVE FALSE
    BY <2>6 DEF Clients!Revoke, Clients!VerificationFails, Clients!ComeDue
  <2> QED
    BY <2>1, <2>2, <2>3, <2>4, <2>5, <2>6
       DEF Clients!Next, Clients!CallerStep, Clients!AttemptStep, Clients!Ask
<1> QED
  BY <1>1, ClientsInvariant, PTL DEF Clients!Spec, Clients!vars, ivars, HandedOutIsCurrent

-----------------------------------------------------------------------------
(* The jobs                                                                *)

(* A job that waits for nobody has no attempt, and its rows are new.        *)
JobQueued(j) ==
  /\ exec[j].pc # "idle" => queue[j].state = "locked"
  /\ queue[j].state = "none" => shadow[j].status = "none"
  /\ queue[j].state # "none" => asked[j] \in Asks

(* What the steps of an attempt have found out about the payload.           *)
JobAttempt(j) ==
  /\ exec[j].pc \in {"execute", "succeed"} => asked[j].outcome # "invalid"
  /\ exec[j].pc = "succeed" => Jobs!Outcome(asked[j], queue[j].attempts) = "success"
  /\ exec[j].pc \in {"idle", "start", "execute", "succeed"} => exec[j].error = "none"
  /\ exec[j].error = "permanent" => asked[j].outcome \in {"permanent", "invalid"}

(* After a final status no attempt writes the row, unless a fault has hit   *)
(* the attempt that wrote it.                                               *)
JobOver(j) ==
  shadow[j].status \in Jobs!Final =>
    \/ shadow[j].attempts \in hit[j]
    \/ /\ shadow[j].attempts = queue[j].attempts
       /\ \/ exec[j].pc = "return" \/ queue[j].state = "done"
          \/ queue[j].attempts = MaxTries /\ exec[j].pc \in {"throw", "idle"}

(* What StatusAsAsked says of one job, and what ToldStands says of a waiter. *)
JobStatus(j) ==
  /\ shadow[j].status = "succeeded" => Jobs!Outcome(asked[j], shadow[j].attempts) = "success"
  /\ shadow[j].status = "failed" =>
       asked[j].outcome \in {"permanent", "invalid"} \/ shadow[j].attempts = MaxTries
  /\ shadow[j].status = "retrying" => shadow[j].attempts < MaxTries
AnswerStands(w) ==
  told[w].answer \in Jobs!Final =>
    \/ shadow[told[w].job] = [status |-> told[w].answer, attempts |-> told[w].attempts]
    \/ told[w].attempts \in hit[told[w].job]
(* Only a wait for a job gets an answer. *)
AnswerAsked(w) == told[w].answer # "none" => told[w].job \in Job

JobOK(j) == JobQueued(j) /\ JobAttempt(j) /\ JobOver(j) /\ JobStatus(j)

JobsInv ==
  /\ Jobs!TypeOK
  /\ \A j \in Job : JobOK(j)
  /\ \A w \in Waiter : AnswerAsked(w) /\ AnswerStands(w)

LEMMA JobsInit == Jobs!Init => JobsInv
  BY ServerAssumption DEF Jobs!Init, JobsInv, Jobs!TypeOK, JobOK, JobStatus, AnswerStands,
     AnswerAsked, Jobs!Final, Jobs!Statuses, Jobs!NoAttempt, Jobs!NoWait, Jobs!Nothing,
     JobQueued, JobAttempt, JobOver

(* The diagnostic handler ends as one of the payloads says. *)
LEMMA OutcomeType ==
  ASSUME NEW ask \in Asks, NEW n \in Nat
  PROVE  Jobs!Outcome(ask, n) \in {"success", "permanent", "invalid", "retryable"}
BY ServerAssumption DEF Jobs!Outcome

(* What the attempt of one job does to its rows. *)
Attends(j, q, s, e, h) ==
  /\ queue' = [queue EXCEPT ![j] = q]
  /\ shadow' = [shadow EXCEPT ![j] = s]
  /\ exec' = [exec EXCEPT ![j] = e]
  /\ hit' = [hit EXCEPT ![j] = h]
QueueRow == [state : {"none", "ready", "locked", "done"}, attempts : 0 .. MaxTries]
ShadowRow == [status : Jobs!Statuses, attempts : 0 .. MaxTries]
AttemptRow == [pc : {"idle", "start", "refuse", "execute", "succeed", "fail", "return", "throw"},
               error : {"none", "retryable", "permanent"}]

(* An attempt that leaves the row of its job alone once the row is final, or  *)
(* that a fault has hit, keeps what waiters were told.                      *)
LEMMA AttendsKeeps ==
  ASSUME JobsInv, NEW j \in Job,
         NEW q \in QueueRow, NEW s \in ShadowRow, NEW e \in AttemptRow,
         NEW h \in SUBSET (0 .. MaxTries),
         Attends(j, q, s, e, h), hit[j] \subseteq h,
         s # shadow[j] => exec[j].pc \notin {"idle", "return", "throw"} /\ queue[j].state # "done",
         JobOK(j)', UNCHANGED <<asked, told>>, jfaults' \in 0 .. MaxErrors
  PROVE  JobsInv'
<1> USE DEF JobsInv
<1>1. Jobs!TypeOK'
  BY DEF Jobs!TypeOK, Attends, QueueRow, ShadowRow, AttemptRow
<1>2. ASSUME NEW k \in Job, k # j PROVE JobOK(k)'
  <2>1. queue'[k] = queue[k] /\ shadow'[k] = shadow[k] /\ exec'[k] = exec[k] /\ hit'[k] = hit[k]
        /\ asked'[k] = asked[k]
    BY <1>2 DEF Attends, Jobs!TypeOK
  <2> QED
    BY <2>1 DEF JobOK, JobQueued, JobAttempt, JobOver, JobStatus, Jobs!Outcome
<1>3. ASSUME NEW w \in Waiter PROVE (AnswerAsked(w) /\ AnswerStands(w))'
  <2>1. AnswerAsked(w)'
    BY DEF AnswerAsked
  <2> SUFFICES ASSUME told[w].answer \in Jobs!Final PROVE AnswerStands(w)'
    BY <2>1 DEF AnswerStands, Jobs!Final
  <2>2. told[w].job \in Job /\ told' = told
    BY DEF AnswerAsked, Jobs!Final
  <2>3. CASE told[w].job # j
    BY <2>2, <2>3 DEF AnswerStands, Attends, Jobs!TypeOK
  <2>4. CASE told[w].job = j
    <3>1. shadow'[j] = s /\ hit'[j] = h
      BY DEF Attends, Jobs!TypeOK
    <3>2. CASE told[w].attempts \in hit[j]
      BY <2>2, <2>4, <3>1, <3>2 DEF AnswerStands
    <3>3. CASE told[w].attempts \notin hit[j]
      <4>1. shadow[j] = [status |-> told[w].answer, attempts |-> told[w].attempts]
        BY <2>4, <3>3 DEF AnswerStands
      <4>4. shadow[j].status \in Jobs!Final /\ shadow[j].attempts \notin hit[j]
        BY <4>1, <3>3
      <4>2. exec[j].pc \in {"idle", "return", "throw"} \/ queue[j].state = "done"
        BY <4>4 DEF JobOK, JobOver
      <4>3. s = shadow[j]
        BY <4>2
      <4> QED BY <2>2, <2>4, <3>1, <4>3 DEF AnswerStands
    <3> QED BY <3>2, <3>3
  <2> QED BY <2>3, <2>4
<1> QED
  BY <1>1, <1>2, <1>3

(* An error of the database at a step of an attempt. *)
LEMMA FaultKeeps ==
  ASSUME JobsInv, NEW j \in Job, NEW e \in AttemptRow, Jobs!Fault(j),
         exec[j].pc \notin {"idle", "return", "throw"}, e.pc \in {"fail", "throw"},
         e.error = "permanent" => exec[j].error = "permanent",
         exec' = [exec EXCEPT ![j] = e], UNCHANGED <<asked, queue, shadow, told>>
  PROVE  JobsInv'
<1> USE ServerAssumption DEF JobsInv, Jobs!TypeOK
<1> DEFINE h == hit[j] \cup {queue[j].attempts}
<1>1. queue[j] \in QueueRow /\ shadow[j] \in ShadowRow /\ h \in SUBSET (0 .. MaxTries)
  BY DEF QueueRow, ShadowRow
<1>2. Attends(j, queue[j], shadow[j], e, h)
  BY DEF Attends, Jobs!Fault, Jobs!AttemptNumber
<1>3. jfaults' \in 0 .. MaxErrors
  BY DEF Jobs!Fault
<1>4. exec'[j] = e /\ hit'[j] = h
  BY DEF Jobs!Fault, Jobs!AttemptNumber
<1>5. JobOK(j)'
  BY <1>4 DEF JobOK, JobQueued, JobAttempt, JobOver, JobStatus, Jobs!Outcome
<1> HIDE DEF Jobs!TypeOK, JobsInv
<1> QED
  BY <1>1, <1>2, <1>3, <1>5, AttendsKeeps
(* Graphile Worker takes a job, ends it or takes it back; its row stays.    *)
LEMMA QueueKeeps ==
  ASSUME JobsInv, NEW j \in Job, NEW q \in QueueRow, NEW e \in AttemptRow,
         queue' = [queue EXCEPT ![j] = q], exec' = [exec EXCEPT ![j] = e],
         q.state # "none", queue[j].state # "none",
         e.pc \in {"idle", "start"}, e.error = "none",
         e.pc = "start" => q.state = "locked",
         JobOver(j)',
         UNCHANGED <<asked, shadow, told, hit, jfaults>>
  PROVE  JobsInv'
<1> USE DEF JobsInv, Jobs!TypeOK
<1>1. shadow[j] \in ShadowRow /\ hit[j] \in SUBSET (0 .. MaxTries)
  BY DEF ShadowRow
<1>2. Attends(j, q, shadow[j], e, hit[j])
  BY DEF Attends
<1>3. exec'[j] = e /\ queue'[j] = q /\ shadow'[j] = shadow[j] /\ asked'[j] = asked[j]
  OBVIOUS
<1>4. JobOK(j)'
  BY <1>3 DEF JobOK, JobQueued, JobAttempt, JobStatus, Jobs!Outcome
<1>5. jfaults' \in 0 .. MaxErrors
  OBVIOUS
<1> HIDE DEF Jobs!TypeOK, JobsInv
<1> QED
  BY <1>1, <1>2, <1>4, <1>5, AttendsKeeps

(* A job that was never queued has rows that nothing was written to. *)
LEMMA EnqueueKeeps ==
  ASSUME JobsInv, NEW j \in Job, NEW ask \in Asks, Jobs!Enqueue(j, ask)
  PROVE  JobsInv'
<1> USE DEF JobsInv
<1>1. Jobs!TypeOK'
  BY DEF Jobs!Enqueue, Jobs!NoFault, Jobs!TypeOK, Jobs!Statuses
<1>2. ASSUME NEW k \in Job PROVE JobOK(k)'
  <2>1. CASE k # j
    <3>1. queue'[k] = queue[k] /\ shadow'[k] = shadow[k] /\ exec'[k] = exec[k] /\ hit'[k] = hit[k]
          /\ asked'[k] = asked[k]
      BY <2>1 DEF Jobs!Enqueue, Jobs!NoFault, Jobs!TypeOK
    <3> QED
      BY <3>1 DEF JobOK, JobQueued, JobAttempt, JobOver, JobStatus, Jobs!Outcome
  <2>2. CASE k = j
    <3>1. exec'[j] = exec[j] /\ exec[j].pc = "idle" /\ shadow'[j].status = "queued"
          /\ queue'[j].state = "ready" /\ asked'[j] = ask
      BY DEF Jobs!Enqueue, Jobs!NoFault, Jobs!TypeOK, JobOK, JobQueued
    <3>2. exec[j].error = "none"
      BY <3>1 DEF JobOK, JobAttempt
    <3> QED
      BY <2>2, <3>1, <3>2 DEF JobOK, JobQueued, JobAttempt, JobOver, JobStatus, Jobs!Final
  <2> QED BY <2>1, <2>2
<1>3. ASSUME NEW w \in Waiter PROVE (AnswerAsked(w) /\ AnswerStands(w))'
  <2>1. shadow[j].status = "none"
    BY DEF Jobs!Enqueue, JobOK, JobQueued
  <2>2. \A k \in Job : k # j => shadow'[k] = shadow[k]
    BY DEF Jobs!Enqueue, Jobs!TypeOK
  <2>3. told' = told /\ hit' = hit
    BY DEF Jobs!Enqueue, Jobs!NoFault
  <2>4. told[w].job # j \/ shadow[told[w].job].status \notin Jobs!Final
    BY <2>1 DEF Jobs!Final
  <2> QED
    BY <2>2, <2>3, <2>4 DEF AnswerAsked, AnswerStands, Jobs!Final
<1> QED
  BY <1>1, <1>2, <1>3

(* Waiters only read. *)
LEMMA WaitersKeep ==
  ASSUME JobsInv, NEW w \in Waiter,
         (\E j \in Job : Jobs!Wait(w, j)) \/ Jobs!Poll(w) \/ Jobs!TimesOut(w)
  PROVE  JobsInv'
<1> USE DEF JobsInv
<1>1. UNCHANGED <<asked, queue, shadow, exec, hit, jfaults>>
  BY DEF Jobs!Wait, Jobs!Poll, Jobs!TimesOut, Jobs!NoFault
<1> DEFINE WaitRow == [job : Job \cup {NoJob}, answer : {"none", "timeout"} \cup Jobs!Final,
                       attempts : 0 .. MaxTries]
<1>2. told[w] \in WaitRow /\ told \in [Waiter -> WaitRow]
  BY DEF Jobs!TypeOK
<1>3. /\ told' \in [Waiter -> WaitRow] /\ \A v \in Waiter : v # w => told'[v] = told[v]
      /\ (AnswerAsked(w) /\ AnswerStands(w))'
  <2>1. ASSUME NEW j \in Job, Jobs!Wait(w, j) PROVE <1>3!:
    <3>1. told' = [told EXCEPT ![w].job = j] /\ told[w].answer = "none"
      BY <2>1 DEF Jobs!Wait, Jobs!NoWait
    <3>2. told'[w].answer = "none"
      BY <1>2, <3>1
    <3> QED
      BY <1>2, <3>1, <3>2 DEF Jobs!Final, AnswerAsked, AnswerStands
  <2>2. CASE Jobs!Poll(w)
    <3> DEFINE s == shadow[told[w].job]
    <3>1. told[w].job \in Job /\ s.status \in Jobs!Final /\ s \in ShadowRow
          /\ told' = [told EXCEPT ![w].answer = s.status, ![w].attempts = s.attempts]
      BY <2>2, <1>2 DEF Jobs!Poll, Jobs!Waiting, Jobs!TypeOK, ShadowRow
    <3>2. s = [status |-> s.status, attempts |-> s.attempts] /\ s.attempts \in 0 .. MaxTries
      BY <3>1 DEF ShadowRow
    <3>3. told'[w].job = told[w].job /\ told'[w].answer = s.status /\ told'[w].attempts = s.attempts
          /\ told' \in [Waiter -> WaitRow] /\ \A v \in Waiter : v # w => told'[v] = told[v]
      <4> HIDE DEF s
      <4> QED BY <1>2, <3>1, <3>2
    <3>4. shadow'[told'[w].job] = s
      BY <1>1, <3>3
    <3> HIDE DEF s
    <3> QED
      BY <3>1, <3>2, <3>3, <3>4 DEF AnswerAsked, AnswerStands
  <2>3. CASE Jobs!TimesOut(w)
    <3>1. told[w].job \in Job /\ told' = [told EXCEPT ![w].answer = "timeout"]
      BY <2>3, <1>2 DEF Jobs!TimesOut, Jobs!Waiting
    <3>2. told'[w].answer = "timeout" /\ told'[w].job = told[w].job
      BY <1>2, <3>1
    <3> QED
      BY <1>2, <3>1, <3>2 DEF Jobs!Final, AnswerAsked, AnswerStands
  <2> QED BY <2>1, <2>2, <2>3
<1>6. Jobs!TypeOK'
  BY <1>1, <1>3 DEF Jobs!TypeOK
<1>4. ASSUME NEW j \in Job PROVE JobOK(j)'
  BY <1>1 DEF JobOK, JobQueued, JobAttempt, JobOver, JobStatus, Jobs!Outcome
<1>5. ASSUME NEW v \in Waiter PROVE (AnswerAsked(v) /\ AnswerStands(v))'
  BY <1>1, <1>3 DEF AnswerAsked, AnswerStands
<1> QED
  BY <1>4, <1>5, <1>6

(* A worker that dies hits every attempt that it was running. *)
LEMMA CrashKeeps == JobsInv /\ Jobs!Crash => JobsInv'
<1> SUFFICES ASSUME JobsInv, Jobs!Crash PROVE JobsInv'
  OBVIOUS
<1> USE DEF JobsInv
<1>1. /\ exec' = [j \in Job |-> Jobs!NoAttempt]
      /\ hit' = [j \in Job |-> IF exec[j].pc # "idle" THEN hit[j] \cup {queue[j].attempts} ELSE hit[j]]
      /\ jfaults' \in 0 .. MaxErrors /\ UNCHANGED <<asked, queue, shadow, told>>
  BY ServerAssumption DEF Jobs!Crash, Jobs!Busy, Jobs!AttemptNumber, Jobs!TypeOK
<1>2. Jobs!TypeOK'
  <2>1. \A j \in Job : hit[j] \cup {queue[j].attempts} \in SUBSET (0 .. MaxTries)
    BY DEF Jobs!TypeOK
  <2>2. hit' \in [Job -> SUBSET (0 .. MaxTries)]
    BY <1>1, <2>1 DEF Jobs!TypeOK
  <2> QED BY <1>1, <2>2 DEF Jobs!TypeOK, Jobs!NoAttempt
<1>3. ASSUME NEW j \in Job PROVE JobOK(j)'
  <2>1. exec'[j].pc = "idle" /\ exec'[j].error = "none" /\ hit[j] \subseteq hit'[j]
        /\ (exec[j].pc # "idle" => queue[j].attempts \in hit'[j])
    BY <1>1 DEF Jobs!NoAttempt
  <2>2. asked' = asked /\ queue' = queue /\ shadow' = shadow
    BY <1>1
  <2> QED
    BY <2>1, <2>2 DEF JobOK, JobQueued, JobAttempt, JobOver, JobStatus, Jobs!Outcome
<1>4. ASSUME NEW w \in Waiter PROVE (AnswerAsked(w) /\ AnswerStands(w))'
  <2>1. \A j \in Job : hit[j] \subseteq hit'[j]
    BY <1>1
  <2> QED BY <1>1, <2>1 DEF AnswerAsked, AnswerStands, Jobs!Final
<1> QED
  BY <1>2, <1>3, <1>4

(* The attempt is recorded, unless its start cannot be. *)
LEMMA StartedKeeps ==
  ASSUME JobsInv, NEW j \in Job, Jobs!MarkJobStarted(j) PROVE JobsInv'
<1> USE DEF JobsInv
<1>1. CASE Jobs!Fault(j) /\ Jobs!Goto(j, "throw") /\ UNCHANGED <<asked, queue, shadow, told>>
  <2> DEFINE e == [exec[j] EXCEPT !.pc = "throw"]
  <2>1. e \in AttemptRow /\ exec' = [exec EXCEPT ![j] = e] /\ e.error = exec[j].error
        /\ e.pc = "throw"
    BY <1>1 DEF Jobs!TypeOK, AttemptRow, Jobs!Goto
  <2>2. exec[j].pc = "start"
    BY DEF Jobs!MarkJobStarted
  <2> HIDE DEF e
  <2> QED
    BY <1>1, <2>1, <2>2, FaultKeeps
<1>2. CASE ~(Jobs!Fault(j) /\ Jobs!Goto(j, "throw") /\ UNCHANGED shadow)
  <2> DEFINE s == [status |-> "running", attempts |-> queue[j].attempts]
             e == IF asked[j].outcome = "invalid" THEN [pc |-> "refuse", error |-> "permanent"]
                  ELSE [exec[j] EXCEPT !.pc = "execute"]
  <2>1. s \in ShadowRow /\ e \in AttemptRow /\ queue[j] \in QueueRow /\ hit[j] \in SUBSET (0 .. MaxTries)
    BY DEF Jobs!TypeOK, ShadowRow, AttemptRow, QueueRow, Jobs!Statuses
  <2>2. Attends(j, queue[j], s, e, hit[j]) /\ UNCHANGED <<asked, told, jfaults>>
    BY <1>2 DEF Jobs!MarkJobStarted, Attends, Jobs!NoFault, Jobs!Goto, Jobs!Throws,
                Jobs!AttemptNumber, Jobs!TypeOK
  <2>3. queue'[j] = queue[j] /\ shadow'[j] = s /\ exec'[j] = e /\ asked'[j] = asked[j]
    BY <2>2 DEF Attends, Jobs!TypeOK
  <2>4. JobOK(j)'
    BY <2>3 DEF JobOK, JobQueued, JobAttempt, JobOver, JobStatus, Jobs!Final, Jobs!MarkJobStarted
  <2>5. exec[j].pc = "start" /\ queue[j].state = "locked" /\ jfaults' \in 0 .. MaxErrors
    BY <2>2 DEF Jobs!MarkJobStarted, JobOK, JobQueued, Jobs!TypeOK
  <2> HIDE DEF s, e
  <2> QED
    BY <2>1, <2>2, <2>4, <2>5, AttendsKeeps
<1> QED
  BY <1>1, <1>2 DEF Jobs!MarkJobStarted

(* The handler ends as the payload says, or is aborted. *)
LEMMA ExecuteKeeps ==
  ASSUME JobsInv, NEW j \in Job, Jobs!Execute(j) PROVE JobsInv'
<1> USE DEF JobsInv
<1> DEFINE outcome == Jobs!Outcome(asked[j], queue[j].attempts)
<1>1. queue[j].state = "locked" /\ asked[j] \in Asks /\ asked[j].outcome # "invalid"
      /\ queue[j].attempts \in Nat /\ exec[j].error = "none"
      /\ exec[j].pc = "execute"
  BY ServerAssumption DEF Jobs!Execute, JobOK, JobQueued, JobAttempt, Jobs!TypeOK
<1>2. outcome \in {"success", "permanent", "retryable"}
      /\ (outcome = "permanent" => asked[j].outcome = "permanent")
  BY <1>1, OutcomeType DEF Jobs!Outcome
<1>3. CASE Jobs!Fault(j) /\ Jobs!Throws(j, "fail", "retryable")
  <2>1. [pc |-> "fail", error |-> "retryable"] \in AttemptRow
    BY DEF AttemptRow
  <2> QED
    BY <1>1, <1>3, <2>1, FaultKeeps DEF Jobs!Execute, Jobs!Throws
<1>4. CASE ~(Jobs!Fault(j) /\ Jobs!Throws(j, "fail", "retryable"))
  <2> DEFINE e == IF outcome = "success" THEN [exec[j] EXCEPT !.pc = "succeed"]
                  ELSE [pc |-> "fail", error |-> outcome]
  <2>1. e \in AttemptRow /\ queue[j] \in QueueRow /\ shadow[j] \in ShadowRow
        /\ hit[j] \in SUBSET (0 .. MaxTries)
    BY <1>2 DEF Jobs!TypeOK, ShadowRow, AttemptRow, QueueRow
  <2>2. Attends(j, queue[j], shadow[j], e, hit[j]) /\ UNCHANGED <<asked, told, jfaults>>
    BY <1>4 DEF Jobs!Execute, Attends, Jobs!NoFault, Jobs!Goto, Jobs!Throws, Jobs!AttemptNumber,
                Jobs!TypeOK
  <2>3. queue'[j] = queue[j] /\ shadow'[j] = shadow[j] /\ exec'[j] = e /\ asked'[j] = asked[j]
        /\ hit'[j] = hit[j]
    BY <2>2 DEF Attends, Jobs!TypeOK
  <2>4. e.pc \in {"succeed", "fail"} /\ (e.pc = "succeed" => outcome = "success" /\ e.error = "none")
        /\ (e.error = "permanent" => asked[j].outcome = "permanent")
    BY <1>1, <1>2
  <2> HIDE DEF e
  <2>5. JobOK(j)'
    BY <1>1, <2>3, <2>4 DEF JobOK, JobQueued, JobAttempt, JobOver, JobStatus, Jobs!Outcome
  <2>6. jfaults' \in 0 .. MaxErrors
    BY <2>2 DEF Jobs!TypeOK
  <2> QED
    BY <2>1, <2>2, <2>5, <2>6, AttendsKeeps
<1> QED
  BY <1>3, <1>4

(* The success is recorded, or counts as a failure. *)
LEMMA SucceededKeeps ==
  ASSUME JobsInv, NEW j \in Job, Jobs!MarkJobSucceeded(j) PROVE JobsInv'
<1> USE DEF JobsInv
<1>1. exec[j].pc = "succeed" /\ queue[j].state = "locked"
      /\ Jobs!Outcome(asked[j], queue[j].attempts) = "success" /\ exec[j].error = "none"
  BY DEF Jobs!MarkJobSucceeded, JobOK, JobQueued, JobAttempt
<1>2. CASE Jobs!Fault(j) /\ Jobs!Throws(j, "fail", "retryable") /\ UNCHANGED shadow
  <2>1. [pc |-> "fail", error |-> "retryable"] \in AttemptRow
    BY DEF AttemptRow
  <2> QED
    BY <1>1, <1>2, <2>1, FaultKeeps DEF Jobs!MarkJobSucceeded, Jobs!Throws
<1>3. CASE ~(Jobs!Fault(j) /\ Jobs!Throws(j, "fail", "retryable") /\ UNCHANGED shadow)
  <2> DEFINE s == [status |-> "succeeded", attempts |-> queue[j].attempts]
             e == [exec[j] EXCEPT !.pc = "return"]
  <2>1. s \in ShadowRow /\ e \in AttemptRow /\ queue[j] \in QueueRow /\ hit[j] \in SUBSET (0 .. MaxTries)
    BY DEF Jobs!TypeOK, ShadowRow, AttemptRow, QueueRow, Jobs!Statuses, Jobs!Final
  <2>2. Attends(j, queue[j], s, e, hit[j]) /\ UNCHANGED <<asked, told, jfaults>>
    BY <1>3 DEF Jobs!MarkJobSucceeded, Attends, Jobs!NoFault, Jobs!Goto, Jobs!AttemptNumber,
                Jobs!TypeOK
  <2>3. queue'[j] = queue[j] /\ shadow'[j] = s /\ exec'[j] = e /\ asked'[j] = asked[j]
    BY <2>2 DEF Attends, Jobs!TypeOK
  <2>4. e.pc = "return" /\ e.error = "none" /\ s.status = "succeeded" /\ s.attempts = queue[j].attempts
    BY <1>1 DEF Jobs!TypeOK
  <2>5. jfaults' \in 0 .. MaxErrors
    BY <2>2 DEF Jobs!TypeOK
  <2> HIDE DEF s, e
  <2>6. JobOK(j)'
    BY <1>1, <2>3, <2>4 DEF JobOK, JobQueued, JobAttempt, JobOver, JobStatus, Jobs!Outcome
  <2> QED
    BY <1>1, <2>1, <2>2, <2>5, <2>6, AttendsKeeps
<1> QED
  BY <1>2, <1>3

(* The failure is recorded and thrown on, or ends the job. *)
LEMMA FailedKeeps ==
  ASSUME JobsInv, NEW j \in Job, Jobs!MarkJobFailed(j) PROVE JobsInv'
<1> USE DEF JobsInv
<1>1. exec[j].pc \in {"refuse", "fail"} /\ queue[j].state = "locked"
      /\ queue[j].attempts \in 0 .. MaxTries
  BY DEF Jobs!MarkJobFailed, JobOK, JobQueued, Jobs!TypeOK
<1>2. CASE Jobs!Fault(j) /\ Jobs!Goto(j, "throw") /\ UNCHANGED shadow
  <2> DEFINE e == [exec[j] EXCEPT !.pc = "throw"]
  <2>1. e \in AttemptRow /\ exec' = [exec EXCEPT ![j] = e] /\ e.error = exec[j].error
        /\ e.pc = "throw"
    BY <1>2 DEF Jobs!TypeOK, AttemptRow, Jobs!Goto
  <2> HIDE DEF e
  <2> QED
    BY <1>1, <1>2, <2>1, FaultKeeps DEF Jobs!MarkJobFailed
<1>3. CASE ~(Jobs!Fault(j) /\ Jobs!Goto(j, "throw") /\ UNCHANGED shadow)
  <2> DEFINE s == [status |-> Jobs!FailedStatus(j), attempts |-> queue[j].attempts]
             e == [exec[j] EXCEPT !.pc = Jobs!AfterFailure(j)]
  <2>1. s \in ShadowRow /\ e \in AttemptRow /\ queue[j] \in QueueRow /\ hit[j] \in SUBSET (0 .. MaxTries)
    BY DEF Jobs!TypeOK, ShadowRow, AttemptRow, QueueRow, Jobs!Statuses, Jobs!Final,
           Jobs!FailedStatus, Jobs!AfterFailure
  <2>2. Attends(j, queue[j], s, e, hit[j]) /\ UNCHANGED <<asked, told, jfaults>>
    BY <1>3 DEF Jobs!MarkJobFailed, Attends, Jobs!NoFault, Jobs!Goto, Jobs!AttemptNumber,
                Jobs!TypeOK
  <2>3. queue'[j] = queue[j] /\ shadow'[j] = s /\ exec'[j] = e /\ asked'[j] = asked[j]
    BY <2>2 DEF Attends, Jobs!TypeOK
  <2>4. /\ e.error = exec[j].error /\ s.attempts = queue[j].attempts
        /\ e.pc = IF exec[j].error = "permanent" THEN "return" ELSE "throw"
        /\ s.status = IF exec[j].error = "permanent" \/ queue[j].attempts = MaxTries
                      THEN "failed" ELSE "retrying"
    <3>1. e.error = exec[j].error /\ e.pc = Jobs!AfterFailure(j)
      BY DEF Jobs!TypeOK
    <3>2. queue[j].attempts >= MaxTries <=> queue[j].attempts = MaxTries
      BY <1>1, ServerAssumption
    <3> QED
      BY <3>1, <3>2 DEF Jobs!AfterFailure, Jobs!FailedStatus, Jobs!AttemptNumber
  <2>5. jfaults' \in 0 .. MaxErrors
    BY <2>2 DEF Jobs!TypeOK
  <2> HIDE DEF s, e
  <2>6. JobOK(j)'
    BY <1>1, <2>3, <2>4, ServerAssumption
       DEF JobOK, JobQueued, JobAttempt, JobOver, JobStatus, Jobs!Final
  <2> QED
    BY <1>1, <2>1, <2>2, <2>5, <2>6, AttendsKeeps
<1> QED
  BY <1>2, <1>3

LEMMA JobsNext == JobsInv /\ [Jobs!Next]_jvars => JobsInv'
<1> SUFFICES ASSUME JobsInv, [Jobs!Next]_jvars PROVE JobsInv'
  OBVIOUS
<1>1. CASE UNCHANGED jvars
  BY <1>1 DEF jvars, Jobs!Outcome, JobsInv, Jobs!TypeOK, JobOK, JobQueued, JobAttempt, JobOver,
     JobStatus, AnswerAsked, AnswerStands
<1>2. ASSUME NEW j \in Job, NEW ask \in Asks, Jobs!Enqueue(j, ask) PROVE JobsInv'
  BY <1>2, EnqueueKeeps
<1>3. ASSUME NEW j \in Job, Jobs!Take(j) PROVE JobsInv'
  <2> DEFINE q == [state |-> "locked", attempts |-> queue[j].attempts + 1]
             e == [exec[j] EXCEPT !.pc = "start"]
  <2>1. queue[j].state = "ready" /\ queue[j].attempts \in 0 .. MaxTries /\ queue[j].attempts < MaxTries
    BY <1>3 DEF Jobs!Take, Jobs!AttemptNumber, JobsInv, Jobs!TypeOK
  <2>2. exec[j].pc = "idle" /\ exec[j].error = "none"
    BY <2>1 DEF JobsInv, JobOK, JobQueued, JobAttempt
  <2>3. q \in QueueRow /\ e \in AttemptRow /\ e.pc = "start" /\ e.error = "none"
    BY <2>1, <2>2, ServerAssumption DEF QueueRow, AttemptRow, JobsInv, Jobs!TypeOK
  <2>4. queue' = [queue EXCEPT ![j] = q] /\ exec' = [exec EXCEPT ![j] = e]
        /\ UNCHANGED <<asked, shadow, told, hit, jfaults>>
    BY <1>3 DEF Jobs!Take, Jobs!Goto, Jobs!NoFault
  <2>5. JobOver(j)'
    BY <2>1, <2>2, <2>4 DEF JobsInv, JobOK, JobOver
  <2> HIDE DEF e
  <2> QED
    BY <2>1, <2>3, <2>4, <2>5, QueueKeeps
<1>4. ASSUME NEW j \in Job, Jobs!LockExpires(j) PROVE JobsInv'
  <2> DEFINE q == [queue[j] EXCEPT !.state = "ready"]
  <2>1. queue[j].state = "locked" /\ exec[j].pc = "idle" /\ exec[j].error = "none"
    BY <1>4 DEF Jobs!LockExpires, JobsInv, JobOK, JobAttempt
  <2>2. q \in QueueRow /\ q.state = "ready" /\ exec[j] \in AttemptRow /\ q.attempts = queue[j].attempts
    BY DEF QueueRow, AttemptRow, JobsInv, Jobs!TypeOK
  <2>3. queue' = [queue EXCEPT ![j] = q] /\ exec' = [exec EXCEPT ![j] = exec[j]]
        /\ UNCHANGED <<asked, shadow, told, hit, jfaults>>
    BY <1>4 DEF Jobs!LockExpires, Jobs!NoFault, JobsInv, Jobs!TypeOK
  <2> HIDE DEF q
  <2>4. JobOver(j)'
    BY <2>1, <2>2, <2>3 DEF JobsInv, JobOK, JobOver, Jobs!TypeOK
  <2> QED
    BY <2>1, <2>2, <2>3, <2>4, QueueKeeps
<1>5. ASSUME NEW w \in Waiter, (\E j \in Job : Jobs!Wait(w, j)) \/ Jobs!Poll(w) \/ Jobs!TimesOut(w)
      PROVE JobsInv'
  BY <1>5, WaitersKeep
<1>6. CASE Jobs!Crash
  BY <1>6, CrashKeeps
<1>7. ASSUME NEW j \in Job, Jobs!Complete(j) \/ Jobs!FailJob(j) PROVE JobsInv'
  <2> DEFINE q == [queue[j] EXCEPT !.state = IF exec[j].pc = "return" THEN "done" ELSE "ready"]
  <2>1. queue[j].state = "locked" /\ exec[j].pc \in {"return", "throw"}
    BY <1>7 DEF Jobs!Complete, Jobs!FailJob, JobsInv, JobOK, JobQueued
  <2>2. q \in QueueRow /\ q.attempts = queue[j].attempts
        /\ q.state = IF exec[j].pc = "return" THEN "done" ELSE "ready"
    BY DEF QueueRow, JobsInv, Jobs!TypeOK
  <2>3. Jobs!NoAttempt \in AttemptRow /\ Jobs!NoAttempt.pc = "idle" /\ Jobs!NoAttempt.error = "none"
    BY DEF AttemptRow, Jobs!NoAttempt
  <2>4. queue' = [queue EXCEPT ![j] = q] /\ exec' = [exec EXCEPT ![j] = Jobs!NoAttempt]
        /\ UNCHANGED <<asked, shadow, told, hit, jfaults>>
    BY <1>7 DEF Jobs!Complete, Jobs!FailJob, Jobs!NoFault, JobsInv, Jobs!TypeOK
  <2> HIDE DEF q
  <2>5. JobOver(j)'
    BY <2>1, <2>2, <2>3, <2>4 DEF JobsInv, JobOK, JobOver, Jobs!TypeOK
  <2>6. q.state # "none"
    BY <2>2
  <2> QED
    BY <2>1, <2>2, <2>3, <2>4, <2>5, <2>6, QueueKeeps
<1> QED
  BY <1>1, <1>2, <1>3, <1>4, <1>5, <1>6, <1>7, StartedKeeps, ExecuteKeeps, SucceededKeeps, FailedKeeps
     DEF Jobs!Next, Jobs!Attempts

(* The row of a job says what its payload asked for, and a waiter is told what
   stays, unless a fault hit the attempt. *)
THEOREM JobsTold == Jobs!Spec => []ToldStands
<1>1. Jobs!Init => JobsInv
  BY JobsInit
<1>2. JobsInv /\ [Jobs!Next]_jvars => JobsInv'
  BY JobsNext
<1>3. JobsInv => ToldStands
  BY DEF JobsInv, ToldStands, JobOK, JobStatus, AnswerStands, Jobs!StatusAsAsked, Jobs!ToldStands
<1> QED
  BY <1>1, <1>2, <1>3, PTL DEF Jobs!Spec, Jobs!vars, jvars
=============================================================================
